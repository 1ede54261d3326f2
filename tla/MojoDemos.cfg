SPECIFICATION FairMojoSpec
CONSTANT MaxClients = 2
INVARIANTS
  AssociatedCallsKeepOrder
  HiRunsBeforeForgotten
PROPERTIES
  EveryCallRuns
  EveryClientIsServed
  GoneClientsAreForgotten
\* Every demo comes to rest once its calls have run.
CHECK_DEADLOCK FALSE
