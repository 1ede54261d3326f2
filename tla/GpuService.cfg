SPECIFICATION FairStartUp
INVARIANTS
  UsedAfterMade
PROPERTIES
  ClientsAreProvided
\* The model ends when both clients have their context provider, or stopped without one.
CHECK_DEADLOCK FALSE
