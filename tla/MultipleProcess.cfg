SPECIFICATION FairPipeSpec
INVARIANTS
  NothingLost
  ReadsMatchWrites
PROPERTIES
  WatcherSeesTheEnd
\* The processes idle in their message loops in the end.
CHECK_DEADLOCK FALSE
