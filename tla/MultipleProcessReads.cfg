SPECIFICATION PipeSpec
INVARIANTS
  ReadsSucceed
CHECK_DEADLOCK FALSE
