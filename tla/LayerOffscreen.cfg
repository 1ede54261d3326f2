SPECIFICATION FairSpec
CONSTANTS
  MaxBeginFrames = 2
  FramePeriod = 2
  MaxVsyncs = 3
  MaxEvents = 1
INVARIANTS
  RedrawAfterInitHostMain
PROPERTIES
  ActivatedAreRedrawn
\* The display stops issuing BeginFrames after MaxVsyncs.
CHECK_DEADLOCK FALSE
