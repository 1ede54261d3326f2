SPECIFICATION FairSpec
CONSTANTS
  MaxBeginFrames = 2
  FramePeriod = 2
  MaxVsyncs = 5
INVARIANTS
  EmbedsTheChildsSurface
PROPERTIES
  ReplacedAreReleased
  OwnershipSpec
\* The display stops issuing BeginFrames after MaxVsyncs.
CHECK_DEADLOCK FALSE
