SPECIFICATION FairSpec
CONSTANTS
  MaxBeginFrames = 2
  MaxVsyncs = 3
INVARIANTS
  OnlyAcksStrand
  OneChildSurface
PROPERTIES
  ProviderArrives
\* The display stops issuing BeginFrames after MaxVsyncs.
CHECK_DEADLOCK FALSE
