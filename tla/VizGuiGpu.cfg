SPECIFICATION FairSpec
CONSTANTS
  MaxBeginFrames = 2
  MaxVsyncs = 3
INVARIANTS
  VizMainIsMade
  FramesEmbedTheChild
PROPERTIES
  ContextArrives
\* The display stops issuing BeginFrames after MaxVsyncs.
CHECK_DEADLOCK FALSE
