SPECIFICATION FairSpec
CONSTANTS
  MaxPaints = 4
  MaxChunks = 2
  MaxFrames = 3
INVARIANTS
  AckedAfterSubmitted
  OneRepaintAtATime
  TilesAreAccounted
  DemoIsMadeOnce
  TraceIsWhole
PROPERTIES
  RepaintingGoesOn
  ClosingEnds
  FramesReachTheFile
\* Every program ends, or idles once its bounded events are over.
CHECK_DEADLOCK FALSE
