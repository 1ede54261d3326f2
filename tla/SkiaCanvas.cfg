SPECIFICATION FairSpec
CONSTANTS
  MaxTouches = 5
  MaxFingers = 2
  MaxResizes = 2
INVARIANTS
  OneRenderClosure
PROPERTIES
  PointsArePainted
  ResizesArePainted
  RepaintingEnds
\* The user stops touching after MaxTouches and resizing after MaxResizes.
CHECK_DEADLOCK FALSE
