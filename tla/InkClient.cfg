SPECIFICATION FairSpec
CONSTANTS
  MaxBeginFrames = 2
  MaxEvents = 2
INVARIANTS
  TypeOK
  ResourcesConserved
  BoundBeforeUse
  BitmapBeforeFrame
  OnlyChangedFrames
PROPERTIES
  MovesAreShown
  OwnershipSpec
