SPECIFICATION Spec
CONSTANTS
  Allocation = 2
  MaxOutput = 5
  Longest = 2
  MaxLevels = 3
  Sizes = {1, 2}
  Pads = {0, 1}
INVARIANTS TypeOK LevelIsClosest ExtractedIsTheLevel TapsAreInside BufferHoldsOutput PutIsAnImage
PROPERTIES WalkGoesForward WalkEnds
