SPECIFICATION Spec
CONSTANTS
  NumNodes = 5
  NumItems = 4
  MaxPins = 2
  MaxSteps = 4
  Names = {1, 2}
  Paths <- ShortPaths
PROPERTIES RemovalStaysOnPath
