SPECIFICATION Spec
CONSTANTS
  NumSlabs = 2
  SlabSize = 2
  CountWidth = 6
  Backings = {"heap", "file"}
  MaxRefs = 2
  MaxDepth = 2
  MaxLog = 2
  MaxRestarts = 1
  SaveDepth = 1
  TornDepth = 1
INVARIANTS CountCoversLive
PROPERTIES LiveSlotsKept RollbackExact RootSurvives
