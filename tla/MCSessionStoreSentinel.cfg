CONSTANTS
  p1 = p1
  x = x
  y = y
  b = b
  c = c
  m = m
  Procs = {p1}
  Allocators <- TwoAllocators
  Rooted = {"value"}
  NumSlabs = 4
  SlabSize = 4
  UserNames = {x, y}
  Builtins = {b}
  Parked = {c}
  Mounts = {m}
  MaxSaves = 2
  Stuck <- StuckFiles
SPECIFICATION Spec
INVARIANTS NullIsReserved
CHECK_DEADLOCK FALSE
