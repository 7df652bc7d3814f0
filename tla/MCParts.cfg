SPECIFICATION PartsSpec
CONSTANTS
  Null = Null
  EmptyList = EmptyList
  Uncompilable = Uncompilable
  FullList = FullList
  Blob = Blob
  NoValue = NoValue
  Quoted <- Quoted_
  Prefixed <- Prefixed_
  Wildcards <- Wildcards_
  Thunks <- Thunks_
  Rules <- Rules_
  Functions <- Functions_
  Numerals <- Numerals_
  Library <- Library_
  Keys <- Keys_
  Lists <- Lists_
  Lines <- Lines_
  Followups <- Followups_
  MaxRewrites = 16
  MaxCode = 8
  MaxLines = 2
  tYield = tYield
  tAwait = tAwait
  tStrict = tStrict
  tDefine = tDefine
  tRemove = tRemove
  tApply = tApply
  tMode = tMode
  tSpec = tSpec
  aRule = aRule
  fSafe = fSafe
  fUnsafe = fUnsafe
  user1 = user1
  builtin1 = builtin1
  parked1 = parked1
  mount1 = mount1
  p1 = p1
  Procs = {p1}
  Allocators <- TwoAllocators
  Rooted = {"value"}
  NumSlabs = 3
  SlabSize = 4
  UserNames = {user1}
  Builtins = {builtin1}
  Parked = {parked1}
  Mounts = {mount1}
  MaxSaves = 2
  Stuck <- StuckFiles
  Texts = {"word", "page"}
  Length <- TextLengths
  SlabBytes = 5
  NumBlobSlabs = 2
  MaxNodes = 7
  MaxStack = 2
  MaxDepth = 2
  InsideOut = TRUE
  Brimful = FALSE
  Radix = 2
  Structs <- Structs_
  CFunctions <- CFunctions_
  Numbers <- Numbers_
  MaxLeaks = 1
INVARIANTS
  LinesAreRead
  CompletedSaveRestores
  CopyIsFaithful
  AnswersAreTrue
  ForeignDataIsKept
  RollbacksAreExact
PROPERTIES
  SpeculationKeepsCallers
  RestoresOneSave
  FrozenStays
CHECK_DEADLOCK FALSE
