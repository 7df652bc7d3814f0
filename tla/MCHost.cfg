SPECIFICATION HostSpec
CONSTANTS
  VMs = {v1, v2}
  Host = Host
  Pids = {p1, p2}
  Jobs = {j1}
  NoPid = NoPid
  Symbols <- HostSymbols
  Uses <- HostSymbols
  Outcomes = {"crashes", "loops", "floods"}
  Owners = {owner1, owner2}
  Callers = {caller1, caller2}
  NoManifest = NoManifest
  MaxLayer = 2
  MaxEpoch = 2
  MaxTick = 2
  NumParticipants = 3
  NumResources = 2
  SlabKeys = {1, 2}
  Messages = {1}
  RingSize = 2
  MaxId = 4
  Members = {1, 2}
  MaxHandles = 2
  LastTick = 2
  Room = 2
  Threads = {thread1, thread2}
  Entities = {quote1}
  Values = {100, 110}
  Late <- InTime
  Resolution = 1
  MaxSamples = 3
  Threshold = 5
  Lookback = 1
  Freshness = 0
  FeedSize = 2
  MaxTime = 2
  MaxEvents = 4
  Providers = {"codex", "openai", "google"}
  MaxTokens = 3
  RootProviders = {"codex", "openai", "unknown"}
  MaxPrompts = 3
  MaxStarts = 3
  lib1 = lib1
  lib2 = lib2
  header1 = header1
  Absent = Absent
  Libraries = {lib1, lib2}
  Headers = {header1}
  FileName <- FileNames
  LibraryTexts <- LibraryFiles
  HeaderTexts <- HeaderFiles
  UnsafeNames = {}
  AtFirst <- FilesAtFirst
  Missing = Absent
  MaxChanges = 2
  Cells = {cell1, cell2, cell3}
  Null = NoCell
  MaxRefs = 2
INVARIANTS
  OwnProcess
  MailFindsItsReader
  ClaimsAreTrue
  HighlightsAreTrue
  RepliesAreWhole
  RequestsCarryTheSession
  ImportsMeanWhatTheySay
  ReferencesBalance
PROPERTIES
  CollectReturns
  LayersShowOneSpan
CHECK_DEADLOCK FALSE
