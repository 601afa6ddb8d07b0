CONSTANTS
  p = p
  p2 = p2
  q = q
  b = b
  Unknown = Unknown
  Names <- AllNames
  Baked <- BakedNames
  Suffixed <- SuffixedNames
  Bundled <- Bundle
  Room = 2
  Modes = {"skip", "replace", "suffix"}
  Troubles = {"undo", "palettes", "record", "crash"}
  None = None
  Inputs <- AllInputs
  CutUpTo = 5
  LengthLists <- RunLists
  Literals = 3
  Window = 4
  MinMatch = 3
  MaxMatch = 5
  MaxChain = 2
  NiceMatch = 4
  BlockSyms = 9
  BlockBytes = 15
  LengthCodes <- Lengths
  DistCodes <- Distances
  MaxBits = 3
  ClMaxBits = 3
  FixedLens <- Fixed
  FixedDistLen = 2
  Hash <- LastTwo
  ByteBits = 2
  SpanBits = 4
  Archives <- AllArchives
  Fragile <- Frail
  Comments <- AllComments
  Streams <- AllStreams
  Wanted <- Prefix
  Damages <- Bad
  Checksum <- Sum
  SigLocal = 500
  SigCentral = 501
  SigEnd = 502
  Marker = 999
  CountMarker = 998
  MaxBack = 2
  Magic = 499
  Nothing = Nothing
  Players = {1, 2, 3}
  Actions = {"left", "jump"}
  Keys = {"a", "b", "x", "-1"}
  Unbound = "-1"
  Files <- AllFiles
  Lists <- AllLists
  KeysTroubles = {"keysWrite", "keysUndo", "keysSave", "keysCrash"}
  KeysCalls = 4
  KeysAfter = 0
  NoKeysPlan = NoKeysPlan
  Worlds <- AllWorlds
  Mine <- First
  Releases <- AllReleases
  Late = 2
  Intervals = {0, 9}
  Policies = {"auto", "prompt"}
  Rank <- Order
  IntervalMin = 1
  IntervalMax = 2
  UpdateTroubles = {"net", "disk", "swap", "back", "stamp", "spawn", "crash", "clock"}
  UpdateCalls = 2
  NoFile = NoFile
  NoInfo = NoInfo
  t1 = t1
  t2 = t2
  g1 = g1
  g2 = g2
  Shelves <- TwoShelves
  Catalogues <- AllCatalogues
  Packs <- AllPacks
  Kinds = {"list", "update", "fetch", "install", "remove", "check", "server", "paths", "uninstall"}
  Volumes = {TRUE, FALSE}
  StoreTroubles = {"net", "cache", "shelf", "clear", "record", "game", "move", "cut", "window"}
  StoreCalls = 3
  Besides <- AllBesides
  Missing = Missing
  Broken = Broken
  v1 = v1
  v2 = v2
  Windows <- TwoWindows
  Task = "task"
  Absent = Absent
  Day = 2
  HoursMin = 1
  EveryMax = 3
  Hours = {0, 5, 9}
  Offered = {"prompt"}
  Typed = {0, 4}
  HasRoot = TRUE
  SettingsTroubles = {"load", "save", "close"}
  Presses = 5
  guest = guest
  Guests <- OneGuest
  AccountCount = 2
  CloudModes = {"replace", "remove", "keep"}
  FreshPacked = {TRUE, FALSE}
  SavesTroubles = {"undo", "cloud", "rest", "cut"}
  MaxSaves = 2
  SwapCalls = 2
  Nil = Nil
  TornSave = TornSave
  NoBytes = NoBytes
SPECIFICATION PartsSpec
INVARIANTS
  LimitKept NothingLeft
  StreamComesBack ChainsHold
  ReadAsPacked NothingOutside
  RecordTells
  StillStarts TurnedDownOnce
  KeptReadable DownloadsWhole 
  NextWindowAlike
  GameFinds
PROPERTIES
  RecordedKept RollbackWhole
  UnbindPutsBack
  NeverOlder LooksApart SaidOnce
  AdoptLosesNothing
  OthersStand
  FiledFirst
