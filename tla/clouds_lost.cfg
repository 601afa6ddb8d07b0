CONSTANTS
  guest = guest
  Guests <- OneGuest
  AccountCount = 2
  CloudModes = {"replace"}
  FreshPacked = {TRUE}
  SavesTroubles = {}
  MaxSaves = 3
  SwapCalls = 2
  Nil = Nil
  TornSave = TornSave
  NoBytes = NoBytes
SPECIFICATION SavesSpec
PROPERTIES
  CopiesMirror
CHECK_DEADLOCK FALSE
