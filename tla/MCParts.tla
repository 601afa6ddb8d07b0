------------------------------ MODULE MCParts -------------------------------
(***************************************************************************)
(* The parts of tabber that share no state with each other, one behaviour    *)
(* of one of them at a time: `part` says which, and the others stay as they  *)
(* start.  A step of one part neither reads nor writes what another has, so  *)
(* their interleavings would show nothing more.                              *)
(***************************************************************************)
EXTENDS MCPalettes, MCFormats, MCTools, MCSaves

VARIABLE part    \* the part that moves

others == <<keysVars, updateVars, storeVars, settingsVars, savesVars>>
formats == <<stream, archive>>
partsVars == <<part, vars, others, formats>>

(* How a part that does not move stands: at its start. *)
PalettesStill == Init /\ folder = [n \in Names |-> "none"]
BindingsStill == KeysInit /\ lines = File1
UpdateStill ==
  /\ UpdateInit /\ world = [window |-> TRUE] @@ MacOS /\ policy = "auto"
  /\ manifest.version = V(<<1, 1>>, TRUE) /\ file.interval = 0
StoreStill    == StoreInit /\ sameVolume /\ beside.record = Missing
SettingsStill == SettingsInit /\ disk.hours = 0
SavesStill ==
  SavesInit /\ build = "new" /\ steam = [a \in Accounts |-> [gz |-> Nil, raw |-> FALSE]]

PartsInit ==
  \/ /\ part = "palettes" /\ Init /\ BindingsStill /\ UpdateStill /\ StoreStill
     /\ SettingsStill /\ SavesStill /\ StreamIdle /\ ArchiveIdle
  \/ /\ part = "bindings" /\ PalettesStill /\ KeysInit /\ UpdateStill /\ StoreStill
     /\ SettingsStill /\ SavesStill /\ StreamIdle /\ ArchiveIdle
  \/ /\ part = "update" /\ PalettesStill /\ BindingsStill /\ UpdateInit /\ StoreStill
     /\ SettingsStill /\ SavesStill /\ StreamIdle /\ ArchiveIdle
  \/ /\ part = "store" /\ PalettesStill /\ BindingsStill /\ UpdateStill /\ StoreInit
     /\ SettingsStill /\ SavesStill /\ StreamIdle /\ ArchiveIdle
  \/ /\ part = "settings" /\ PalettesStill /\ BindingsStill /\ UpdateStill /\ StoreStill
     /\ SettingsInit /\ SavesStill /\ StreamIdle /\ ArchiveIdle
  \/ /\ part = "stream" /\ PalettesStill /\ BindingsStill /\ UpdateStill /\ StoreStill
     /\ SettingsStill /\ SavesStill /\ StreamInit /\ ArchiveIdle
  \/ /\ part = "archive" /\ PalettesStill /\ BindingsStill /\ UpdateStill /\ StoreStill
     /\ SettingsStill /\ SavesStill /\ StreamIdle /\ ArchiveInit
  \/ /\ part = "saves" /\ PalettesStill /\ BindingsStill /\ UpdateStill /\ StoreStill
     /\ SettingsStill /\ SavesInit /\ StreamIdle /\ ArchiveIdle

(* Between calls a part may stop where it is. *)
Rest ==
  /\ \/ part = "bindings" /\ call = NoKeysPlan
     \/ part = "update" /\ up.step = "idle" /\ thread \in {"off", "open"}
     \/ part = "store" /\ job = Missing
     \/ part = "saves" /\ swap = Nil
     \/ part = "settings" /\ \A x \in DOMAIN writing : writing[x] = Absent
  /\ UNCHANGED partsVars

PartsNext ==
  \/ part = "palettes" /\ Next /\ UNCHANGED <<part, others, formats>>
  \/ /\ part = "bindings" /\ KeysNext
     /\ UNCHANGED <<part, vars, updateVars, storeVars, settingsVars, savesVars, formats>>
  \/ /\ part = "update" /\ UpdateNext
     /\ UNCHANGED <<part, vars, keysVars, storeVars, settingsVars, savesVars, formats>>
  \/ /\ part = "store" /\ StoreNext
     /\ UNCHANGED <<part, vars, keysVars, updateVars, settingsVars, savesVars, formats>>
  \/ /\ part = "settings" /\ SettingsNext
     /\ UNCHANGED <<part, vars, keysVars, updateVars, storeVars, savesVars, formats>>
  \/ /\ part = "saves" /\ SavesNext
     /\ UNCHANGED <<part, vars, keysVars, updateVars, storeVars, settingsVars, formats>>
  \/ part = "stream" /\ StreamNext /\ UNCHANGED <<part, vars, others, archive>>
  \/ part = "archive" /\ ArchiveNext /\ UNCHANGED <<part, vars, others, stream>>
  \/ Rest

PartsSpec == PartsInit /\ [][PartsNext]_partsVars
=============================================================================
