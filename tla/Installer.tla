----------------------------- MODULE Installer -----------------------------
(***************************************************************************)
(* tab_install and tab_uninstall (src/src/install.c): one custom tab put    *)
(* into the game and taken out again.  A call checks everything, then makes *)
(* a fixed sequence of changes - level files, palettes, in-game texts, key  *)
(* bindings, the library's server URI and credit, the savefile, its Steam   *)
(* Cloud copy, tabber's own state file - and takes back what it has done    *)
(* when one of them fails.  Each change to the disk is a step of its own,   *)
(* so that a failure or the end of the process can fall between any two.    *)
(*                                                                          *)
(* Contents are reduced to whose they are: a level file, a text or the      *)
(* library's URI belongs to the game (Vanilla) or to a tab, and a savefile  *)
(* is the set of play sessions whose progress it holds.                     *)
(***************************************************************************)
EXTENDS Naturals, FiniteSets

CONSTANTS
  Tabs,      \* the custom tabs of the digest
  Files,     \* the level and challenge files the game reads
  Shipped,   \* the files each tab ships, as the digest first lists them
  Bundles,   \* the extras each tab's digest entry asks for
  NoFile,    \* a file that is not there
  Damaged,   \* a file that was only partly written
  MaxPlay,   \* bound: sessions played with each owner's levels
  Troubles   \* the troubles this instance may meet, each at most once

Vanilla   == "vanilla"
NoRecord  == "none"
Owners    == Tabs \cup {Vanilla}
Langs     == {"english", "other"}       \* columns of the game's text table
Extras    == {"palettes", "bindings"}
Contents  == Owners \cup {NoFile, Damaged}

(* Troubles a call does not put right: the end of the process, a write of   *)
(* the rollback itself that fails, a failure only warned about, an          *)
(* uninstall that fails once Steam's copy is swapped ("restore").  "digest" *)
(* is a catalogue that changes a tab's file list, "legacy" a game an older  *)
(* installer left its tab in.                                               *)
AllTroubles == {"crash", "undo", "cloud", "record", "texts", "bindings",
                "palettes", "restore", "digest", "legacy"}

Events == Owners \X (1 .. MaxPlay)      \* one session of play
Saves  == SUBSET Events                 \* what a savefile holds
Fresh  == {}                            \* the save tabber ships

ASSUME TabsAssumption ==
  Tabs # {} /\ Vanilla \notin Tabs /\ NoRecord \notin Tabs
ASSUME NoFileAssumption ==
  /\ NoFile \notin Owners /\ Damaged \notin Owners /\ NoFile # Damaged
  /\ \A save \in Saves : save # NoFile
ASSUME ShippedAssumption == Shipped \in [Tabs -> SUBSET Files \ {{}}]
ASSUME BundlesAssumption == Bundles \in [Tabs -> SUBSET Extras]
ASSUME MaxPlayAssumption == MaxPlay \in Nat
ASSUME TroublesAssumption == Troubles \subseteq AllTroubles

VARIABLES
  target,    \* the level files the game reads
  backup,    \* the same names with 'OG' appended
  uri,       \* whose server the library points at
  credit,    \* whose name the library credits
  texts,     \* whose text each column of loc.txt shows
  keys,      \* whose bindings keys.vars holds
  palettes,  \* the tabs whose palette folders are in the game
  live,      \* the savefile the game reads
  archive,   \* nprofile_original.zip and nprofile_<code>.zip
  cloud,     \* Steam's copy of the savefile
  installed, \* config.json: the tabs flagged as installed
  textrec,   \* config.json "strings": what the replaced texts read before
  keyrec,    \* config.json "keybindings": likewise for the bindings
  palrec,    \* config.json "palettes" of each tab's entry
  listed,    \* the files the digest lists for each tab
  folder,    \* the files of each tab's download in the store
  pc,        \* the next step of the running call, "idle" between calls
  task,      \* what the call was asked for, and what its checks read
  todo,      \* the level files it has still to handle
  done,      \* the level files it has handled
  left,      \* the extras an uninstall could not put back
  played,    \* history: sessions played with each owner's levels
  troubles   \* history: the troubles met so far

levels == <<target, backup>>
lib    == <<uri, credit>>
extras == <<texts, keys, palettes>>
saves  == <<live, archive, cloud>>
state  == <<installed, textrec, keyrec, palrec>>
store  == <<listed, folder>>
call   == <<task, todo, done, left>>
vars   == <<levels, lib, extras, saves, state, store, pc, call, played,
            troubles>>

(***************************************************************************)
(* A call's plan: what tab_install and tab_uninstall read before the first  *)
(* write, which is also what they go back to.                               *)
(***************************************************************************)
Disk == [target |-> target, backup |-> backup, uri |-> uri, credit |-> credit,
         texts |-> texts, keys |-> keys, palettes |-> palettes,
         live |-> live, archive |-> archive]

Untouched == [target |-> [f \in Files |-> Vanilla],
              backup |-> [f \in Files |-> NoFile],
              uri |-> Vanilla, credit |-> Vanilla,
              texts |-> [l \in Langs |-> Vanilla],
              keys |-> Vanilla, palettes |-> {}, live |-> Fresh,
              archive |-> [o \in Owners |-> NoFile]]

NoTask == [kind |-> "none", tab |-> Vanilla, langs |-> {}, put |-> {},
           before |-> Untouched]

before == task.before
tab    == task.tab

(* Slip: an installation nobody recorded is taken for a fault.              *)
HealthyRecorded == installed = {uri} \ {Vanilla}

(* lib_check: the library and the state file have to tell the same story.   *)
(* Nothing on record passes in any case, a patched library being then an    *)
(* older installer's; of several tabs flagged the first would count, but a  *)
(* call that passed this check never flags a second.                        *)
Healthy == installed \subseteq {uri}

(***************************************************************************)
(* Moving on.                                                               *)
(***************************************************************************)
Goto(step) == pc' = step /\ UNCHANGED call

(* The plans are freed and the call returns.                                *)
Return ==
  /\ pc' = "idle"
  /\ task' = NoTask
  /\ todo' = {} /\ done' = {} /\ left' = {}

(* rollback(files, done), which has nothing to do for the first file.       *)
Rollback == IF done = {} THEN Return ELSE Goto("undo files")

Meets(trouble) ==
  /\ trouble \in Troubles \ troubles
  /\ troubles' = troubles \cup {trouble}

Smooth == UNCHANGED troubles

(* A write of the undo path, whose result the code does not look at.        *)
UndoWrite(write, skip) == (write /\ Smooth) \/ (skip /\ Meets("undo"))

(***************************************************************************)
(* Installing.                                                              *)
(***************************************************************************)
(* The checks: a clean library still pointing at the official server, a     *)
(* download in the store, and every file it replaces there in the game.  A  *)
(* backup that is already there is no reason to refuse.  `langs` is         *)
(* --languages, `put` what is left of the tab's extras once palettes whose  *)
(* name is taken and bindings that cannot be planned have been dropped.     *)
BeginInstall(t) ==
  /\ pc = "idle"
  /\ Healthy /\ uri = Vanilla
  /\ folder[t] # {}
  /\ \A f \in folder[t] : target[f] # NoFile
  /\ \E langs \in SUBSET Langs, put \in SUBSET Bundles[t] :
       task' = [kind |-> "install", tab |-> t, langs |-> langs, put |-> put,
                before |-> Disk]
  /\ todo' = folder[t] /\ done' = {} /\ left' = {}
  /\ pc' = "rename"
  /\ UNCHANGED <<levels, lib, extras, saves, state, store, played, troubles>>

(* The original is set aside, over whatever the backup's name held.         *)
RenameAside(f) ==
  /\ pc = "rename" /\ f \in todo
  /\ \/ /\ backup' = [backup EXCEPT ![f] = target[f]]
        /\ target' = [target EXCEPT ![f] = NoFile]
        /\ Goto("write")
     \/ UNCHANGED levels /\ Rollback
  /\ UNCHANGED <<lib, extras, saves, state, store, played, troubles>>

(* The tab's copy goes in its place, or what was written of it is removed,  *)
(* this one file put back and then the ones before it.  Neither the removal *)
(* nor the move is looked at: without the move nothing is left there, or,   *)
(* without either, what was written.                                        *)
WriteCopy(f) ==
  /\ pc = "write" /\ f \in todo /\ target[f] = NoFile
  /\ \/ /\ target' = [target EXCEPT ![f] = tab]
        /\ todo' = todo \ {f} /\ done' = done \cup {f}
        /\ pc' = IF todo = {f} THEN "palettes" ELSE "rename"
        /\ UNCHANGED <<backup, task, left>> /\ Smooth
     \/ /\ Rollback
        /\ UndoWrite(/\ target' = [target EXCEPT ![f] = backup[f]]
                     /\ backup' = [backup EXCEPT ![f] = NoFile],
                     /\ target' \in {target, [target EXCEPT ![f] = Damaged]}
                     /\ UNCHANGED backup)
  /\ UNCHANGED <<lib, extras, saves, state, store, played>>

PutPalettes ==
  /\ pc = "palettes" /\ task.kind = "install"
  /\ \/ /\ palettes' = IF "palettes" \in task.put THEN palettes \cup {tab}
                       ELSE palettes
        /\ Goto("texts")
     \/ "palettes" \in task.put /\ UNCHANGED palettes /\ Rollback
  /\ UNCHANGED <<levels, lib, texts, keys, saves, state, store, played, troubles>>

PutTexts ==
  /\ pc = "texts" /\ task.kind = "install"
  /\ \/ /\ texts' = [l \in Langs |-> IF l \in task.langs THEN tab ELSE texts[l]]
        /\ Goto("bindings")
     \/ task.langs # {} /\ UNCHANGED texts /\ Goto("undo palettes")
  /\ UNCHANGED <<levels, lib, keys, palettes, saves, state, store, played, troubles>>

PutBindings ==
  /\ pc = "bindings" /\ task.kind = "install"
  /\ \/ /\ keys' = IF "bindings" \in task.put THEN tab ELSE keys
        /\ Goto("uri")
     \/ "bindings" \in task.put /\ UNCHANGED keys /\ Goto("undo texts")
  /\ UNCHANGED <<levels, lib, texts, palettes, saves, state, store, played, troubles>>

(* "Redirect the game's queries, last and quickest."                        *)
PointAtTab ==
  /\ pc = "uri" /\ task.kind = "install"
  /\ \/ uri' = tab /\ Goto("credit")
     \/ UNCHANGED uri /\ Goto("undo bindings")
  /\ UNCHANGED <<levels, credit, extras, saves, state, store, played, troubles>>

(* Cosmetic: replaced when the library still credits Metanet, and left as   *)
(* it is, with a warning, when it does not or the write fails.              *)
ChangeCredit ==
  /\ pc = "credit" /\ task.kind = "install"
  /\ \/ credit = Vanilla /\ credit' = tab
     \/ UNCHANGED credit
  /\ Goto("archive")
  /\ UNCHANGED <<levels, uri, extras, saves, state, store, played, troubles>>

(***************************************************************************)
(* The savefile: save_plan_apply, the same for both calls.                  *)
(***************************************************************************)
Installing == task.kind = "install"

(* Where the save in place is filed, and where the one going in comes from. *)
FiledAs == IF Installing THEN Vanilla ELSE tab
TakenAs == IF Installing THEN tab ELSE Vanilla

(* Slip: the archive is not looked for.                                     *)
IncomingFresh == Fresh

Incoming == IF before.archive[TakenAs] = NoFile THEN Fresh
            ELSE before.archive[TakenAs]

(* Slip: a swap that fails is tried again.                                  *)
SaveRetries == Goto("archive")

SaveFails == IF Installing THEN Goto("undo credit") ELSE Return

ArchiveSave ==
  /\ pc = "archive"
  /\ \/ archive' = [archive EXCEPT ![FiledAs] = live] /\ Goto("save")
     \/ UNCHANGED archive /\ SaveFails
  /\ UNCHANGED <<levels, lib, extras, live, cloud, state, store, played, troubles>>

(* Slip: the archive is moved into place, not copied.                       *)
SwapSaveMoving ==
  /\ pc = "save"
  /\ \/ live' = Incoming /\ Goto("cloud") /\ Smooth
        /\ archive' = [archive EXCEPT ![TakenAs] = NoFile]
     \/ SaveFails /\ UndoWrite(UNCHANGED live, live' = Incoming) /\ UNCHANGED archive
  /\ UNCHANGED <<levels, lib, extras, cloud, state, store, played>>

(* A swap that fails once the new save is in place undoes itself.           *)
SwapSave ==
  /\ pc = "save"
  /\ \/ live' = Incoming /\ Goto("cloud") /\ Smooth
     \/ SaveFails /\ UndoWrite(UNCHANGED live, live' = Incoming)
  /\ UNCHANGED <<levels, lib, extras, archive, cloud, state, store, played>>

(* cloud_apply: a copy that is there is replaced or removed; one that could *)
(* not be is a warning; one kept on purpose (--cloud-mode keep) counts as   *)
(* that same trouble.                                                       *)
SyncCloud ==
  /\ pc = "cloud"
  /\ \/ cloud = NoFile /\ UNCHANGED cloud /\ Smooth
     \/ cloud # NoFile /\ cloud' \in {live, NoFile} /\ Smooth
     \/ cloud # NoFile /\ UNCHANGED cloud /\ Meets("cloud")
  /\ Goto(IF Installing THEN "record" ELSE "uri")
  /\ UNCHANGED <<levels, lib, extras, live, archive, state, store, played>>

(* Slip: the library's old owner is flagged instead of the tab.             *)
RecordFlagsOld ==
  /\ pc = "record" /\ Installing
  /\ installed' = installed \cup {before.uri}
  /\ UNCHANGED <<textrec, keyrec, palrec, troubles>>
  /\ Return
  /\ UNCHANGED <<levels, lib, extras, saves, store, played>>

(* Slip: the texts are recorded as they read after they were replaced.      *)
RecordTooLate ==
  /\ pc = "record" /\ Installing
  /\ installed' = installed \cup {tab}
  /\ textrec' = [l \in Langs |-> IF l \in task.langs THEN texts[l] ELSE NoRecord]
  /\ UNCHANGED <<keyrec, palrec, troubles>>
  /\ Return
  /\ UNCHANGED <<levels, lib, extras, saves, store, played>>

(* The record of an install: the texts' replaces whatever was on record,    *)
(* the bindings' is merged into it.                                         *)
RecordInstall ==
  /\ pc = "record" /\ Installing
  /\ \/ /\ installed' = installed \cup {tab}
        /\ palrec' = [palrec EXCEPT ![tab] =
                        IF "palettes" \in task.put THEN "made" ELSE "empty"]
        /\ textrec' = [l \in Langs |->
                         IF l \in task.langs /\ before.texts[l] # tab
                         THEN before.texts[l] ELSE NoRecord]
        /\ keyrec' = IF "bindings" \in task.put /\ keyrec = NoRecord
                        /\ before.keys # tab
                     THEN before.keys ELSE keyrec
        /\ Smooth
     \/ UNCHANGED state /\ Meets("record")
  /\ Return
  /\ UNCHANGED <<levels, lib, extras, saves, store, played>>

(***************************************************************************)
(* Undoing an install, in the reverse order.                                *)
(***************************************************************************)
UndoCredit ==
  /\ pc = "undo credit"
  /\ UndoWrite(credit' = before.credit, UNCHANGED credit)
  /\ Goto("undo uri")
  /\ UNCHANGED <<levels, uri, extras, saves, state, store, played>>

(* The URI the library carried when the call began, for both calls.         *)
UndoUri ==
  /\ pc = "undo uri"
  /\ UndoWrite(uri' = before.uri, UNCHANGED uri)
  /\ Goto(IF Installing THEN "undo bindings" ELSE "undo save")
  /\ UNCHANGED <<levels, credit, extras, saves, state, store, played>>

(* Slip: the texts are not undone.                                          *)
UndoBindingsOnly ==
  /\ pc = "undo bindings"
  /\ UndoWrite(keys' = before.keys, UNCHANGED keys)
  /\ Goto("undo palettes")
  /\ UNCHANGED <<levels, lib, texts, palettes, saves, state, store, played>>

UndoBindings ==
  /\ pc = "undo bindings"
  /\ UndoWrite(keys' = before.keys, UNCHANGED keys)
  /\ Goto("undo texts")
  /\ UNCHANGED <<levels, lib, texts, palettes, saves, state, store, played>>

UndoTexts ==
  /\ pc = "undo texts"
  /\ UndoWrite(texts' = before.texts, UNCHANGED texts)
  /\ Goto("undo palettes")
  /\ UNCHANGED <<levels, lib, keys, palettes, saves, state, store, played>>

UndoPalettes ==
  /\ pc = "undo palettes"
  /\ UndoWrite(palettes' = before.palettes, UNCHANGED palettes)
  /\ Rollback
  /\ UNCHANGED <<levels, lib, texts, keys, saves, state, store, played>>

(* Slip: the backup is given up although it could not be moved.             *)
UndoFileLosing(f) ==
  /\ pc = "undo files" /\ f \in done
  /\ backup' = [backup EXCEPT ![f] = NoFile]
  /\ UndoWrite(target' = [target EXCEPT ![f] = backup[f]],
               target' = [target EXCEPT ![f] = NoFile])
  /\ IF done = {f} THEN Return
     ELSE done' = done \ {f} /\ UNCHANGED <<pc, task, todo, left>>
  /\ UNCHANGED <<lib, extras, saves, state, store, played>>

(* One file of rollback(): the tab's copy is deleted and the original moved *)
(* back over whatever is still there.  Neither result is looked at: a move  *)
(* that fails leaves nothing under the game's name or, when the deletion    *)
(* failed too, the tab's copy.                                              *)
UndoFile(f) ==
  /\ pc = "undo files" /\ f \in done
  /\ UndoWrite(/\ target' = [target EXCEPT ![f] = backup[f]]
               /\ backup' = [backup EXCEPT ![f] = NoFile],
               /\ target' \in {target, [target EXCEPT ![f] = NoFile]}
               /\ UNCHANGED backup)
  /\ IF done = {f} THEN Return
     ELSE done' = done \ {f} /\ UNCHANGED <<pc, task, todo, left>>
  /\ UNCHANGED <<lib, extras, saves, state, store, played>>

(***************************************************************************)
(* Uninstalling.                                                            *)
(***************************************************************************)
(* The checks: the library has to name this very tab, and every file of the *)
(* digest's list for it has to be there.  Files with no backup come from    *)
(* the vanilla mappack, fetched when it has to be, and refuse nothing.      *)
MayUninstall(t) == Healthy /\ uri = t /\ \A f \in listed[t] : target[f] # NoFile

BeginUninstall(t) ==
  /\ pc = "idle" /\ MayUninstall(t)
  /\ task' = [kind |-> "uninstall", tab |-> t, langs |-> {}, put |-> {},
              before |-> Disk]
  /\ todo' = listed[t] /\ done' = {} /\ left' = {}
  /\ pc' = "archive"
  /\ UNCHANGED <<levels, lib, extras, saves, state, store, played, troubles>>

PointBack ==
  /\ pc = "uri" /\ task.kind = "uninstall"
  /\ \/ uri' = Vanilla /\ Goto("restore credit") /\ Smooth
     \/ UNCHANGED uri /\ Goto("undo save") /\ Meets("restore")
  /\ UNCHANGED <<levels, credit, extras, saves, state, store, played>>

(* The credit is found by what it says: this tab's author, or not at all.   *)
RestoreCredit ==
  /\ pc = "restore credit"
  /\ \/ credit = tab /\ credit' = Vanilla
     \/ UNCHANGED credit
  /\ Goto("restore")
  /\ UNCHANGED <<levels, uri, extras, saves, state, store, played, troubles>>

HadBackup(f) == before.backup[f] # NoFile

(* Slip: the library is pointed back at the tab before the files are back.  *)
RestoreFileUriFirst(f) ==
  /\ pc = "restore" /\ f \in todo
  /\ \/ /\ target' = [target EXCEPT ![f] = Vanilla]
        /\ backup' = [backup EXCEPT ![f] = NoFile]
        /\ todo' = todo \ {f} /\ done' = done \cup {f}
        /\ pc' = IF todo = {f} THEN "texts" ELSE "restore"
        /\ UNCHANGED <<task, left>> /\ Smooth
     \/ /\ Meets("restore")
        /\ UNCHANGED levels
        /\ Goto("undo uri")
  /\ UNCHANGED <<lib, extras, saves, state, store, played>>

(* The backup is renamed over the tab's copy; without one the game's own    *)
(* copy is written over it, which can stop half way.                        *)
RestoreFile(f) ==
  /\ pc = "restore" /\ f \in todo
  /\ \/ /\ IF HadBackup(f)
           THEN /\ target' = [target EXCEPT ![f] = backup[f]]
                /\ backup' = [backup EXCEPT ![f] = NoFile]
           ELSE /\ target' = [target EXCEPT ![f] = Vanilla]
                /\ UNCHANGED backup
        /\ todo' = todo \ {f} /\ done' = done \cup {f}
        /\ pc' = IF todo = {f} THEN "texts" ELSE "restore"
        /\ UNCHANGED <<task, left>> /\ Smooth
     \/ /\ Meets("restore")
        /\ \/ UNCHANGED levels
           \/ /\ ~HadBackup(f)
              /\ target' = [target EXCEPT ![f] = Damaged]
              /\ UNCHANGED backup
        /\ Goto(IF done = {} THEN "undo uri" ELSE "put back")
  /\ UNCHANGED <<lib, extras, saves, state, store, played>>

(* A file already restored: the original aside again, the tab's rewritten.  *)
(* Neither result is looked at, so either can be missing, and the second    *)
(* can stop half way.                                                       *)
SetAside(f) == backup' = IF HadBackup(f) THEN [backup EXCEPT ![f] = target[f]]
                         ELSE backup
Rewrite(f)  == target' = [target EXCEPT ![f] = before.target[f]]

PutBack(f) ==
  /\ pc = "put back" /\ f \in done
  /\ UndoWrite(SetAside(f) /\ Rewrite(f),
               \/ UNCHANGED backup /\ Rewrite(f)
               \/ /\ UNCHANGED backup \/ SetAside(f)
                  /\ \/ target' = [target EXCEPT ![f] = Damaged]
                     \/ target' = [target EXCEPT ![f] =
                           IF backup' = backup THEN @ ELSE NoFile])
  /\ done' = done \ {f}
  /\ pc' = IF done = {f} THEN "undo uri" ELSE "put back"
  /\ UNCHANGED <<lib, extras, saves, state, store, task, todo, left, played>>

(* save_plan_undo: the save comes back out of the archive just made, in     *)
(* place; a write that stops half way leaves nobody's progress in it.       *)
UndoSave ==
  /\ pc = "undo save"
  /\ UndoWrite(live' = archive[tab], live' \in {live, {}})
  /\ Return
  /\ UNCHANGED <<levels, lib, extras, archive, cloud, state, store, played>>

(* What each text column goes back to: the record, else - in English, which *)
(* older installers overwrote - the game's own text.                        *)
(* Slip: nothing on record, nothing restored.                               *)
RestoredRecord(l) == IF textrec[l] # NoRecord THEN textrec[l] ELSE texts[l]

Restored(l) == IF textrec[l] # NoRecord THEN textrec[l]
               ELSE IF l = "english" THEN Vanilla ELSE texts[l]

RestoreTexts ==
  /\ pc = "texts" /\ task.kind = "uninstall"
  /\ \/ texts' = [l \in Langs |-> Restored(l)] /\ UNCHANGED left /\ Smooth
     \/ UNCHANGED texts /\ left' = left \cup {"texts"} /\ Meets("texts")
  /\ pc' = "bindings"
  /\ UNCHANGED <<levels, lib, keys, palettes, saves, state, store, task, todo,
                 done, played>>

RestoreBindings ==
  /\ pc = "bindings" /\ task.kind = "uninstall"
  /\ \/ /\ keys' = IF keyrec = NoRecord THEN keys ELSE keyrec
        /\ UNCHANGED left /\ Smooth
     \/ /\ keyrec # NoRecord
        /\ UNCHANGED keys /\ left' = left \cup {"bindings"} /\ Meets("bindings")
  /\ pc' = "palettes"
  /\ UNCHANGED <<levels, lib, texts, palettes, saves, state, store, task, todo,
                 done, played>>

(* The folders on record, or the digest's list for an install that predates *)
(* the record.  "palettes" is a failed deletion, or --keep-palettes, which  *)
(* leaves them and their record just the same.                              *)
ToRemove == IF \/ palrec[tab] = "made"
               \/ palrec[tab] = "unknown" /\ "palettes" \in Bundles[tab]
            THEN {tab} ELSE {}

RemovePalettes ==
  /\ pc = "palettes" /\ task.kind = "uninstall"
  /\ \/ palettes' = palettes \ ToRemove /\ UNCHANGED left /\ Smooth
     \/ UNCHANGED palettes /\ left' = left \cup {"palettes"} /\ Meets("palettes")
  /\ pc' = "record"
  /\ UNCHANGED <<levels, lib, texts, keys, saves, state, store, task, todo,
                 done, played>>

(* Only the records of what really went back are emptied.                   *)
RecordUninstall ==
  /\ pc = "record" /\ task.kind = "uninstall"
  /\ \/ /\ installed' = installed \ {tab}
        /\ textrec' = IF "texts" \in left THEN textrec
                      ELSE [l \in Langs |-> NoRecord]
        /\ keyrec' = IF "bindings" \in left THEN keyrec ELSE NoRecord
        /\ palrec' = IF "palettes" \in left THEN palrec
                     ELSE [palrec EXCEPT ![tab] = "empty"]
        /\ Smooth
     \/ UNCHANGED state /\ Meets("record")
  /\ Return
  /\ UNCHANGED <<levels, lib, extras, saves, store, played>>

(***************************************************************************)
(* What goes on around the calls.                                           *)
(***************************************************************************)
(* A level file caught half way through its step: written in part, or moved *)
(* aside with nothing yet in its place.                                     *)
TornFile(f) ==
  \/ /\ pc = "write" /\ f \in todo /\ target[f] = NoFile
     /\ target' = [target EXCEPT ![f] = Damaged] /\ UNCHANGED backup
  \/ /\ pc = "undo files" /\ f \in done
     /\ target' = [target EXCEPT ![f] = NoFile] /\ UNCHANGED backup
  \/ /\ pc = "restore" /\ f \in todo /\ ~HadBackup(f)
     /\ target' = [target EXCEPT ![f] = Damaged] /\ UNCHANGED backup
  \/ /\ pc = "put back" /\ f \in done /\ SetAside(f)
     /\ target' = [target EXCEPT ![f] = Damaged]

(* The process ends between two writes, or in the middle of one that is not *)
(* staged: a level file, a palette folder, the save an undo writes back.    *)
(* Nothing is resumed.                                                      *)
Crash ==
  /\ pc # "idle" /\ Meets("crash")
  /\ \/ UNCHANGED <<levels, palettes, live>>
     \/ (\E f \in Files : TornFile(f)) /\ UNCHANGED <<palettes, live>>
     \/ /\ pc = "palettes" /\ "palettes" \in task.put
        /\ palettes' = palettes \cup {tab}
        /\ UNCHANGED <<levels, live>>
     \/ pc = "undo save" /\ live' = {} /\ UNCHANGED <<levels, palettes>>
  /\ Return
  /\ UNCHANGED <<lib, texts, keys, archive, cloud, state, store, played>>

(* The game is played between calls.  Steam's copy of the save wins at its  *)
(* start, and the copy is brought up to date at its end.                    *)
Play ==
  /\ pc = "idle" /\ played[uri] < MaxPlay
  /\ played' = [played EXCEPT ![uri] = @ + 1]
  /\ live' = (IF cloud = NoFile THEN live ELSE cloud) \cup {<<uri, played[uri] + 1>>}
  /\ cloud' \in {live'} \cup (IF cloud = NoFile THEN {NoFile} ELSE {})
  /\ UNCHANGED <<levels, lib, extras, archive, state, store, pc, call, troubles>>

(* tab_fetch and tab_remove, seen from here.                                *)
Fetch(t) ==
  /\ pc = "idle" /\ folder[t] # listed[t]
  /\ folder' = [folder EXCEPT ![t] = listed[t]]
  /\ UNCHANGED <<levels, lib, extras, saves, state, listed, pc, call, played,
                 troubles>>

Remove(t) ==
  /\ pc = "idle" /\ folder[t] # {}
  /\ folder' = [folder EXCEPT ![t] = {}]
  /\ UNCHANGED <<levels, lib, extras, saves, state, listed, pc, call, played,
                 troubles>>

(* A newer digest is cached, and lists other files for the tab.             *)
RefreshDigest(t) ==
  /\ pc = "idle" /\ Meets("digest")
  /\ \E files \in SUBSET Files \ {{}} : listed' = [listed EXCEPT ![t] = files]
  /\ UNCHANGED <<levels, lib, extras, saves, state, folder, pc, call, played>>

(***************************************************************************)
(* The specification.                                                       *)
(***************************************************************************)
(* A game nothing was ever done to, with or without a cloud copy of its     *)
(* save, or one an older installer has put its tab in: no backups, no       *)
(* record, English texts only, its own fresh save.                          *)
InitGame(o) ==
  /\ target = [f \in Files |-> IF o # Vanilla /\ f \in Shipped[o]
                               THEN o ELSE Vanilla]
  /\ uri = o /\ credit = o
  /\ texts = [l \in Langs |-> IF l = "english" THEN o ELSE Vanilla]
  /\ keys = Vanilla
  /\ palettes = {}
  /\ archive = [p \in Owners |-> IF o # Vanilla /\ p = Vanilla
                                 THEN Fresh ELSE NoFile]

Init ==
  /\ \/ InitGame(Vanilla) /\ troubles = {}
     \/ /\ "legacy" \in Troubles /\ troubles = {"legacy"}
        /\ \E t \in Tabs : InitGame(t)
  /\ backup = [f \in Files |-> NoFile]
  /\ live = Fresh /\ cloud \in {NoFile, Fresh}
  /\ installed = {}
  /\ textrec = [l \in Langs |-> NoRecord] /\ keyrec = NoRecord
  /\ palrec = [t \in Tabs |-> "unknown"]
  /\ listed = Shipped /\ folder = Shipped
  /\ pc = "idle" /\ task = NoTask
  /\ todo = {} /\ done = {} /\ left = {}
  /\ played = [o \in Owners |-> 0]

(* The steps of a running call.                                             *)
Step ==
  \/ \E f \in Files : \/ RenameAside(f) \/ WriteCopy(f) \/ UndoFile(f)
                      \/ RestoreFile(f) \/ PutBack(f)
  \/ PutPalettes \/ PutTexts \/ PutBindings \/ PointAtTab \/ ChangeCredit
  \/ ArchiveSave \/ SwapSave \/ SyncCloud \/ RecordInstall
  \/ UndoCredit \/ UndoUri \/ UndoBindings \/ UndoTexts \/ UndoPalettes
  \/ PointBack \/ RestoreCredit \/ UndoSave
  \/ RestoreTexts \/ RestoreBindings \/ RemovePalettes \/ RecordUninstall

Next ==
  \/ Step
  \/ \E t \in Tabs : \/ BeginInstall(t) \/ BeginUninstall(t)
                     \/ Fetch(t) \/ Remove(t) \/ RefreshDigest(t)
  \/ Crash
  \/ Play

Spec     == Init /\ [][Next]_vars
FairSpec == Spec /\ WF_vars(Step)
=============================================================================
