---------------------------- MODULE SwitchProofs ----------------------------
(***************************************************************************)
(* Why a call switches the whole game or changes nothing. While it runs,    *)
(* every part of the disk is a function of what its plan read, of the step  *)
(* it has come to and of the files it has handled; so a call that gives up  *)
(* ends where it began, and one that goes through ends with the game, its   *)
(* texts, bindings, palettes and save, wholly another's.                    *)
(***************************************************************************)
EXTENDS InstallerProofs

(* No undo fails in its turn,                                               *)
Firm == "undo" \notin Troubles

(* nor does the process end inside a call.                                  *)
Gentle == Firm /\ "crash" \notin Troubles

(* Whose tab a call is for, and how far it has come with the library.       *)
InstallPhase ==
  pc # "idle" /\ task.kind = "install" =>
    /\ tab \in Tabs /\ before.uri = Vanilla /\ left = {}
    /\ uri = IF pc \in Swaps \cup {"undo credit", "undo uri"} THEN tab ELSE Vanilla

UninstallPhase ==
  pc # "idle" /\ task.kind = "uninstall" =>
    /\ tab \in Tabs /\ before.uri = tab
    /\ uri = IF pc \in {"archive", "save", "cloud", "uri", "undo save"} THEN tab ELSE Vanilla
    /\ pc \in {"put back", "undo uri", "undo save"} => "restore" \in troubles
    /\ left \subseteq troubles \cap {"texts", "bindings", "palettes"}

Phases == InstallPhase /\ UninstallPhase

(* Every undo goes through, and every call runs to its end.                 *)
LEMMA FirmSteps == Firm => ~Meets("undo")
BY DEF Firm, Meets

(* Where nothing is cut short, and no undo fails, no step is either.        *)
LEMMA GentleSteps == Gentle => ~Crash /\ ~Meets("undo")
BY DEF Gentle, Firm, Crash, Meets

(* A call keeps its plan until it returns, and nothing is played meanwhile. *)
LEMMA CallSteps ==
  ASSUME [Next]_vars, pc # "idle"
  PROVE  UNCHANGED played /\ (pc' # "idle" => UNCHANGED task)
BY DEF Next, Step, vars, call, Return, Goto, Rollback, SaveFails, RenameAside,
       WriteCopy, UndoFile, RestoreFile, PutBack, PutPalettes, PutTexts, PutBindings,
       PointAtTab, ChangeCredit, ArchiveSave, SwapSave, SyncCloud, RecordInstall,
       UndoCredit, UndoUri, UndoBindings, UndoTexts, UndoPalettes, PointBack,
       RestoreCredit, UndoSave, RestoreTexts, RestoreBindings, RemovePalettes,
       RecordUninstall, BeginInstall, BeginUninstall, MayUninstall, Fetch, Remove, Play, Crash,
       RefreshDigest

(* Between calls only these steps are taken.                                *)
LEMMA IdleSteps ==
  ASSUME [Next]_vars, pc = "idle"
  PROVE  \/ \E t \in Tabs : \/ BeginInstall(t) \/ BeginUninstall(t)
                           \/ Fetch(t) \/ Remove(t) \/ RefreshDigest(t)
         \/ Play
         \/ UNCHANGED vars
BY DEF Next, Step, RenameAside, WriteCopy, UndoFile, RestoreFile, PutBack, PutPalettes,
       PutTexts, PutBindings, PointAtTab, ChangeCredit, ArchiveSave, SwapSave,
       SyncCloud, RecordInstall, UndoCredit, UndoUri, UndoBindings, UndoTexts,
       UndoPalettes, PointBack, RestoreCredit, UndoSave, RestoreTexts,
       RestoreBindings, RemovePalettes, RecordUninstall, Crash

(* Phases holds from one step to the next.                                  *)
LEMMA PhasesNext ==
  ASSUME Firm, TypeInv, Phases, [Next]_vars
  PROVE  Phases'
<1> USE FirmSteps DEF lib, call, UndoWrite, Smooth, Rollback, Goto, Return, Phases,
        InstallPhase, UninstallPhase, Puts, Swaps, tab, before
<1>t. Sequenced BY DEF TypeInv
<1>g. troubles \subseteq troubles' BY TroublesGrow
<1>1. ASSUME NEW f \in Files, RenameAside(f) \/ WriteCopy(f) \/ UndoFile(f) PROVE Phases'
  BY <1>1, <1>t DEF RenameAside, WriteCopy, UndoFile, Sequenced, UninstallSteps
<1>2. ASSUME NEW f \in Files, RestoreFile(f) \/ PutBack(f) PROVE Phases'
  BY <1>2, <1>t, <1>g DEF RestoreFile, PutBack, Meets, Sequenced, InstallSteps
<1>3. CASE PutPalettes \/ PutTexts \/ PutBindings \/ PointAtTab \/ ChangeCredit
  BY <1>3 DEF PutPalettes, PutTexts, PutBindings, PointAtTab, ChangeCredit
<1>4. CASE ArchiveSave \/ SwapSave \/ SyncCloud
  BY <1>4, <1>t, <1>g
  DEF ArchiveSave, SwapSave, SyncCloud, SaveFails, Installing, Sequenced,
      InstallSteps, UninstallSteps
<1>5. CASE RecordInstall \/ RecordUninstall \/ UndoSave
  BY <1>5 DEF RecordInstall, RecordUninstall, UndoSave
<1>6. CASE UndoCredit \/ UndoBindings \/ UndoTexts \/ UndoPalettes
  BY <1>6, <1>t
  DEF UndoCredit, UndoBindings, UndoTexts, UndoPalettes, Sequenced, UninstallSteps
<1>7. CASE UndoUri
  BY <1>7, <1>t, <1>g
  DEF UndoUri, Installing, Sequenced
<1>8. CASE PointBack \/ RestoreCredit
  BY <1>8, <1>t, <1>g
  DEF PointBack, RestoreCredit, Meets, Sequenced, InstallSteps
<1>9. CASE RestoreTexts \/ RestoreBindings \/ RemovePalettes
  BY <1>9, <1>t, <1>g
  DEF RestoreTexts, RestoreBindings, RemovePalettes, Meets
<1>10. ASSUME NEW t \in Tabs, BeginInstall(t) PROVE Phases'
  <2>1. /\ tab' = t /\ (before.uri)' = Vanilla /\ task'.kind = "install"
        /\ pc' = "rename" /\ left' = {} /\ uri' = Vanilla
    BY <1>10 DEF BeginInstall, Disk
  <2> QED BY <2>1
<1>12. ASSUME NEW t \in Tabs, BeginUninstall(t) PROVE Phases'
  <2>1. /\ tab' = t /\ (before.uri)' = t /\ task'.kind = "uninstall"
        /\ pc' = "archive" /\ left' = {} /\ uri' = t
    BY <1>12 DEF BeginUninstall, MayUninstall, Disk
  <2> QED BY <2>1
<1>11. CASE Play \/ (\E t \in Tabs : Fetch(t) \/ Remove(t) \/ RefreshDigest(t))
            \/ UNCHANGED vars
  BY <1>11, <1>g DEF Play, Fetch, Remove, RefreshDigest, vars
<1>13. CASE Crash BY <1>13 DEF Crash
<1> QED
  BY <1>1, <1>2, <1>3, <1>4, <1>5, <1>6, <1>7, <1>8, <1>9, <1>10, <1>11, <1>12,
     <1>13
  DEF Next, Step

(***************************************************************************)
(* The level files.                                                         *)
(***************************************************************************)
(* An uninstall that may fail has backups to go back to.                    *)
Restorable == ~({"legacy", "restore"} \subseteq Troubles)

(* The files as `o` has them, with the originals it replaces set aside but  *)
(* for those an older installer wrote over.                                 *)
FilesOf(o, game, aside) ==
  \A f \in Files :
    IF o # Vanilla /\ f \in Shipped[o]
    THEN game[f] = o /\ (aside[f] = Vanilla \/ (aside[f] = NoFile /\ "legacy" \in troubles))
    ELSE game[f] = Vanilla /\ aside[f] = NoFile

IdleGame == pc = "idle" => FilesOf(uri, target, backup)

InstallGame ==
  pc # "idle" /\ task.kind = "install" =>
    /\ FilesOf(Vanilla, before.target, before.backup)
    /\ todo \cap done = {} /\ todo \cup done \subseteq Shipped[tab]
    /\ pc \in {"rename", "write"} => todo \cup done = Shipped[tab]
    /\ pc \in Puts \cup Swaps \cup {"undo credit", "undo uri"} => done = Shipped[tab]
    /\ \A f \in done : target[f] = tab /\ backup[f] = Vanilla
    /\ pc = "write" => \E g \in todo :
         /\ target[g] = NoFile /\ backup[g] = Vanilla
         /\ \A f \in Files \ (done \cup {g}) : target[f] = Vanilla /\ backup[f] = NoFile
    /\ pc # "write" => \A f \in Files \ done : target[f] = Vanilla /\ backup[f] = NoFile

UninstallGame ==
  pc # "idle" /\ task.kind = "uninstall" =>
    /\ FilesOf(tab, before.target, before.backup)
    /\ todo \cap done = {} /\ todo \cup done \subseteq Shipped[tab]
    /\ pc \in {"archive", "save", "cloud", "uri", "restore credit", "restore"} =>
         todo \cup done = Shipped[tab]
    /\ pc \in {"archive", "save", "cloud", "uri", "restore credit", "undo uri",
               "undo save"} => done = {}
    /\ pc \in {"texts", "bindings", "palettes", "record"} => done = Shipped[tab]
    /\ \A f \in done : target[f] = Vanilla /\ backup[f] = NoFile
    /\ \A f \in Files \ done : target[f] = before.target[f] /\ backup[f] = before.backup[f]

GameFiles == IdleGame /\ InstallGame /\ UninstallGame


(* An install that gives up takes back the files it has handled.            *)
LEMMA RollbackGame ==
  ASSUME TypeInv, GameFiles, Rollback, task.kind = "install", troubles \subseteq troubles',
         pc \in {"rename", "write", "palettes", "undo palettes"}, uri = Vanilla, UNCHANGED uri,
         \A f \in done : target'[f] = target[f] /\ backup'[f] = backup[f],
         \A f \in Files \ done : target'[f] = Vanilla /\ backup'[f] = NoFile
  PROVE  GameFiles'
<1>1. CASE done = {} /\ Return
  BY <1>1 DEF Return, GameFiles, IdleGame, InstallGame, UninstallGame, FilesOf
<1>2. CASE Goto("undo files")
  BY <1>2
  DEF Goto, call, tab, before, GameFiles, IdleGame, InstallGame, UninstallGame, FilesOf,
      Puts, Swaps
<1> QED BY <1>1, <1>2 DEF Rollback

(* Most steps leave the levels and the library's URI alone.                 *)
LEMMA QuietGame ==
  ASSUME GameFiles, InstallMove \/ UninstallMove, troubles \subseteq troubles',
         UNCHANGED <<target, backup, task, todo, done>>
  PROVE  GameFiles'
BY DEF InstallMove, UninstallMove, tab, before, GameFiles, IdleGame, InstallGame,
       UninstallGame, FilesOf, Puts, Swaps

(* The game's files are where the call has got to, at every step.           *)
LEMMA FilesNext ==
  ASSUME Gentle, Restorable, TypeInv, TypeInv', Phases, StoreSteady, GameFiles,
         [Next]_vars
  PROVE  GameFiles'
<1> USE GentleSteps DEF levels, lib, call, UndoWrite, Smooth, tab, before
<1>t. /\ Sequenced /\ Vanilla \notin Tabs /\ NoFile \notin Owners
      /\ target \in [Files -> Contents] /\ backup \in [Files -> Contents]
      /\ todo \subseteq Files /\ done \subseteq Files /\ Shipped \in [Tabs -> SUBSET Files]
      /\ task.kind # "none" => tab \in Owners
  BY TabsAssumption, NoFileAssumption, ShippedAssumption, PlanTypes DEF TypeInv, TypeOK, DiskOK, CallOK
<1>g. troubles \subseteq troubles' /\ troubles' \subseteq Troubles
  BY TroublesGrow DEF TypeInv, TypeOK, HistoryOK
<1>1. ASSUME NEW f \in Files, RenameAside(f) PROVE GameFiles'
  <2>1. /\ task.kind = "install" /\ pc = "rename" /\ f \in todo \ done /\ uri = Vanilla
        /\ target[f] = Vanilla /\ backup[f] = NoFile /\ UNCHANGED <<uri, troubles>>
        /\ \A g \in Files \ done : target[g] = Vanilla /\ backup[g] = NoFile
    BY <1>1, <1>t
    DEF RenameAside, Sequenced, UninstallSteps, GameFiles, InstallGame, Phases,
        InstallPhase, Swaps
  <2>a. CASE UNCHANGED levels /\ Rollback
    BY <2>1, <2>a, <1>g, RollbackGame
  <2>b. CASE /\ backup' = [backup EXCEPT ![f] = target[f]]
             /\ target' = [target EXCEPT ![f] = NoFile]
             /\ Goto("write")
    <3>1. /\ target'[f] = NoFile /\ backup'[f] = Vanilla
          /\ \A g \in Files \ {f} : target'[g] = target[g] /\ backup'[g] = backup[g]
      BY <1>t, <2>b, <2>1
    <3>2. pc' = "write" /\ UNCHANGED <<task, todo, done>> BY <2>b DEF Goto
    <3>3. /\ target'[f] = NoFile /\ backup'[f] = Vanilla
          /\ \A g \in Files \ (done \cup {f}) : target'[g] = Vanilla /\ backup'[g] = NoFile
          /\ \A g \in done : target'[g] = target[g] /\ backup'[g] = backup[g]
      BY <3>1, <2>1, <1>t
    <3>4. InstallGame'
      BY <3>2, <3>3, <2>1, <1>t DEF GameFiles, InstallGame, FilesOf, Puts, Swaps
    <3> QED BY <3>2, <3>4, <2>1 DEF GameFiles, IdleGame, UninstallGame
  <2> QED BY <1>1, <2>a, <2>b DEF RenameAside
<1>2. ASSUME NEW f \in Files, WriteCopy(f) PROVE GameFiles'
  <2>1. /\ task.kind = "install" /\ pc = "write" /\ f \in todo \ done /\ uri = Vanilla
        /\ target[f] = NoFile /\ backup[f] = Vanilla /\ UNCHANGED <<uri, troubles>>
        /\ \A g \in Files \ (done \cup {f}) : target[g] = Vanilla /\ backup[g] = NoFile
    BY <1>2, <1>t
    DEF WriteCopy, Sequenced, UninstallSteps, GameFiles, InstallGame, Phases,
        InstallPhase, Swaps, Owners
  <2>a. CASE /\ Rollback
             /\ target' = [target EXCEPT ![f] = backup[f]]
             /\ backup' = [backup EXCEPT ![f] = NoFile]
    <3>1. /\ target'[f] = Vanilla /\ backup'[f] = NoFile
          /\ \A g \in Files \ {f} : target'[g] = target[g] /\ backup'[g] = backup[g]
      BY <1>t, <2>a, <2>1
    <3>2. /\ \A g \in done : target'[g] = target[g] /\ backup'[g] = backup[g]
          /\ \A g \in Files \ done : target'[g] = Vanilla /\ backup'[g] = NoFile
      BY <3>1, <2>1, <1>t
    <3> QED BY <2>1, <2>a, <3>2, <1>g, RollbackGame
  <2>b. CASE /\ target' = [target EXCEPT ![f] = tab]
             /\ todo' = todo \ {f} /\ done' = done \cup {f}
             /\ pc' = IF todo = {f} THEN "palettes" ELSE "rename"
             /\ UNCHANGED <<backup, task, left>>
    <3>1. /\ target'[f] = tab /\ \A g \in Files \ {f} : target'[g] = target[g]
      BY <1>t, <2>b
    <3>2. InstallGame'
      BY <3>1, <2>b, <2>1, <1>t DEF GameFiles, InstallGame, FilesOf, Puts, Swaps
    <3> QED BY <3>2, <2>b, <2>1 DEF GameFiles, IdleGame, UninstallGame
  <2> QED BY <1>2, <2>a, <2>b DEF WriteCopy
<1>3. ASSUME NEW f \in Files, UndoFile(f) PROVE GameFiles'
  <2>1. /\ task.kind = "install" /\ pc = "undo files" /\ f \in done /\ UNCHANGED <<uri, troubles>>
        /\ uri = Vanilla /\ backup[f] = Vanilla
        /\ target' = [target EXCEPT ![f] = backup[f]]
        /\ backup' = [backup EXCEPT ![f] = NoFile]
        /\ \A g \in Files \ done : target[g] = Vanilla /\ backup[g] = NoFile
    BY <1>3, <1>t
    DEF UndoFile, Sequenced, UninstallSteps, GameFiles, InstallGame, Phases,
        InstallPhase, Swaps
  <2>2. /\ target'[f] = Vanilla /\ backup'[f] = NoFile
        /\ \A g \in Files \ {f} : target'[g] = target[g] /\ backup'[g] = backup[g]
    BY <1>t, <2>1
  <2>a. CASE done = {f} /\ Return
    <3>1. \A g \in Files : target'[g] = Vanilla /\ backup'[g] = NoFile
      BY <2>a, <2>1, <2>2
    <3>2. IdleGame' BY <2>1, <3>1 DEF IdleGame, FilesOf
    <3> QED BY <2>a, <3>2 DEF Return, GameFiles, InstallGame, UninstallGame
  <2>b. CASE done' = done \ {f} /\ UNCHANGED <<pc, task, todo, left>>
    <3>1. InstallGame'
      BY <2>b, <2>1, <2>2, <1>t DEF GameFiles, InstallGame, FilesOf, Puts, Swaps
    <3> QED BY <3>1, <2>b, <2>1 DEF GameFiles, IdleGame, UninstallGame
  <2> QED BY <1>3, <2>a, <2>b DEF UndoFile
<1>4. ASSUME NEW f \in Files, RestoreFile(f) PROVE GameFiles'
  <2>1. /\ task.kind = "uninstall" /\ pc = "restore" /\ f \in todo \ done
        /\ UNCHANGED <<uri, task>> /\ uri = Vanilla /\ tab \in Tabs /\ f \in Shipped[tab]
        /\ backup[f] = before.backup[f] /\ target[f] = before.target[f]
        /\ backup[f] = Vanilla \/ (backup[f] = NoFile /\ "legacy" \in troubles)
    BY <1>4, <1>t
    DEF RestoreFile, Sequenced, InstallSteps, GameFiles, UninstallGame, Phases,
        UninstallPhase, FilesOf, Goto, call
  <2>a. CASE /\ target'[f] = Vanilla /\ backup'[f] = NoFile
             /\ \A g \in Files \ {f} : target'[g] = target[g] /\ backup'[g] = backup[g]
             /\ todo' = todo \ {f} /\ done' = done \cup {f}
             /\ pc' = IF todo = {f} THEN "texts" ELSE "restore"
    <3>1. UninstallGame'
      BY <2>a, <2>1, <1>t, <1>g DEF GameFiles, UninstallGame, FilesOf
    <3> QED BY <3>1, <2>a, <2>1 DEF GameFiles, IdleGame, InstallGame
  <2>b. CASE UNCHANGED levels /\ Goto(IF done = {} THEN "undo uri" ELSE "put back")
    <3>1. UninstallGame'
      BY <2>b, <2>1, <1>g DEF Goto, GameFiles, UninstallGame, FilesOf
    <3> QED BY <3>1, <2>b, <2>1 DEF Goto, GameFiles, IdleGame, InstallGame
  <2>c. ASSUME Meets("restore") PROVE HadBackup(f)
    BY <2>c, <2>1, <1>t, <1>g DEF Meets, Restorable, HadBackup, Owners
  <2>d. CASE /\ IF HadBackup(f)
                THEN /\ target' = [target EXCEPT ![f] = backup[f]]
                     /\ backup' = [backup EXCEPT ![f] = NoFile]
                ELSE /\ target' = [target EXCEPT ![f] = Vanilla]
                     /\ UNCHANGED backup
             /\ todo' = todo \ {f} /\ done' = done \cup {f}
             /\ pc' = IF todo = {f} THEN "texts" ELSE "restore"
    <3>1. /\ target'[f] = Vanilla /\ backup'[f] = NoFile
          /\ \A g \in Files \ {f} : target'[g] = target[g] /\ backup'[g] = backup[g]
      BY <2>d, <2>1, <1>t DEF HadBackup, Owners
    <3> QED BY <3>1, <2>a, <2>d
  <2> QED BY <1>4, <2>b, <2>c, <2>d DEF RestoreFile
<1>5. ASSUME NEW f \in Files, PutBack(f) PROVE GameFiles'
  <2>i. task.kind = "uninstall" /\ pc = "put back" /\ f \in done
    BY <1>5, <1>t DEF PutBack, Sequenced, InstallSteps
  <2>j. /\ tab \in Tabs /\ f \in Shipped[tab] /\ "legacy" \notin troubles
        /\ target[f] = Vanilla /\ FilesOf(tab, before.target, before.backup)
    BY <2>i, <1>g DEF GameFiles, UninstallGame, Phases, UninstallPhase, Restorable
  <2>k. before.backup[f] = Vanilla BY <2>j, <1>t DEF FilesOf
  <2>l. HadBackup(f) BY <2>k, <1>t DEF HadBackup, Owners
  <2>1. /\ UNCHANGED <<uri, task, todo, troubles>>
        /\ backup' = [backup EXCEPT ![f] = target[f]]
        /\ target' = [target EXCEPT ![f] = before.target[f]]
        /\ done' = done \ {f} /\ pc' = IF done = {f} THEN "undo uri" ELSE "put back"
    BY <1>5, <2>l DEF PutBack, SetAside, Rewrite
  <2>2. /\ target'[f] = before.target[f] /\ backup'[f] = before.backup[f]
        /\ \A g \in Files \ {f} : target'[g] = target[g] /\ backup'[g] = backup[g]
    BY <2>1, <2>j, <2>k, <1>t
  <2>3. UninstallGame'
    BY <2>i, <2>1, <2>2, <1>t DEF GameFiles, UninstallGame, FilesOf
  <2> QED BY <2>3, <2>i, <2>1 DEF GameFiles, IdleGame, InstallGame
<1>6. CASE PutPalettes \/ UndoPalettes
  <2>1. /\ UNCHANGED <<target, backup, uri>> /\ task.kind = "install"
        /\ pc \in {"palettes", "undo palettes"} /\ uri = Vanilla
        /\ \A f \in Files \ done : target[f] = Vanilla /\ backup[f] = NoFile
    BY <1>6, <1>t
    DEF PutPalettes, UndoPalettes, Sequenced, UninstallSteps, Phases, InstallPhase,
        Swaps, GameFiles, InstallGame
  <2>a. CASE Rollback BY <2>1, <2>a, <1>g, RollbackGame
  <2>b. CASE ~Rollback
    <3>1. InstallMove /\ UNCHANGED <<task, todo, done>>
      BY <1>6, <2>1, <2>b DEF PutPalettes, UndoPalettes, Goto, InstallMove, Puts
    <3> QED BY <2>1, <3>1, <1>g, QuietGame
  <2> QED BY <2>a, <2>b
<1>7. CASE PointAtTab
  BY <1>7 DEF PointAtTab, Goto, GameFiles, IdleGame, InstallGame, UninstallGame,
              FilesOf, Puts, Swaps
<1>8. CASE UndoUri \/ PointBack
  <2>1. UNCHANGED <<target, backup, task, todo, done>>
    BY <1>8 DEF UndoUri, PointBack, Goto
  <2>2. \/ task.kind = "install" /\ pc = "undo uri" /\ pc' = "undo bindings"
        \/ task.kind = "uninstall" /\ pc = "undo uri" /\ pc' = "undo save"
        \/ task.kind = "uninstall" /\ pc = "uri" /\ pc' \in {"restore credit", "undo save"}
    BY <1>8, <1>t DEF UndoUri, PointBack, Goto, Installing, Sequenced
  <2>3. InstallGame'
    BY <2>1, <2>2, <1>g DEF GameFiles, InstallGame, FilesOf, Puts, Swaps
  <2>4. UninstallGame' BY <2>1, <2>2, <1>g DEF GameFiles, UninstallGame, FilesOf
  <2> QED BY <2>2, <2>3, <2>4 DEF GameFiles, IdleGame
<1>9. CASE RecordInstall \/ RecordUninstall \/ UndoSave
  BY <1>9, <1>t, <1>g
  DEF RecordInstall, RecordUninstall, UndoSave, Return, Installing, Phases, InstallPhase,
      UninstallPhase, Sequenced, InstallSteps, GameFiles, IdleGame, InstallGame,
      UninstallGame, FilesOf, Puts, Swaps
<1>10. CASE ArchiveSave \/ SwapSave
  <2>1. UNCHANGED <<target, backup, uri>> BY <1>10 DEF ArchiveSave, SwapSave
  <2>a. CASE task.kind = "uninstall" /\ Return
    BY <1>10, <2>1, <2>a, <1>t, <1>g
    DEF ArchiveSave, SwapSave, Return, Phases, UninstallPhase, GameFiles, IdleGame,
        InstallGame, UninstallGame, FilesOf
  <2>b. CASE ~(task.kind = "uninstall" /\ Return)
    <3>1. (InstallMove \/ UninstallMove) /\ UNCHANGED <<task, todo, done>>
      BY <1>10, <1>t, <2>b
      DEF ArchiveSave, SwapSave, SaveFails, Installing, Goto, Sequenced, InstallMove,
          UninstallMove, Puts, Swaps, InstallSteps, UninstallSteps
    <3> QED BY <2>1, <3>1, <1>g, QuietGame
  <2> QED BY <2>a, <2>b
<1>12. CASE \/ PutTexts \/ PutBindings \/ ChangeCredit \/ SyncCloud \/ UndoCredit
            \/ UndoBindings \/ UndoTexts \/ RestoreCredit \/ RestoreTexts
            \/ RestoreBindings \/ RemovePalettes
  <2>1. UNCHANGED <<target, backup, task, todo, done>>
    BY <1>12
    DEF PutTexts, PutBindings, ChangeCredit, SyncCloud, UndoCredit, UndoBindings,
        UndoTexts, RestoreCredit, RestoreTexts, RestoreBindings, RemovePalettes, Goto
  <2>2. InstallMove \/ UninstallMove
    BY <1>12, <1>t
    DEF PutTexts, PutBindings, ChangeCredit, SyncCloud, UndoCredit, UndoBindings,
        UndoTexts, RestoreCredit, RestoreTexts, RestoreBindings, RemovePalettes, Goto,
        Installing, Sequenced, InstallMove, UninstallMove, Puts, Swaps, InstallSteps,
        UninstallSteps
  <2> QED BY <2>1, <2>2, <1>g, QuietGame
<1>13. ASSUME NEW t \in Tabs, BeginInstall(t) PROVE GameFiles'
  <2>1. /\ pc' = "rename" /\ tab' = t /\ task'.kind = "install"
        /\ (before.target)' = target /\ (before.backup)' = backup
        /\ todo' = Shipped[t] /\ done' = {} /\ pc = "idle" /\ uri = Vanilla
        /\ UNCHANGED <<target, backup, troubles>>
    BY <1>13 DEF BeginInstall, StoreSteady, Disk
  <2>2. FilesOf(Vanilla, target, backup) BY <2>1 DEF GameFiles, IdleGame
  <2>3. InstallGame' BY <2>1, <2>2 DEF InstallGame, FilesOf, Puts, Swaps
  <2> QED BY <2>1, <2>3 DEF GameFiles, IdleGame, UninstallGame
<1>14. ASSUME NEW t \in Tabs, BeginUninstall(t) PROVE GameFiles'
  <2>1. /\ pc' = "archive" /\ tab' = t /\ task'.kind = "uninstall"
        /\ (before.target)' = target /\ (before.backup)' = backup
        /\ todo' = Shipped[t] /\ done' = {} /\ pc = "idle" /\ uri = t
        /\ UNCHANGED <<target, backup, troubles>>
    BY <1>14 DEF BeginUninstall, MayUninstall, StoreSteady, Disk
  <2>2. FilesOf(t, target, backup) BY <2>1 DEF GameFiles, IdleGame
  <2>3. UninstallGame' BY <2>1, <2>2 DEF UninstallGame, FilesOf
  <2> QED BY <2>1, <2>3 DEF GameFiles, IdleGame, InstallGame
<1>16. CASE Play \/ (\E t \in Tabs : Fetch(t) \/ Remove(t) \/ RefreshDigest(t))
            \/ UNCHANGED vars
  <2>1. UNCHANGED <<target, backup, uri, pc, task, todo, done>>
    BY <1>16 DEF Play, Fetch, Remove, RefreshDigest, vars
  <2> QED BY <2>1, <1>g DEF GameFiles, IdleGame, InstallGame, UninstallGame, FilesOf
<1> QED
  BY <1>1, <1>2, <1>3, <1>4, <1>5, <1>6, <1>7, <1>8, <1>9, <1>10, <1>12,
     <1>13, <1>14, <1>16
  DEF Next, Step

(***************************************************************************)
(* The savefile.                                                            *)
(***************************************************************************)
(* The archives once the save in place has been filed under its owner.      *)
Filing == [before.archive EXCEPT ![before.uri] = before.live]

SwappedIn == IF task.kind = "install" THEN pc \in {"cloud", "record"}
             ELSE pc \notin {"archive", "save"}

SavesMoved ==
  pc # "idle" =>
    /\ archive \in {before.archive, Filing}
    /\ (IF task.kind = "install" THEN pc \in {"save", "cloud", "record"}
        ELSE pc # "archive") => archive = Filing
    /\ live = IF SwappedIn THEN Incoming ELSE before.live

(* A crash is the end of the call.                                          *)
LEMMA CrashEnds == Crash => pc' = "idle"
BY DEF Crash, Return

(* The save and its archives are where the call has got to, at every step.  *)
LEMMA SavesMovedNext ==
  ASSUME Firm, TypeInv, TypeInv', Phases, SavesMoved, [Next]_vars
  PROVE  SavesMoved'
<1> USE FirmSteps
    DEF saves, call, UndoWrite, Smooth, tab, before, SavesMoved, SwappedIn, Filing,
        Incoming, TakenAs, Installing
<1>t. Sequenced /\ archive \in [Owners -> {NoFile} \cup Saves]
  BY DEF TypeInv, TypeOK, DiskOK
<1>p. /\ pc # "idle" /\ task.kind = "install" => before.uri = Vanilla
      /\ pc # "idle" /\ task.kind # "install" => before.uri = tab
  BY <1>t DEF Phases, InstallPhase, UninstallPhase, Sequenced
<1>1. ASSUME NEW f \in Files, RenameAside(f) \/ WriteCopy(f) \/ UndoFile(f)
      PROVE  SavesMoved'
  BY <1>1, <1>t DEF RenameAside, WriteCopy, UndoFile, Rollback, Goto, Return, Sequenced,
                    UninstallSteps
<1>2. ASSUME NEW f \in Files, RestoreFile(f) \/ PutBack(f) PROVE SavesMoved'
  BY <1>2, <1>t DEF RestoreFile, PutBack, Goto, Sequenced, InstallSteps
<1>3. CASE \/ PutPalettes \/ PutTexts \/ PutBindings \/ PointAtTab \/ ChangeCredit
           \/ RestoreTexts \/ RestoreBindings \/ RemovePalettes
  BY <1>3 DEF PutPalettes, PutTexts, PutBindings, PointAtTab, ChangeCredit, RestoreTexts,
              RestoreBindings, RemovePalettes, Rollback, Goto, Return
<1>4. CASE \/ UndoCredit \/ UndoUri \/ UndoBindings \/ UndoTexts \/ UndoPalettes
           \/ PointBack \/ RestoreCredit
  BY <1>4, <1>t DEF UndoCredit, UndoUri, UndoBindings, UndoTexts, UndoPalettes, PointBack,
              RestoreCredit, Rollback, Goto, Return, Sequenced, InstallSteps,
              UninstallSteps
<1>5. CASE pc' = "idle" BY <1>5
<1>6. CASE ArchiveSave /\ pc' # "idle"
  <2>1. task' = task /\ pc = "archive"
        /\ \/ archive' = [archive EXCEPT ![before.uri] = live] /\ pc' = "save"
           \/ archive' = archive /\ task.kind = "install" /\ pc' = "undo credit"
    BY <1>6, <1>p DEF ArchiveSave, Goto, SaveFails, Return, FiledAs
  <2>2. live = before.live /\ archive \in {before.archive, Filing} /\ UNCHANGED live
    BY <1>6, <2>1 DEF ArchiveSave
  <2>3. [Filing EXCEPT ![before.uri] = before.live] = Filing
    BY PlanTypes DEF TypeInv
  <2> QED BY <2>1, <2>2, <2>3
<1>7. CASE SwapSave /\ pc' # "idle"
  BY <1>7 DEF SwapSave, Goto, SaveFails, Return
<1>8. CASE SyncCloud BY <1>8, <1>t DEF SyncCloud, Goto, Sequenced
<1>9. CASE RecordInstall \/ RecordUninstall \/ UndoSave
  BY <1>9 DEF RecordInstall, RecordUninstall, UndoSave, Return
<1>10. ASSUME NEW t \in Tabs, BeginInstall(t) \/ BeginUninstall(t) PROVE SavesMoved'
  <2>1. /\ (before.live)' = live /\ (before.archive)' = archive /\ UNCHANGED <<live, archive>>
        /\ \/ task'.kind = "install" /\ pc' = "rename"
           \/ task'.kind = "uninstall" /\ pc' = "archive"
    BY <1>10 DEF BeginInstall, BeginUninstall, MayUninstall, Disk
  <2> QED BY <2>1
<1>11. CASE Play \/ (\E t \in Tabs : Fetch(t) \/ Remove(t) \/ RefreshDigest(t))
            \/ UNCHANGED vars
  <2>1. pc' = "idle" \/ UNCHANGED <<live, archive, pc, task>>
    BY <1>11 DEF Play, Fetch, Remove, RefreshDigest, vars
  <2> QED BY <2>1
<1> QED
  BY <1>1, <1>2, <1>3, <1>4, <1>5, <1>6, <1>7, <1>8, <1>9, <1>10, <1>11, CrashEnds
  DEF Next, Step

(* Neither is Steam's copy left behind, nor does an uninstall fail once it  *)
(* has been replaced.                                                       *)
Followed == Gentle /\ Troubles \cap {"cloud", "restore"} = {}

Synced == IF task.kind = "install" THEN pc = "record"
          ELSE pc \notin {"archive", "save", "cloud"}

CloudFollows ==
  cloud \in {NoFile, IF pc = "idle" \/ Synced THEN live ELSE before.live}

(* Steam's copy is what the call has made of it, at every step.             *)
LEMMA CloudNext ==
  ASSUME Followed, TypeInv, TypeInv', Phases, SavesMoved, CloudFollows, [Next]_vars
  PROVE  CloudFollows'
<1> USE GentleSteps
    DEF saves, call, UndoWrite, Smooth, before, Followed, CloudFollows, Synced
<1>t. Sequenced BY DEF TypeInv
<1>m. /\ ~Meets("cloud") /\ ~Meets("restore")
      /\ pc # "idle" /\ task.kind = "uninstall" => ~(pc \in {"put back", "undo uri", "undo save"})
  BY DEF Meets, Phases, UninstallPhase, TypeInv, TypeOK, HistoryOK
<1>s. pc # "idle" => live = IF SwappedIn THEN Incoming ELSE before.live
  BY DEF SavesMoved
<1>1. ASSUME NEW f \in Files, RenameAside(f) \/ WriteCopy(f) \/ UndoFile(f)
      PROVE  CloudFollows'
  BY <1>1, <1>t, <1>s
  DEF RenameAside, WriteCopy, UndoFile, Rollback, Goto, Return, Sequenced,
      UninstallSteps, SwappedIn
<1>2. ASSUME NEW f \in Files, RestoreFile(f) \/ PutBack(f) PROVE CloudFollows'
  BY <1>2, <1>t, <1>m DEF RestoreFile, PutBack, Goto, Sequenced, InstallSteps
<1>3. CASE \/ PutPalettes \/ PutTexts \/ PutBindings \/ PointAtTab \/ ChangeCredit
           \/ RestoreTexts \/ RestoreBindings \/ RemovePalettes
  BY <1>3, <1>s
  DEF PutPalettes, PutTexts, PutBindings, PointAtTab, ChangeCredit, RestoreTexts,
      RestoreBindings, RemovePalettes, Rollback, Goto, Return, SwappedIn
<1>4. CASE \/ UndoCredit \/ UndoUri \/ UndoBindings \/ UndoTexts \/ UndoPalettes
           \/ PointBack \/ RestoreCredit
  BY <1>4, <1>t, <1>m, <1>s
  DEF UndoCredit, UndoUri, UndoBindings, UndoTexts, UndoPalettes, PointBack,
      RestoreCredit, Rollback, Goto, Return, Sequenced, InstallSteps, UninstallSteps,
      SwappedIn
<1>5. CASE ArchiveSave \/ SwapSave
  BY <1>5, <1>t, <1>s
  DEF ArchiveSave, SwapSave, SaveFails, Installing, Goto, Return, Sequenced, SwappedIn
<1>6. CASE SyncCloud
  BY <1>6, <1>t, <1>m DEF SyncCloud, Goto, Installing, Sequenced
<1>7. CASE RecordInstall \/ RecordUninstall \/ UndoSave
  BY <1>7, <1>t, <1>m
  DEF RecordInstall, RecordUninstall, UndoSave, Return, Installing, Sequenced,
      InstallSteps
<1>8. ASSUME NEW t \in Tabs, BeginInstall(t) \/ BeginUninstall(t) PROVE CloudFollows'
  <2>1. /\ pc = "idle" /\ (before.live)' = live /\ UNCHANGED <<live, cloud>>
        /\ pc' \in {"rename", "archive"}
    BY <1>8 DEF BeginInstall, BeginUninstall, MayUninstall, Disk
  <2> QED BY <2>1
<1>9. CASE Play
  BY <1>9 DEF Play
<1>10. CASE (\E t \in Tabs : Fetch(t) \/ Remove(t) \/ RefreshDigest(t))
            \/ UNCHANGED vars
  BY <1>10 DEF Fetch, Remove, RefreshDigest, vars
<1> QED
  BY <1>1, <1>2, <1>3, <1>4, <1>5, <1>6, <1>7, <1>8, <1>9, <1>10
  DEF Next, Step

(***************************************************************************)
(* The extras: the texts, the bindings, the palettes and the credit.        *)
(***************************************************************************)
(* The steps of an install at which its palettes, texts and bindings are in *)
(* place, for being still to come or still to be undone.                    *)
AfterBindings == {"uri", "undo uri", "undo credit", "undo bindings"} \cup Swaps
AfterTexts    == AfterBindings \cup {"bindings", "undo texts"}
AfterPalettes == AfterTexts \cup {"texts", "undo palettes"}

InstallExtras ==
  pc # "idle" /\ task.kind = "install" =>
    /\ palettes = IF pc \in AfterPalettes /\ "palettes" \in task.put
                  THEN before.palettes \cup {tab} ELSE before.palettes
    /\ \A l \in Langs : texts[l] = IF pc \in AfterTexts /\ l \in task.langs
                                   THEN tab ELSE before.texts[l]
    /\ keys = IF pc \in AfterBindings /\ "bindings" \in task.put
              THEN tab ELSE before.keys
    /\ credit # before.credit => pc \in (Swaps \ {"credit"}) \cup {"undo credit"}
    /\ task.langs \subseteq Langs /\ task.put \subseteq Bundles[tab]

UninstallExtras ==
  pc # "idle" /\ task.kind = "uninstall" =>
    /\ \A l \in Langs : texts[l] =
         IF pc \in {"bindings", "palettes", "record"} /\ "texts" \notin left
         THEN IF textrec[l] # NoRecord THEN textrec[l]
              ELSE IF l = "english" THEN Vanilla ELSE before.texts[l]
         ELSE before.texts[l]
    /\ keys = IF /\ pc \in {"palettes", "record"} /\ "bindings" \notin left
                 /\ keyrec # NoRecord
              THEN keyrec ELSE before.keys
    /\ palettes = IF pc = "record" /\ "palettes" \notin left
                  THEN before.palettes \ ToRemove ELSE before.palettes
    /\ pc \in {"archive", "save", "cloud", "uri"} => credit = before.credit
    /\ "texts" \in left => pc \in {"bindings", "palettes", "record"}
    /\ "bindings" \in left => pc \in {"palettes", "record"}
    /\ "palettes" \in left => pc = "record"

ExtrasMoved == InstallExtras /\ UninstallExtras

(* So are the palettes, the texts and the bindings.                         *)
LEMMA ExtrasNext ==
  ASSUME Gentle, TypeInv, TypeInv', Phases, ExtrasMoved, [Next]_vars
  PROVE  ExtrasMoved'
<1> USE GentleSteps
    DEF lib, extras, state, call, UndoWrite, Smooth, tab, before, ExtrasMoved
<1>t. Sequenced /\ texts \in [Langs -> Owners] /\ before.texts \in [Langs -> Owners]
  BY PlanTypes DEF TypeInv, TypeOK, DiskOK
<1>1. CASE pc' = "idle" BY <1>1 DEF InstallExtras, UninstallExtras
<1>2. ASSUME NEW f \in Files, RenameAside(f) \/ WriteCopy(f) \/ UndoFile(f), pc' # "idle"
      PROVE  ExtrasMoved'
  BY <1>2, <1>t
  DEF RenameAside, WriteCopy, UndoFile, Rollback, Goto, Return, Sequenced,
      UninstallSteps, InstallExtras, UninstallExtras, AfterPalettes, AfterTexts,
      AfterBindings, Swaps
<1>3. ASSUME NEW f \in Files, RestoreFile(f) \/ PutBack(f) PROVE ExtrasMoved'
  BY <1>3, <1>t
  DEF RestoreFile, PutBack, Goto, Sequenced, InstallSteps, InstallExtras,
      UninstallExtras, ToRemove
<1>4. CASE (PutPalettes \/ PutTexts \/ PutBindings) /\ pc' # "idle"
  BY <1>4, <1>t
  DEF PutPalettes, PutTexts, PutBindings, Rollback, Goto, Return, InstallExtras,
      UninstallExtras, AfterPalettes, AfterTexts, AfterBindings, Swaps
<1>5. CASE PointAtTab \/ ChangeCredit \/ SyncCloud
  BY <1>5, <1>t
  DEF PointAtTab, ChangeCredit, SyncCloud, Installing, Goto, InstallExtras,
      UninstallExtras, AfterPalettes, AfterTexts, AfterBindings, Swaps, ToRemove
<1>6. CASE (ArchiveSave \/ SwapSave) /\ pc' # "idle"
  BY <1>6, <1>t
  DEF ArchiveSave, SwapSave, SaveFails, Installing, Goto, Return, InstallExtras,
      UninstallExtras, AfterPalettes, AfterTexts, AfterBindings, Swaps, ToRemove
<1>7. CASE (UndoBindings \/ UndoTexts \/ UndoPalettes) /\ pc' # "idle"
  BY <1>7, <1>t
  DEF UndoBindings, UndoTexts, UndoPalettes, Rollback, Goto, Return, Sequenced,
      UninstallSteps, InstallExtras, UninstallExtras, AfterPalettes, AfterTexts,
      AfterBindings, Swaps
<1>8. CASE UndoCredit \/ UndoUri \/ PointBack \/ RestoreCredit
  BY <1>8, <1>t
  DEF UndoCredit, UndoUri, PointBack, RestoreCredit, Installing, Goto, Sequenced,
      InstallSteps, UninstallSteps, InstallExtras, UninstallExtras, AfterPalettes,
      AfterTexts, AfterBindings, Swaps, ToRemove
<1>9. CASE RestoreTexts \/ RestoreBindings \/ RemovePalettes
  <2>1. task.kind = "uninstall" /\ UNCHANGED <<task, textrec, keyrec, palrec>>
    BY <1>9 DEF RestoreTexts, RestoreBindings, RemovePalettes
  <2>a. CASE RestoreTexts
    BY <2>a, <2>1, <1>t
    DEF RestoreTexts, Restored, InstallExtras, UninstallExtras, ToRemove
  <2>b. CASE RestoreBindings
    BY <2>b, <2>1 DEF RestoreBindings, InstallExtras, UninstallExtras, ToRemove
  <2>c. CASE RemovePalettes
    BY <2>c, <2>1 DEF RemovePalettes, InstallExtras, UninstallExtras, ToRemove
  <2> QED BY <1>9, <2>a, <2>b, <2>c
<1>10. CASE RecordInstall \/ RecordUninstall \/ UndoSave
  BY <1>1, <1>10 DEF RecordInstall, RecordUninstall, UndoSave, Return
<1>11. ASSUME NEW t \in Tabs, BeginInstall(t) PROVE ExtrasMoved'
  <2>1. /\ pc' = "rename" /\ task'.kind = "install" /\ tab' = t
        /\ (before.texts)' = texts /\ (before.keys)' = keys
        /\ (before.palettes)' = palettes /\ (before.credit)' = credit
        /\ task'.langs \subseteq Langs /\ task'.put \subseteq Bundles[t]
        /\ UNCHANGED <<credit, texts, keys, palettes>>
    BY <1>11 DEF BeginInstall, Disk
  <2> QED BY <2>1
      DEF InstallExtras, UninstallExtras, AfterPalettes, AfterTexts,
          AfterBindings, Swaps
<1>12. ASSUME NEW t \in Tabs, BeginUninstall(t) PROVE ExtrasMoved'
  <2>1. /\ pc' = "archive" /\ task'.kind = "uninstall" /\ left' = {}
        /\ (before.texts)' = texts /\ (before.keys)' = keys
        /\ (before.palettes)' = palettes /\ (before.credit)' = credit
        /\ UNCHANGED <<credit, texts, keys, palettes>>
    BY <1>12 DEF BeginUninstall, MayUninstall, Disk
  <2> QED BY <2>1 DEF InstallExtras, UninstallExtras
<1>13. CASE Play \/ (\E t \in Tabs : Fetch(t) \/ Remove(t) \/ RefreshDigest(t))
            \/ UNCHANGED vars
  BY <1>13
  DEF Play, Fetch, Remove, RefreshDigest, vars, InstallExtras, UninstallExtras,
      ToRemove
<1> QED
  BY <1>1, <1>2, <1>3, <1>4, <1>5, <1>6, <1>7, <1>8, <1>9, <1>10, <1>11, <1>12, <1>13
  DEF Next, Step

(* The texts are the plan's when each of them is.                           *)
LEMMA SameTexts ==
  ASSUME TypeOK, \A l \in Langs : texts[l] = before.texts[l]
  PROVE  texts = before.texts
<1>1. texts \in [Langs -> Owners] /\ before.texts \in [Langs -> Owners]
  BY PlanTypes DEF TypeOK, DiskOK
<1>2. \A S, T : \A f, g \in [S -> T] : (\A x \in S : f[x] = g[x]) => f = g
  OBVIOUS
<1> HIDE DEF before
<1> QED BY <1>1, <1>2

(* A call ends by recording what it did, or with everything as it was: the  *)
(* game, its extras and its save. Only the credit may have been changed by  *)
(* an uninstall that got as far as that.                                    *)
GaveUp ==
  /\ pc # "record" /\ UNCHANGED <<state, cloud>>
  /\ uri' = before.uri /\ texts' = before.texts /\ keys' = before.keys
  /\ palettes' = before.palettes /\ live' = before.live
  /\ archive' \in {before.archive, Filing}
  /\ credit' = before.credit \/ pc = "undo save"
  /\ task.kind = "uninstall" =>
       pc \in {"archive", "save", "undo save"} /\ UNCHANGED <<target, backup>>

(* A call that ends has given up, with everything as it was, or has         *)
(* recorded what it did.                                                    *)
LEMMA CallEnds ==
  ASSUME Gentle, TypeInv, TypeInv', Phases, SavesMoved, ExtrasMoved, [Next]_vars,
         pc # "idle", pc' = "idle"
  PROVE  GaveUp \/ RecordInstall \/ RecordUninstall
<1> USE GentleSteps
    DEF saves, levels, lib, extras, state, call, UndoWrite, Smooth, tab, before, GaveUp
<1>t. /\ Sequenced /\ texts \in [Langs -> Owners] /\ texts' \in [Langs -> Owners]
      /\ before.texts \in [Langs -> Owners] /\ before.uri \in Owners
      /\ before.archive \in [Owners -> {NoFile} \cup Saves]
  BY PlanTypes DEF TypeInv, TypeOK, DiskOK
<1>1. \/ (\E f \in Files : RenameAside(f) \/ WriteCopy(f) \/ UndoFile(f))
         \/ PutPalettes \/ UndoPalettes
      \/ ArchiveSave \/ SwapSave \/ UndoSave \/ RecordInstall \/ RecordUninstall
  BY DEF Next, Step, vars, RestoreFile, PutBack, PutTexts, PutBindings, PointAtTab,
         ChangeCredit, SyncCloud, UndoCredit, UndoUri, UndoBindings, UndoTexts,
         PointBack, RestoreCredit, RestoreTexts, RestoreBindings, RemovePalettes,
         BeginInstall, BeginUninstall, MayUninstall, Fetch, Remove, RefreshDigest, Play, Goto,
         Installing, Sequenced, InstallSteps
<1>2. ASSUME (\E f \in Files : RenameAside(f) \/ WriteCopy(f) \/ UndoFile(f))
               \/ PutPalettes \/ UndoPalettes
      PROVE  GaveUp
  <2>1. /\ task.kind = "install" /\ pc \in {"rename", "write", "undo files", "palettes", "undo palettes"}
        /\ UNCHANGED <<uri, credit, texts, keys, saves, state>>
        /\ palettes' = IF pc = "undo palettes" THEN before.palettes ELSE palettes
    BY <1>2, <1>t
    DEF RenameAside, WriteCopy, UndoFile, PutPalettes, UndoPalettes, Goto, Sequenced,
        UninstallSteps
  <2>2. uri = before.uri /\ live = before.live /\ archive \in {before.archive, Filing}
    BY <2>1 DEF Phases, InstallPhase, SavesMoved, SwappedIn, Swaps
  <2>3. /\ \A l \in Langs : texts[l] = before.texts[l]
        /\ keys = before.keys /\ credit = before.credit
        /\ pc # "undo palettes" => palettes = before.palettes
    BY <2>1 DEF ExtrasMoved, InstallExtras, AfterPalettes, AfterTexts, AfterBindings, Swaps
  <2>4. texts = before.texts BY <2>3, SameTexts DEF TypeInv
  <2> QED BY <2>1, <2>2, <2>3, <2>4
<1>3. ASSUME ArchiveSave \/ SwapSave \/ UndoSave PROVE GaveUp
  <2>1. /\ task.kind = "uninstall" /\ pc \in {"archive", "save", "undo save"}
        /\ UNCHANGED <<target, backup, uri, credit, texts, keys, palettes, archive, cloud,
                        state>>
        /\ live' = IF pc = "undo save" THEN archive[tab] ELSE live
    BY <1>3, <1>t
    DEF ArchiveSave, SwapSave, UndoSave, SaveFails, Installing, Goto, Return, Sequenced,
        InstallSteps
  <2>2. /\ uri = before.uri /\ before.uri = tab /\ archive \in {before.archive, Filing}
        /\ pc = "undo save" => archive = Filing
        /\ pc # "undo save" => live = before.live
    BY <2>1 DEF Phases, UninstallPhase, SavesMoved, SwappedIn
  <2>f. Filing[before.uri] = before.live BY <1>t DEF Filing
  <2>3. live' = before.live BY <2>1, <2>2, <2>f
  <2>4. /\ \A l \in Langs : texts[l] = before.texts[l]
        /\ keys = before.keys /\ palettes = before.palettes
        /\ pc # "undo save" => credit = before.credit
    BY <2>1 DEF ExtrasMoved, UninstallExtras
  <2>5. texts = before.texts BY <2>4, SameTexts DEF TypeInv
  <2> QED BY <2>1, <2>2, <2>3, <2>4, <2>5
<1> QED BY <1>1, <1>2, <1>3

(* What `o` would be played with, were the game `u`'s with these saves.     *)
SaveOf(o, u, l, a) == IF o = u THEN l ELSE IF a[o] = NoFile THEN Fresh ELSE a[o]

(* Every owner's save holds its own sessions, all of them and no other's.   *)
OwnSessions(o)   == {o} \X (1 .. played[o])
SavesHold(u, l, a) == \A o \in Owners : SaveOf(o, u, l, a) = OwnSessions(o)

SessionsHold ==
  IF pc = "idle" THEN SavesHold(uri, live, archive)
  ELSE SavesHold(before.uri, before.live, before.archive)

(* One session more, after those counted so far.                            *)
LEMMA OneMoreSession ==
  ASSUME NEW o, NEW n \in Nat
  PROVE  ({o} \X (1 .. n)) \cup {<<o, n + 1>>} = {o} \X (1 .. n + 1)
OBVIOUS

(* A call that ends leaves every owner the save it had before, whether the  *)
(* game has become another's or not.                                        *)
LEMMA EndKeepsSaves ==
  ASSUME Gentle, TypeInv, TypeInv', Phases, SavesMoved, ExtrasMoved, [Next]_vars,
         pc # "idle", pc' = "idle"
  PROVE  \A o \in Owners : SaveOf(o, uri', live', archive')
                             = SaveOf(o, before.uri, before.live, before.archive)
<1>t. before.archive \in [Owners -> {NoFile} \cup Saves] /\ before.live \in Saves
      /\ before.uri \in Owners
  BY PlanTypes DEF TypeInv
<1>a. CASE uri' = before.uri /\ live' = before.live /\ archive' \in {before.archive, Filing}
  BY <1>a, <1>t DEF SaveOf, Filing
<1>b. CASE uri' # before.uri /\ live' = Incoming /\ archive' = Filing /\ uri' = TakenAs
  BY <1>b, <1>t, NoFileAssumption DEF SaveOf, Filing, Incoming
<1>1. ASSUME GaveUp
      PROVE  uri' = before.uri /\ live' = before.live /\ archive' \in {before.archive, Filing}
  BY <1>1 DEF GaveUp
<1>2. ASSUME RecordInstall \/ RecordUninstall
      PROVE  uri' # before.uri /\ live' = Incoming /\ archive' = Filing /\ uri' = TakenAs
  BY <1>2, TabsAssumption
  DEF RecordInstall, RecordUninstall, Installing, TakenAs, saves, lib, SavesMoved,
      SwappedIn, Phases, InstallPhase, UninstallPhase, Swaps
<1> QED BY <1>a, <1>b, <1>1, <1>2, CallEnds

(* What was played with a tab is what its progress says, at every step.     *)
LEMMA SessionsNext ==
  ASSUME Followed, TypeInv, TypeInv', Phases, SavesMoved, ExtrasMoved, CloudFollows,
         SessionsHold, [Next]_vars
  PROVE  SessionsHold'
<1> USE DEF saves, lib, call, before, SessionsHold, SavesHold
<1>1. CASE Play
  <2>1. /\ pc = "idle" /\ pc' = "idle" /\ UNCHANGED <<uri, archive>> /\ uri \in Owners
        /\ played \in [Owners -> Nat]
        /\ played' = [played EXCEPT ![uri] = @ + 1]
        /\ live' = (IF cloud = NoFile THEN live ELSE cloud) \cup {<<uri, played[uri] + 1>>}
        /\ cloud \in {NoFile, live}
    BY <1>1 DEF Play, CloudFollows, TypeInv, TypeOK, DiskOK, HistoryOK
  <2>2. live' = OwnSessions(uri) \cup {<<uri, played[uri] + 1>>}
    BY <2>1 DEF SaveOf
  <2>3. live' = OwnSessions(uri)'
    BY <2>1, <2>2, OneMoreSession DEF OwnSessions
  <2> QED BY <2>1, <2>3 DEF SaveOf, OwnSessions
<1>2. CASE pc # "idle" /\ pc' = "idle"
  <2>1. UNCHANGED played BY <1>2, CallSteps
  <2> QED BY <1>2, <2>1, EndKeepsSaves DEF OwnSessions, Followed
<1>3. CASE pc # "idle" /\ pc' # "idle"
  <2>1. UNCHANGED <<task, played>> BY <1>3, CallSteps
  <2> QED BY <1>3, <2>1 DEF SaveOf, OwnSessions
<1>4. CASE pc = "idle" /\ ~Play
  <2>1. /\ UNCHANGED <<uri, live, archive, played>>
        /\ \/ pc' = "idle"
           \/ (before)' = Disk /\ pc' # "idle"
    BY <1>4, IdleSteps
    DEF BeginInstall, BeginUninstall, MayUninstall, Fetch, Remove, RefreshDigest, vars
  <2> QED BY <1>4, <2>1 DEF SaveOf, OwnSessions, Disk
<1> QED BY <1>1, <1>2, <1>3, <1>4

(***************************************************************************)
(* What is on record between calls.                                         *)
(***************************************************************************)
(* A column that shows another's text has the game's own on record, or is   *)
(* the English one.                                                         *)
TextsRecorded(u, shown) ==
  {"record", "texts"} \cap troubles = {} =>
    \A l \in Langs :
      /\ shown[l] \in {Vanilla, u} /\ textrec[l] \in {NoRecord, Vanilla}
      /\ shown[l] # Vanilla => textrec[l] = Vanilla \/ l = "english"

KeysRecorded(u, bound) ==
  "record" \notin troubles =>
    /\ keyrec \in {NoRecord, Vanilla}
    /\ bound # Vanilla => keyrec = Vanilla
    /\ "bindings" \notin troubles => bound \in {Vanilla, u}

PalettesRecorded(u, put) ==
  {"record", "palettes"} \cap troubles = {} =>
    put \subseteq {u} /\ \A t \in put : palrec[t] = "made"

Flagged(u) == {"record", "legacy"} \cap troubles = {} => installed = {u} \ {Vanilla}

Recorded(u, shown, bound, put) ==
  TextsRecorded(u, shown) /\ KeysRecorded(u, bound) /\ PalettesRecorded(u, put) /\ Flagged(u)

OnRecord == IF pc = "idle" THEN Recorded(uri, texts, keys, palettes)
            ELSE Recorded(before.uri, before.texts, before.keys, before.palettes)

(* The record changes only when a call ends by writing it.                  *)
LEMMA StateSteps ==
  ASSUME [Next]_vars, ~RecordInstall, ~RecordUninstall
  PROVE  UNCHANGED state
BY DEF Next, Step, vars, RenameAside, WriteCopy, UndoFile, RestoreFile, PutBack,
       PutPalettes, PutTexts, PutBindings, PointAtTab, ChangeCredit, ArchiveSave,
       SwapSave, SyncCloud, UndoCredit, UndoUri, UndoBindings, UndoTexts, UndoPalettes,
       PointBack, RestoreCredit, UndoSave, RestoreTexts, RestoreBindings,
       RemovePalettes, BeginInstall, BeginUninstall, MayUninstall, Fetch, Remove, Play, Crash,
       RefreshDigest

(* What an install that goes through puts on record,                        *)
LEMMA InstallRecords ==
  ASSUME TypeInv, Phases, ExtrasMoved, OnRecord, RecordInstall
  PROVE  OnRecord'
<1>1. /\ pc = "record" /\ task.kind = "install" /\ pc' = "idle" /\ tab \in Tabs
      /\ before.uri = Vanilla /\ uri' = tab /\ UNCHANGED <<texts, keys, palettes>>
      /\ Recorded(Vanilla, before.texts, before.keys, before.palettes)
      /\ troubles \subseteq troubles'
  BY DEF RecordInstall, Installing, Return, Phases, InstallPhase, Swaps, lib, extras,
         OnRecord, Smooth, Meets
<1>2. /\ palettes = IF "palettes" \in task.put THEN before.palettes \cup {tab}
                    ELSE before.palettes
      /\ \A l \in Langs : texts[l] = IF l \in task.langs THEN tab ELSE before.texts[l]
      /\ keys = IF "bindings" \in task.put THEN tab ELSE before.keys
  BY <1>1
  DEF ExtrasMoved, InstallExtras, AfterPalettes, AfterTexts, AfterBindings, Swaps
<1>v. /\ Vanilla \notin Tabs /\ NoRecord \notin Tabs /\ Vanilla # NoRecord
      /\ before.palettes \subseteq Tabs /\ palrec \in [Tabs -> {"unknown", "made", "empty"}]
  BY TabsAssumption, PlanTypes DEF TypeInv, TypeOK, StateOK, Vanilla, NoRecord
<1>3. CASE "record" \in troubles'
  BY <1>1, <1>3
  DEF OnRecord, Recorded, TextsRecorded, KeysRecorded, PalettesRecorded, Flagged
<1>4. CASE "record" \notin troubles'
  <2>1. /\ installed' = installed \cup {tab}
        /\ palrec' = [palrec EXCEPT ![tab] =
                        IF "palettes" \in task.put THEN "made" ELSE "empty"]
        /\ textrec' = [l \in Langs |->
                         IF l \in task.langs /\ before.texts[l] # tab
                         THEN before.texts[l] ELSE NoRecord]
        /\ keyrec' = IF "bindings" \in task.put /\ keyrec = NoRecord
                        /\ before.keys # tab
                     THEN before.keys ELSE keyrec
        /\ UNCHANGED troubles
    BY <1>4 DEF RecordInstall, Meets, Smooth
  <2>2. TextsRecorded(uri, texts)'
    BY <1>1, <1>2, <1>v, <2>1 DEF Recorded, TextsRecorded
  <2>3. KeysRecorded(uri, keys)'
    BY <1>1, <1>2, <1>v, <2>1 DEF Recorded, KeysRecorded
  <2>4. PalettesRecorded(uri, palettes)'
    BY <1>1, <1>2, <1>v, <2>1 DEF Recorded, PalettesRecorded
  <2>5. Flagged(uri)'
    BY <1>1, <1>v, <2>1 DEF Recorded, Flagged
  <2> QED BY <1>1, <2>2, <2>3, <2>4, <2>5 DEF OnRecord, Recorded
<1> QED BY <1>3, <1>4

(* and what an uninstall leaves on it.                                      *)
LEMMA UninstallRecords ==
  ASSUME TypeInv, Phases, ExtrasMoved, OnRecord, RecordUninstall
  PROVE  OnRecord'
<1>1. /\ pc = "record" /\ task.kind = "uninstall" /\ pc' = "idle" /\ tab \in Tabs
      /\ before.uri = tab /\ uri' = Vanilla /\ UNCHANGED <<texts, keys, palettes>>
      /\ Recorded(tab, before.texts, before.keys, before.palettes)
      /\ troubles \subseteq troubles'
      /\ left \subseteq troubles
  BY DEF RecordUninstall, Return, Phases, UninstallPhase, lib, extras, OnRecord, Smooth,
         Meets
<1>2. /\ \A l \in Langs : texts[l] =
           IF "texts" \notin left
           THEN IF textrec[l] # NoRecord THEN textrec[l]
                ELSE IF l = "english" THEN Vanilla ELSE before.texts[l]
           ELSE before.texts[l]
      /\ keys = IF "bindings" \notin left /\ keyrec # NoRecord THEN keyrec ELSE before.keys
      /\ palettes = IF "palettes" \notin left THEN before.palettes \ ToRemove
                    ELSE before.palettes
  BY <1>1 DEF ExtrasMoved, UninstallExtras
<1>v. /\ Vanilla \notin Tabs /\ NoRecord \notin Tabs /\ Vanilla # NoRecord
      /\ before.palettes \subseteq Tabs /\ palrec \in [Tabs -> {"unknown", "made", "empty"}]
  BY TabsAssumption, PlanTypes DEF TypeInv, TypeOK, StateOK, Vanilla, NoRecord
<1>3. CASE "record" \in troubles'
  BY <1>1, <1>3
  DEF OnRecord, Recorded, TextsRecorded, KeysRecorded, PalettesRecorded, Flagged
<1>4. CASE "record" \notin troubles'
  <2>1. /\ installed' = installed \ {tab}
        /\ textrec' = IF "texts" \in left THEN textrec
                      ELSE [l \in Langs |-> NoRecord]
        /\ keyrec' = IF "bindings" \in left THEN keyrec ELSE NoRecord
        /\ palrec' = IF "palettes" \in left THEN palrec
                     ELSE [palrec EXCEPT ![tab] = "empty"]
        /\ UNCHANGED troubles
    BY <1>4 DEF RecordUninstall, Meets, Smooth
  <2>2. TextsRecorded(uri, texts)'
    BY <1>1, <1>2, <1>v, <2>1 DEF Recorded, TextsRecorded
  <2>3. KeysRecorded(uri, keys)'
    BY <1>1, <1>2, <1>v, <2>1 DEF Recorded, KeysRecorded
  <2>4. PalettesRecorded(uri, palettes)'
    BY <1>1, <1>2, <1>v, <2>1 DEF Recorded, PalettesRecorded, ToRemove
  <2>5. Flagged(uri)'
    BY <1>1, <1>v, <2>1 DEF Recorded, Flagged
  <2> QED BY <1>1, <2>2, <2>3, <2>4, <2>5 DEF OnRecord, Recorded
<1> QED BY <1>3, <1>4

(* The record is what is in at the end of a call, at every step.            *)
LEMMA OnRecordNext ==
  ASSUME Gentle, TypeInv, TypeInv', Phases, SavesMoved, ExtrasMoved, OnRecord, [Next]_vars
  PROVE  OnRecord'
<1>g. troubles \subseteq troubles' BY TroublesGrow
<1>1. CASE RecordInstall BY <1>1, InstallRecords
<1>2. CASE RecordUninstall BY <1>2, UninstallRecords
<1>3. CASE ~RecordInstall /\ ~RecordUninstall
  <2>1. UNCHANGED <<installed, textrec, keyrec, palrec>>
    BY <1>3, StateSteps DEF state
  <2>a. CASE pc = "idle"
    <3>1. \/ pc' = "idle" /\ UNCHANGED <<uri, texts, keys, palettes>>
          \/ /\ pc' # "idle" /\ (before.uri)' = uri /\ (before.texts)' = texts
             /\ (before.keys)' = keys /\ (before.palettes)' = palettes
      BY <2>a, IdleSteps
      DEF BeginInstall, BeginUninstall, MayUninstall, Fetch, Remove, RefreshDigest, Play, vars, lib,
          extras, before, Disk
    <3>2. Recorded(uri, texts, keys, palettes) BY <2>a DEF OnRecord
    <3>3. CASE pc' = "idle"
      <4>1. Recorded(uri, texts, keys, palettes)'
        BY <2>1, <1>g, <3>1, <3>2, <3>3
        DEF Recorded, TextsRecorded, KeysRecorded, PalettesRecorded, Flagged
      <4> QED BY <3>3, <4>1 DEF OnRecord
    <3>4. CASE pc' # "idle"
      <4>1. Recorded(before.uri, before.texts, before.keys, before.palettes)'
        BY <2>1, <1>g, <3>1, <3>2, <3>4
        DEF Recorded, TextsRecorded, KeysRecorded, PalettesRecorded, Flagged
      <4> QED BY <3>4, <4>1 DEF OnRecord
    <3> QED BY <3>3, <3>4
  <2>b. CASE pc # "idle"
    <3>1. \/ pc' # "idle" /\ UNCHANGED before
          \/ /\ pc' = "idle" /\ uri' = before.uri /\ texts' = before.texts
             /\ keys' = before.keys /\ palettes' = before.palettes
      BY <1>3, <2>b, CallSteps, CallEnds DEF GaveUp, before
    <3>2. Recorded(before.uri, before.texts, before.keys, before.palettes)
      BY <2>b DEF OnRecord
    <3>3. CASE pc' = "idle"
      <4>1. Recorded(uri, texts, keys, palettes)'
        BY <2>1, <1>g, <3>1, <3>2, <3>3
        DEF Recorded, TextsRecorded, KeysRecorded, PalettesRecorded, Flagged
      <4> QED BY <3>3, <4>1 DEF OnRecord
    <3>4. CASE pc' # "idle"
      <4>1. Recorded(before.uri, before.texts, before.keys, before.palettes)'
        BY <2>1, <1>g, <3>1, <3>2, <3>4
        DEF Recorded, TextsRecorded, KeysRecorded, PalettesRecorded, Flagged
      <4> QED BY <3>4, <4>1 DEF OnRecord
    <3> QED BY <3>3, <3>4
  <2> QED BY <2>a, <2>b
<1> QED BY <1>1, <1>2, <1>3

(***************************************************************************)
(* The theorems.                                                            *)
(***************************************************************************)
CallInv == TypeInv /\ Phases /\ SavesMoved /\ ExtrasMoved /\ OnRecord

(* A game that no tab was installed in.                                     *)
LEMMA CallInit == ASSUME Init PROVE CallInv
<1>1. TypeInv BY TypeInit
<1>2. /\ pc = "idle" /\ textrec = [l \in Langs |-> NoRecord] /\ keyrec = NoRecord
      /\ keys = Vanilla /\ palettes = {} /\ installed = {}
      /\ \A l \in Langs : texts[l] = IF l = "english" THEN uri ELSE Vanilla
      /\ "legacy" \in troubles \/ uri = Vanilla
  BY DEF Init, InitGame
<1>3. OnRecord
  BY <1>2
  DEF OnRecord, Recorded, TextsRecorded, KeysRecorded, PalettesRecorded, Flagged
<1> QED
  BY <1>1, <1>2, <1>3
  DEF CallInv, Phases, InstallPhase, UninstallPhase, SavesMoved, ExtrasMoved,
      InstallExtras, UninstallExtras

(* Where a call is, and what the record says, at every step.                *)
LEMMA CallNext ==
  ASSUME Gentle, CallInv, [Next]_vars
  PROVE  CallInv'
<1>1. TypeInv' BY TypeNext DEF CallInv
<1>2. Phases' BY PhasesNext DEF Gentle, CallInv
<1>3. SavesMoved' BY <1>1, SavesMovedNext DEF Gentle, CallInv
<1>4. ExtrasMoved' BY <1>1, ExtrasNext DEF CallInv
<1>5. OnRecord' BY <1>1, OnRecordNext DEF CallInv
<1> QED BY <1>1, <1>2, <1>3, <1>4, <1>5 DEF CallInv

(* README: the state file always says what the next uninstall has to put    *)
(* back. Whatever calls fail or go through, a text or a binding that is not *)
(* the game's own can be restored from it, unless the state file could not  *)
(* be written or an uninstall had to leave the texts.                       *)
THEOREM ExtrasAreRecoverable ==
  Gentle /\ Troubles \cap {"record", "texts"} = {} => (Spec => []ExtrasRecoverable)
<1> SUFFICES ASSUME Gentle, Troubles \cap {"record", "texts"} = {}
             PROVE  Spec => []ExtrasRecoverable
  OBVIOUS
<1>1. Init => CallInv BY CallInit
<1>2. CallInv /\ [Next]_vars => CallInv' BY CallNext
<1>3. CallInv => ExtrasRecoverable
  <2> SUFFICES ASSUME CallInv, pc = "idle"
               PROVE  /\ \A l \in Langs : texts[l] # Vanilla => Restored(l) = Vanilla
                      /\ keys # Vanilla => keyrec = Vanilla
    BY DEF ExtrasRecoverable
  <2>1. TextsRecorded(uri, texts) /\ KeysRecorded(uri, keys)
    BY DEF CallInv, OnRecord, Recorded
  <2>2. {"record", "texts"} \cap troubles = {}
    BY DEF CallInv, TypeInv, TypeOK, HistoryOK
  <2> QED BY <2>1, <2>2 DEF TextsRecorded, KeysRecorded, Restored, Vanilla, NoRecord
<1> QED BY <1>1, <1>2, <1>3, PTL DEF Spec

(* The files, as long as the list they were installed by is the digest's.   *)
FilesHold == "digest" \notin troubles => StoreSteady /\ GameFiles

(* The files of a game that no tab was installed in.                        *)
LEMMA FilesHoldInit == ASSUME Init PROVE FilesHold
<1>1. PICK o \in Owners : InitGame(o) /\ (o = Vanilla \/ "legacy" \in troubles)
  BY DEF Init, Owners
<1>2. /\ target = [f \in Files |-> IF o # Vanilla /\ f \in Shipped[o] THEN o ELSE Vanilla]
      /\ backup = [f \in Files |-> NoFile] /\ uri = o /\ pc = "idle"
      /\ listed = Shipped /\ folder = Shipped
  BY <1>1 DEF Init, InitGame
<1>3. StoreSteady BY <1>2 DEF StoreSteady
<1>4. GameFiles
  BY <1>1, <1>2 DEF GameFiles, IdleGame, InstallGame, UninstallGame, FilesOf
<1> QED BY <1>3, <1>4 DEF FilesHold

(* Which files the game has, at every step.                                 *)
LEMMA FilesHoldNext ==
  ASSUME Gentle, Restorable, CallInv, FilesHold, [Next]_vars
  PROVE  FilesHold'
<1>1. TypeInv' BY TypeNext DEF CallInv
<1>2. ASSUME "digest" \notin troubles' PROVE StoreSteady /\ GameFiles
  BY <1>2, TroublesGrow DEF FilesHold
<1>3. ASSUME "digest" \notin troubles' PROVE StoreSteady' /\ GameFiles'
  BY <1>1, <1>2, <1>3, StoreNext, FilesNext DEF CallInv
<1> QED BY <1>3 DEF FilesHold

(* The game is wholly its own or wholly one tab's whenever no call is       *)
(* running, and the state file says which: for any tabs and files, whatever *)
(* fails, but for the end of the process, an undo that fails in its turn,   *)
(* and an uninstall that fails where an older installer kept no backup.     *)
THEOREM GameIsWhole == Gentle /\ Restorable => (Spec => []GameWhole)
<1> SUFFICES ASSUME Gentle, Restorable PROVE Spec => []GameWhole OBVIOUS
<1>1. Init => CallInv /\ FilesHold BY CallInit, FilesHoldInit
<1>2. CallInv /\ FilesHold /\ [Next]_vars => CallInv' /\ FilesHold'
  BY CallNext, FilesHoldNext
<1>3. CallInv /\ FilesHold => GameWhole
  <2> SUFFICES ASSUME CallInv, FilesHold, pc = "idle", "digest" \notin troubles
               PROVE  /\ target = LevelsOf(uri)
                      /\ \/ "record" \in troubles
                         \/ /\ "texts" \in troubles \/ \A l \in Langs : texts[l] \in {Vanilla, uri}
                            /\ "bindings" \in troubles \/ keys \in {Vanilla, uri}
                            /\ "palettes" \in troubles \/ palettes \subseteq {uri}
                            /\ "legacy" \in troubles \/ installed = {uri} \ {Vanilla}
    BY DEF GameWhole
  <2>1. FilesOf(uri, target, backup) BY DEF FilesHold, GameFiles, IdleGame
  <2>2. target \in [Files -> Contents] BY DEF CallInv, TypeInv, TypeOK, DiskOK
  <2>3. target = LevelsOf(uri) BY <2>1, <2>2 DEF FilesOf, LevelsOf
  <2>4. Recorded(uri, texts, keys, palettes) BY DEF CallInv, OnRecord
  <2> QED
    BY <2>3, <2>4
    DEF Recorded, TextsRecorded, KeysRecorded, PalettesRecorded, Flagged
<1> QED BY <1>1, <1>2, <1>3, PTL DEF Spec

SaveInv == CloudFollows /\ SessionsHold

(* The first save is that of the game itself.                               *)
LEMMA SaveInit == ASSUME Init PROVE SaveInv
<1>1. /\ live = {} /\ cloud \in {NoFile, {}} /\ pc = "idle"
      /\ \A o \in Owners : archive[o] \in {NoFile, {}} /\ played[o] = 0
  BY DEF Init, InitGame, Fresh
<1>2. \A o \in Owners : OwnSessions(o) = {} BY <1>1 DEF OwnSessions
<1> QED
  BY <1>1, <1>2 DEF SaveInv, CloudFollows, SessionsHold, SavesHold, SaveOf, Fresh

(* Where everyone's progress is, at every step.                             *)
LEMMA SaveNext ==
  ASSUME Followed, CallInv, SaveInv, [Next]_vars
  PROVE  SaveInv'
<1>1. TypeInv' BY TypeNext DEF CallInv
<1>2. CloudFollows' BY <1>1, CloudNext DEF CallInv, SaveInv
<1>3. SessionsHold' BY <1>1, SessionsNext DEF CallInv, SaveInv
<1> QED BY <1>2, <1>3 DEF SaveInv

(* save.h: no session ever played is lost, at any step of any call: it is   *)
(* in the save the game reads or in one of the archives, whatever fails but *)
(* an undo, an uninstall past its swap, or the copy in the cloud.           *)
THEOREM ProgressIsKept == Followed => (Spec => []ProgressKept)
<1> SUFFICES ASSUME Followed PROVE Spec => []ProgressKept OBVIOUS
<1>1. Init => CallInv /\ SaveInv BY CallInit, SaveInit
<1>2. CallInv /\ SaveInv /\ [Next]_vars => CallInv' /\ SaveInv'
  BY CallNext, SaveNext DEF Followed
<1>3. CallInv /\ SaveInv => ProgressKept
  <2> SUFFICES ASSUME CallInv, SaveInv, NEW e \in Played
               PROVE  e \in live \/ \E o \in Owners : archive[o] # NoFile /\ e \in archive[o]
    BY DEF ProgressKept, SomeSave
  <2>1. e[1] \in Owners /\ e \in OwnSessions(e[1])
    BY DEF Played, Events, OwnSessions
  <2>a. CASE pc = "idle"
    BY <2>1, <2>a DEF SaveInv, SessionsHold, SavesHold, SaveOf, Fresh
  <2>b. CASE pc # "idle"
    <3>1. e \in SaveOf(e[1], before.uri, before.live, before.archive)
      BY <2>1, <2>b DEF SaveInv, SessionsHold, SavesHold
    <3>2. /\ before.archive \in [Owners -> {NoFile} \cup Saves]
          /\ before.uri \in Owners /\ before.live \in Saves
      BY PlanTypes DEF CallInv, TypeInv
    <3>3. /\ archive \in {before.archive, Filing}
          /\ SwappedIn => archive = Filing
          /\ ~SwappedIn => live = before.live
      BY <2>b DEF CallInv, SavesMoved, SwappedIn
    <3> QED
      BY <2>1, <3>1, <3>2, <3>3, NoFileAssumption DEF SaveOf, Filing, Fresh
  <2> QED BY <2>a, <2>b
<1> QED BY <1>1, <1>2, <1>3, PTL DEF Spec

(* The level files of a call that gave up.                                  *)
LEMMA GaveUpFiles ==
  ASSUME TypeInv, TypeInv', Phases, GameFiles, GameFiles', GaveUp, pc # "idle", pc' = "idle"
  PROVE  target' = before.target /\ backup' = before.backup
<1>t. /\ before.target \in [Files -> Contents] /\ target' \in [Files -> Contents]
      /\ before.backup \in [Files -> Contents] /\ backup' \in [Files -> Contents]
  BY PlanTypes DEF TypeInv, TypeOK, DiskOK
<1>1. \A f \in Files : target'[f] = before.target[f] /\ backup'[f] = before.backup[f]
  <2>a. CASE task.kind = "install"
    <3>1. uri' = Vanilla BY <2>a DEF GaveUp, Phases, InstallPhase
    <3> QED BY <2>a, <3>1 DEF GameFiles, IdleGame, InstallGame, FilesOf
  <2>b. CASE task.kind = "uninstall"
    <3>1. done = {} BY <2>b DEF GaveUp, GameFiles, UninstallGame
    <3> QED BY <2>b, <3>1 DEF GaveUp, GameFiles, UninstallGame
  <2> QED BY <2>a, <2>b DEF TypeInv, Sequenced
<1> QED BY <1>t, <1>1

(* install.h: a call that gives up has changed nothing, neither the game    *)
(* nor the save it will be played with: true of every install, and of an    *)
(* uninstall that gives up while it can.                                    *)
THEOREM FailedCallsChangeNothing ==
  Followed /\ "digest" \notin Troubles => (Spec => FailedCallChangesNothing)
<1> SUFFICES ASSUME Followed, "digest" \notin Troubles
             PROVE  Spec => FailedCallChangesNothing
  OBVIOUS
<1> DEFINE Inv == CallInv /\ SaveInv /\ FilesHold
<1>g. Gentle /\ Restorable BY DEF Followed, Restorable
<1>1. Init => Inv BY CallInit, SaveInit, FilesHoldInit
<1>2. Inv /\ [Next]_vars => Inv' BY <1>g, CallNext, SaveNext, FilesHoldNext
<1>3. ASSUME Inv, [Next]_vars, GivenUp
      PROVE  /\ target' = before.target /\ backup' = before.backup
             /\ uri' = before.uri /\ credit' = before.credit
             /\ texts' = before.texts /\ keys' = before.keys
             /\ palettes' = before.palettes
             /\ live' = before.live /\ SaveRead' = before.live
  <2>1. GaveUp /\ pc # "idle" /\ pc' = "idle" /\ CallInv'
    BY <1>3, <1>g, CallEnds, CallNext DEF CallInv, GivenUp, RecordInstall, RecordUninstall
  <2>2. SaveRead' = live'
    BY <1>2, <1>3, <2>1 DEF SaveInv, CloudFollows, SaveRead
  <2>3. pc # "undo save"
    BY <1>3, <2>1
    DEF CallInv, TypeInv, Sequenced, InstallSteps, Phases, UninstallPhase, Followed,
        TypeOK, HistoryOK
  <2>4. target' = before.target /\ backup' = before.backup
    BY <1>2, <1>3, <2>1, GaveUpFiles DEF FilesHold, CallInv, TypeInv, TypeOK, HistoryOK
  <2> QED BY <2>1, <2>2, <2>3, <2>4 DEF GaveUp
<1> QED BY <1>1, <1>2, <1>3, PTL DEF Spec, FailedCallChangesNothing

(***************************************************************************)
(* The two calls implement the atomic switch of TabSwitch.                  *)
(***************************************************************************)
SwitchInv == CallInv /\ SaveInv /\ FilesHold

(* At first the game is its own, and nobody has played it.                  *)
LEMMA SwitchInit == ASSUME Init, Troubles = {} PROVE Switch!Init
<1>1. /\ pc = "idle" /\ uri = Vanilla /\ target = [f \in Files |-> Vanilla]
      /\ texts = [l \in Langs |-> Vanilla] /\ keys = Vanilla /\ palettes = {}
      /\ live = Fresh /\ archive = [o \in Owners |-> NoFile]
  BY DEF Init, InitGame
<1>2. /\ Seen.uri = Vanilla /\ Seen.target = [f \in Files |-> Vanilla]
      /\ Seen.texts = [l \in Langs |-> Vanilla] /\ Seen.keys = Vanilla /\ Seen.palettes = {}
      /\ Seen.live = Fresh /\ Seen.archive = [o \in Owners |-> NoFile]
  BY <1>1 DEF Seen, Disk
<1>3. Progress = [o \in Owners |-> {}] BY <1>2 DEF Progress, Fresh
<1> QED BY <1>1, <1>2, <1>3 DEF Switch!Init, Switch!Game, Owners

(* A call is asked for, gives up, or ends by switching the game.            *)
LEMMA SwitchNext ==
  ASSUME Troubles = {}, SwitchInv, SwitchInv', [Next]_vars
  PROVE  [Switch!Next]_(Switch!vars)
<1>0. /\ Gentle /\ Followed /\ Restorable
      /\ troubles = {} /\ troubles' = {}
  BY DEF Gentle, Firm, Followed, Restorable, SwitchInv, CallInv, TypeInv, TypeOK, HistoryOK
<1>i. /\ TypeInv /\ TypeInv' /\ Phases /\ SavesMoved /\ ExtrasMoved
      /\ StoreSteady /\ GameFiles /\ GameFiles'
  BY <1>0 DEF SwitchInv, CallInv, FilesHold
<1>1. CASE pc = "idle" /\ pc' # "idle"
  <2>1. Seen' = Seen
    BY <1>1, IdleSteps
    DEF Seen, BeginInstall, BeginUninstall, MayUninstall, Fetch, Remove, RefreshDigest, Play, vars,
        before
  <2>2. UNCHANGED Progress BY <2>1 DEF Progress
  <2> QED BY <1>1, <2>1, <2>2 DEF Switch!Next, Switch!Ask
<1>2. CASE pc # "idle" /\ pc' # "idle"
  <2>1. Seen' = Seen BY <1>2, CallSteps DEF Seen, before
  <2>2. UNCHANGED Progress BY <2>1 DEF Progress
  <2> QED BY <1>2, <2>1, <2>2 DEF Switch!vars
<1>3. CASE pc = "idle" /\ pc' = "idle" /\ ~Play
  <2>1. Seen' = Seen
    BY <1>3, IdleSteps
    DEF Seen, Disk, BeginInstall, BeginUninstall, MayUninstall, Fetch, Remove, RefreshDigest, vars,
        levels, lib, extras, saves
  <2>2. UNCHANGED Progress BY <2>1 DEF Progress
  <2> QED BY <1>3, <2>1, <2>2 DEF Switch!vars
<1>4. CASE Play
  <2>1. /\ pc = "idle" /\ pc' = "idle" /\ UNCHANGED <<uri, archive, target, texts, keys, palettes>>
        /\ uri \in Owners /\ played \in [Owners -> Nat] /\ played[uri] + 1 \in 1 .. MaxPlay
        /\ live = OwnSessions(uri) /\ live' = live \cup {<<uri, played[uri] + 1>>}
    BY <1>4, <1>i, MaxPlayAssumption
    DEF Play, levels, lib, extras, TypeInv, TypeOK, DiskOK, HistoryOK, SwitchInv,
        SaveInv, CloudFollows, SessionsHold, SavesHold, SaveOf
  <2>2. /\ Seen.uri = uri /\ Seen'.uri = uri /\ Seen'.target = Seen.target
        /\ Seen'.texts = Seen.texts /\ Seen'.keys = Seen.keys
        /\ Seen'.palettes = Seen.palettes /\ Seen.live = live /\ Seen'.live = live'
        /\ Seen'.archive = Seen.archive
    BY <2>1 DEF Seen, Disk
  <2>3. Progress' = [Progress EXCEPT ![uri] = @ \cup {<<uri, played[uri] + 1>>}]
    BY <2>1, <2>2 DEF Progress
  <2>4. <<uri, played[uri] + 1>> \notin Progress[uri]
    BY <2>1, <2>2 DEF Progress, OwnSessions
  <2>5. Switch!Play BY <2>1, <2>2, <2>3, <2>4 DEF Switch!Play
  <2> QED BY <2>5 DEF Switch!Next
<1>5. CASE pc # "idle" /\ pc' = "idle"
  <2>1. /\ Seen.uri = before.uri /\ Seen.target = before.target /\ Seen.texts = before.texts
        /\ Seen.keys = before.keys /\ Seen.palettes = before.palettes
        /\ Seen.live = before.live /\ Seen.archive = before.archive
        /\ Seen'.uri = uri' /\ Seen'.target = target' /\ Seen'.texts = texts'
        /\ Seen'.keys = keys' /\ Seen'.palettes = palettes'
        /\ Seen'.live = live' /\ Seen'.archive = archive'
    BY <1>5 DEF Seen, Disk
  <2>2. \A o \in Owners : SaveOf(o, uri', live', archive')
                            = SaveOf(o, before.uri, before.live, before.archive)
    BY <1>0, <1>5, <1>i, EndKeepsSaves
  <2>3. UNCHANGED Progress
    <3>1. \A o \in Owners : (IF o = Seen'.uri THEN Seen'.live
                             ELSE IF Seen'.archive[o] = NoFile THEN Fresh ELSE Seen'.archive[o])
                          = (IF o = Seen.uri THEN Seen.live
                             ELSE IF Seen.archive[o] = NoFile THEN Fresh ELSE Seen.archive[o])
      BY <2>1, <2>2 DEF SaveOf
    <3> QED BY <3>1 DEF Progress
  <2>4. /\ Recorded(before.uri, before.texts, before.keys, before.palettes)
        /\ Recorded(uri, texts, keys, palettes)'
    BY <1>5 DEF SwitchInv, CallInv, OnRecord
  <2>5. /\ target' \in [Files -> Contents] /\ texts' \in [Langs -> Owners]
        /\ before.palettes \subseteq Tabs /\ palettes' \subseteq Tabs
        /\ Vanilla \notin Tabs
    BY <1>i, PlanTypes, TabsAssumption DEF TypeInv, TypeOK, DiskOK
  <2>6. target' = LevelsOf(uri)'
    BY <1>0, <1>5, <1>i, <2>5 DEF GameFiles, IdleGame, FilesOf, LevelsOf
  <2>a. CASE GaveUp
    <3>1. UNCHANGED <<Seen.uri, Seen.target, Seen.texts, Seen.keys, Seen.palettes>>
      BY <1>5, <1>i, <2>1, <2>a, GaveUpFiles DEF GaveUp
    <3> QED BY <1>5, <2>3, <3>1 DEF Switch!Next, Switch!GiveUp
  <2>b. CASE RecordInstall
    <3>1. /\ task.kind = "install" /\ tab \in Tabs /\ before.uri = Vanilla /\ uri' = tab
          /\ task.langs \subseteq Langs /\ task.put \subseteq Bundles[tab]
          /\ palettes' = IF "palettes" \in task.put THEN before.palettes \cup {tab}
                         ELSE before.palettes
          /\ \A l \in Langs : texts'[l] = IF l \in task.langs THEN tab ELSE before.texts[l]
          /\ keys' = IF "bindings" \in task.put THEN tab ELSE before.keys
      BY <1>5, <1>i, <2>b
      DEF RecordInstall, Installing, lib, extras, Phases, InstallPhase, ExtrasMoved,
          InstallExtras, AfterPalettes, AfterTexts, AfterBindings, Swaps
    <3>2. /\ before.palettes = {} /\ before.keys = Vanilla
          /\ \A l \in Langs : before.texts[l] = Vanilla
      BY <1>0, <2>4, <2>5, <3>1
      DEF Recorded, TextsRecorded, KeysRecorded, PalettesRecorded
    <3>3. texts' = [l \in Langs |-> IF l \in task.langs THEN tab ELSE Vanilla]
      BY <2>5, <3>1, <3>2
    <3>4. [levels |-> target', texts |-> texts', keys |-> keys', palettes |-> palettes']
            = Switch!Game(tab, task.langs, task.put)
      BY <2>6, <3>1, <3>2, <3>3 DEF Switch!Game, LevelsOf
    <3>5. Switch!Install(tab)
      BY <1>5, <2>1, <2>3, <3>1, <3>4 DEF Switch!Install
    <3> QED BY <3>1, <3>5 DEF Switch!Next
  <2>c. CASE RecordUninstall
    <3>1. /\ before.uri \in Tabs /\ uri' = Vanilla
      BY <1>5, <1>i, <2>c DEF RecordUninstall, lib, Phases, UninstallPhase
    <3>2. /\ palettes' = {} /\ keys' = Vanilla /\ \A l \in Langs : texts'[l] = Vanilla
      BY <1>0, <2>4, <2>5, <3>1
      DEF Recorded, TextsRecorded, KeysRecorded, PalettesRecorded
    <3>3. texts' = [l \in Langs |-> Vanilla] BY <2>5, <3>2
    <3>4. [levels |-> target', texts |-> texts', keys |-> keys', palettes |-> palettes']
            = Switch!Game(Vanilla, {}, {})
      BY <2>6, <3>1, <3>2, <3>3 DEF Switch!Game, LevelsOf
    <3>5. Switch!Uninstall
      BY <1>5, <2>1, <2>3, <2>5, <3>1, <3>4 DEF Switch!Uninstall
    <3> QED BY <3>5 DEF Switch!Next
  <2> QED BY <1>0, <1>5, <1>i, <2>a, <2>b, <2>c, CallEnds
<1> QED BY <1>1, <1>2, <1>3, <1>4, <1>5

(* install.h: a call moves the whole game from its own levels to a tab's or *)
(* back, or gives up and leaves it as it was; every owner keeps a progress  *)
(* of its own. As long as no trouble is met, the calls refine that switch.  *)
THEOREM SwitchIsWhole == Troubles = {} => (Spec => SwitchesWhole)
<1> SUFFICES ASSUME Troubles = {} PROVE Spec => SwitchesWhole OBVIOUS
<1>g. Gentle /\ Followed /\ Restorable BY DEF Gentle, Firm, Followed, Restorable
<1>1. Init => SwitchInv /\ Switch!Init
  BY CallInit, SaveInit, FilesHoldInit, SwitchInit DEF SwitchInv
<1>2. SwitchInv /\ [Next]_vars => SwitchInv'
  BY <1>g, CallNext, SaveNext, FilesHoldNext DEF SwitchInv
<1>3. SwitchInv /\ SwitchInv' /\ [Next]_vars => [Switch!Next]_(Switch!vars)
  BY SwitchNext
<1> QED BY <1>1, <1>2, <1>3, PTL DEF Spec, SwitchesWhole, Switch!Spec

(***************************************************************************)
(* What the end of the process leaves behind.                               *)
(***************************************************************************)
(* The tabs config.json may flag: between calls the one the library names,  *)
(* unless it names none; inside a call the one the call takes out.          *)
Flags ==
  IF pc # "idle" THEN installed \subseteq {tab} /\ (task.kind = "install" => installed = {})
  ELSE uri # Vanilla => installed \subseteq {uri}

(* Inside a call the library names no tab but the call's.                   *)
LEMMA CallNames ==
  ASSUME TypeInv, Phases, pc # "idle"
  PROVE  tab \in Tabs /\ uri \in {tab, Vanilla}
BY DEF TypeInv, Sequenced, Phases, InstallPhase, UninstallPhase

(* A call that returns leaves the library as it stands.                     *)
LEMMA ReturnNames ==
  ASSUME TypeInv, [Next]_vars, pc # "idle", pc' = "idle"
  PROVE  UNCHANGED uri
<1>t. Sequenced BY DEF TypeInv
<1> QED
  BY <1>t
  DEF Next, Step, vars, lib, levels, extras, saves, state, store, call, Goto, RenameAside,
      WriteCopy, UndoFile, RestoreFile, PutBack, PutPalettes, PutTexts, PutBindings,
      PointAtTab, ChangeCredit, ArchiveSave, SwapSave, SyncCloud, RecordInstall,
      UndoCredit, UndoUri, UndoBindings, UndoTexts, UndoPalettes, PointBack,
      RestoreCredit, UndoSave, RestoreTexts, RestoreBindings, RemovePalettes,
      RecordUninstall, BeginInstall, BeginUninstall, Fetch, Remove, Play, Crash,
      RefreshDigest, Installing

(* Every step keeps Flags.                                                  *)
LEMMA FlagsNext ==
  ASSUME TypeInv, Phases, Flags, [Next]_vars
  PROVE  Flags'
<1> USE DEF lib, call, state, tab
<1>t. installed \subseteq Tabs /\ Vanilla \notin Tabs
  BY TabsAssumption DEF TypeInv, TypeOK, StateOK
<1>1. CASE pc = "idle"
  <2>1. ASSUME NEW t \in Tabs, BeginInstall(t) \/ BeginUninstall(t) PROVE Flags'
    BY <2>1, <1>t DEF BeginInstall, BeginUninstall, MayUninstall, Healthy, Flags
  <2>2. CASE Play \/ (\E t \in Tabs : Fetch(t) \/ Remove(t) \/ RefreshDigest(t))
             \/ UNCHANGED vars
    BY <2>2, <1>1 DEF Play, Fetch, Remove, RefreshDigest, vars, Flags
  <2> QED BY <1>1, <2>1, <2>2, IdleSteps
<1>2. CASE pc # "idle" /\ pc' # "idle"
  <2>1. UNCHANGED task BY <1>2, CallSteps
  <2>2. UNCHANGED installed
    BY <1>2, StateSteps DEF RecordInstall, RecordUninstall, Return
  <2> QED BY <1>2, <2>1, <2>2 DEF Flags
<1>3. CASE pc # "idle" /\ pc' = "idle"
  <2>1. UNCHANGED uri BY <1>3, ReturnNames
  <2>2. tab \in Tabs /\ uri \in {tab, Vanilla} BY <1>3, CallNames
  <2>3. installed' \subseteq {tab}
    BY <1>3, StateSteps DEF RecordInstall, RecordUninstall, Flags
  <2> QED BY <1>3, <2>1, <2>2, <2>3 DEF Flags
<1> QED BY <1>1, <1>2, <1>3

(* What holds whenever the process may end.                                 *)
CrashInv == TypeInv /\ Phases /\ SavesMoved /\ Flags /\ FileInv /\ LibInv

(* Nothing was cut short yet.                                               *)
LEMMA CrashInit == ASSUME Init PROVE CrashInv
<1>1. TypeInv /\ FileInv /\ LibInv BY TypeInit, FileInit, LibInit
<1>2. pc = "idle" /\ installed = {} BY DEF Init
<1> QED
  BY <1>1, <1>2
  DEF CrashInv, Phases, InstallPhase, UninstallPhase, SavesMoved, Flags

(* What calls that were cut short have left, at every step.                 *)
LEMMA CrashNext ==
  ASSUME Firm, CrashInv, [Next]_vars
  PROVE  CrashInv'
<1>1. TypeInv' /\ FileInv' BY FileInvNext DEF CrashInv
<1>2. Phases' BY PhasesNext DEF CrashInv
<1>3. SavesMoved' BY <1>1, SavesMovedNext DEF CrashInv
<1>4. Flags' BY FlagsNext DEF CrashInv
<1>5. LibInv' BY LibInvNext DEF CrashInv
<1> QED BY <1>1, <1>2, <1>3, <1>4, <1>5 DEF CrashInv

(* README: a state file out of step will not stop a real installation from  *)
(* being undone. Whatever call failed, whatever record was not written and  *)
(* wherever the process ended, an uninstall of the tab the library names    *)
(* passes its checks, unless an undo failed in its turn.                    *)
THEOREM NamedTabsComeOut == Steady /\ Firm => (Spec => []Undoable)
<1> SUFFICES ASSUME Steady, Firm PROVE Spec => []Undoable OBVIOUS
<1>1. Init => CrashInv BY CrashInit
<1>2. CrashInv /\ [Next]_vars => CrashInv' BY CrashNext
<1>3. CrashInv => Undoable
  <2> SUFFICES ASSUME CrashInv, pc = "idle", uri # Vanilla
               PROVE  uri \in Tabs /\ MayUninstall(uri)
    BY DEF Undoable
  <2>1. CallLib /\ listed = Shipped
    BY SteadyIsStraight DEF CrashInv, StoreSteady, TypeInv, TypeOK, HistoryOK, Firm
  <2>2. uri \in Tabs /\ Whole(uri) BY <2>1, NamedIsWhole DEF CrashInv
  <2>3. Healthy BY DEF CrashInv, Flags, Healthy
  <2>4. \A f \in listed[uri] : target[f] # NoFile
    BY <2>1, <2>2, NoFileAssumption DEF Whole, Owners
  <2> QED BY <2>2, <2>3, <2>4 DEF MayUninstall
<1> QED BY <1>1, <1>2, <1>3, PTL DEF Spec

(* The save an undo writes back is all in the archives: half written, it    *)
(* takes no progress with it.                                               *)
LEMMA TornSaveIsFiled ==
  ASSUME TypeInv, Phases, SavesMoved, pc = "undo save"
  PROVE  live = Fresh \/ (archive[Vanilla] # NoFile /\ live = archive[Vanilla])
<1>1. task.kind = "uninstall" /\ before.uri = tab /\ tab \in Tabs
  BY DEF TypeInv, Sequenced, InstallSteps, Phases, UninstallPhase
<1>2. archive = Filing /\ live = Incoming
  BY <1>1 DEF SavesMoved, SwappedIn
<1>3. archive[Vanilla] = before.archive[Vanilla]
  BY <1>1, <1>2, PlanTypes, TabsAssumption DEF Filing, TypeInv, Owners
<1> QED BY <1>1, <1>2, <1>3 DEF Incoming, TakenAs, Installing

(* Wherever the process ends, it takes nothing with it: not an original     *)
(* level, not a session of play that was still there, and it leaves no      *)
(* library that names a tab which is not all in place.                      *)
THEOREM CrashesDestroyNothing == Steady /\ Firm => (Spec => CrashDestroysNothing)
<1> SUFFICES ASSUME Steady, Firm PROVE Spec => CrashDestroysNothing OBVIOUS
<1>1. Init => CrashInv BY CrashInit
<1>2. CrashInv /\ [Next]_vars => CrashInv' BY CrashNext
<1>3. CrashInv => LibraryHonest
  BY NamedIsWhole, SteadyIsStraight DEF CrashInv, LibraryHonest, Whole
<1>4. CrashInv /\ Crash => OriginalsKept' /\ (ProgressKept => ProgressKept')
  <2> SUFFICES ASSUME CrashInv, Crash
               PROVE  OriginalsKept' /\ (ProgressKept => ProgressKept')
    OBVIOUS
  <2>1. OriginalsKept'
    <3>1. troubles' = troubles \cup {"crash"} /\ Unbroken
          /\ \A x \in {"undo", "digest", "legacy"} : x \notin troubles'
      BY DEF Crash, Meets, CrashInv, TypeInv, TypeOK, HistoryOK, Firm, Steady, Unbroken
    <3>2. [Next]_vars /\ Fastened' BY <3>1 DEF Next, Fastened
    <3>3. \A f \in Files : Kept(f)
      BY <3>1, FilesKeptSuffices DEF CrashInv, FileInv
    <3>4. \A f \in Files : ~Overwritten(f) BY <3>1 DEF Overwritten, Unbroken
    <3> QED BY <3>1, <3>2, <3>3, <3>4, StayNext DEF CrashInv, OriginalsKept
  <2>2. ASSUME ProgressKept PROVE ProgressKept'
    <3>1. UNCHANGED <<archive, played, Played>> BY DEF Crash, Played
    <3>2. live' = live \/ (pc = "undo save" /\ live' = {}) BY DEF Crash
    <3>3. UNION SomeSave \subseteq UNION SomeSave'
      BY <3>1, <3>2, TornSaveIsFiled DEF CrashInv, SomeSave, Fresh, Owners
    <3> QED BY <2>2, <3>1, <3>3 DEF ProgressKept
  <2> QED BY <2>1, <2>2
<1> QED BY <1>1, <1>2, <1>3, <1>4, PTL DEF Spec, CrashDestroysNothing
=============================================================================
