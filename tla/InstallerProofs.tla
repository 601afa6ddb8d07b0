-------------------------- MODULE InstallerProofs --------------------------
(***************************************************************************)
(* The types of Installer; what the level files look like at each step of   *)
(* each call, FileInv, which is inductive; why the library names a tab only *)
(* beside all its files, by LibInv in the same way; and from the two, why   *)
(* no step but an install over a leftover takes the last copy of a level    *)
(* file. The proofs have one case per action; the actions that leave files  *)
(* and library alone share a lemma.                                         *)
(***************************************************************************)
EXTENDS InstallerProps, TLAPS

(***************************************************************************)
(* Types: every variable keeps its range whatever the tabs, their files and  *)
(* the troubles met. What a step needs beside the types is where its call   *)
(* is (Sequenced), that it has a tab (Asked), and that an uninstall past    *)
(* its archiving has a save to go back to (Filed).                          *)
(***************************************************************************)
(* Once save_plan_apply has archived the tab's save, the archive that an    *)
(* undo takes it back from is there.                                        *)
Filed ==
  \/ pc \in {"save", "cloud", "uri", "undo uri"} /\ task.kind # "install"
  \/ pc \in {"restore credit", "restore", "put back", "undo save"}
  => archive[tab] \in Saves

(* Only a call has a tab to act on.                                         *)
Asked == task.kind = "install" \/ task.put # {} => tab \in Tabs

(* The inductive form of TypeOK.                                            *)
TypeInv == TypeOK /\ Sequenced /\ Asked /\ Filed

(* The parts of the running call's plan, each in its range.                 *)
LEMMA PlanTypes ==
  ASSUME TypeOK
  PROVE  /\ tab \in Owners
         /\ before.target \in [Files -> Contents]
         /\ before.backup \in [Files -> Contents]
         /\ before.uri \in Owners /\ before.credit \in Owners
         /\ before.texts \in [Langs -> Owners]
         /\ before.keys \in Owners /\ before.palettes \in SUBSET Tabs
         /\ before.live \in Saves
         /\ before.archive \in [Owners -> {NoFile} \cup Saves]
BY DEF TypeOK, CallOK, Plans, tab, before

(* The game, the tabs, a missing and a damaged file are all contents.       *)
LEMMA OwnersTypes == Vanilla \in Owners /\ Tabs \subseteq Owners /\ Fresh \in Saves
  /\ Owners \subseteq Contents /\ {NoFile, Damaged} \subseteq Contents
BY DEF Owners, Contents, Fresh, Saves

(* The plan of no call is a plan.                                           *)
LEMMA NoTaskPlan == NoTask \in Plans
<1>1. Untouched \in [target : [Files -> Contents], backup : [Files -> Contents],
                    uri : Owners, credit : Owners, texts : [Langs -> Owners],
                    keys : Owners, palettes : SUBSET Tabs, live : Saves,
                    archive : [Owners -> {NoFile} \cup Saves]]
  <2>1. /\ Untouched.target \in [Files -> Contents]
        /\ Untouched.backup \in [Files -> Contents]
    BY OwnersTypes DEF Untouched
  <2>2. /\ Untouched.texts \in [Langs -> Owners]
        /\ Untouched.archive \in [Owners -> {NoFile} \cup Saves]
    BY OwnersTypes DEF Untouched
  <2> QED BY <2>1, <2>2, OwnersTypes DEF Untouched
<1> QED BY <1>1, OwnersTypes DEF NoTask, Plans

(* A call that returns leaves its own variables in range.                   *)
LEMMA ReturnTypes == ASSUME Return PROVE CallOK' /\ pc' = "idle"
BY NoTaskPlan DEF Return, CallOK, Steps

(* So does one that moves on,                                               *)
LEMMA GotoTypes == ASSUME TypeOK, NEW step \in Steps, Goto(step)
  PROVE CallOK' /\ pc' = step /\ task' = task
BY DEF TypeOK, CallOK, Goto, call

(* and one that starts putting the files back.                              *)
LEMMA RollbackTypes == ASSUME TypeOK, Rollback PROVE CallOK' /\ pc' \in {"idle", "undo files"}
BY ReturnTypes, GotoTypes DEF Rollback, Steps

(* Between calls nothing is under way, so nothing is out of place.          *)
LEMMA ReturnSequenced == Return => Sequenced' /\ Asked'
BY DEF Return, Sequenced, Asked, NoTask

(* Only an install rolls its files back, and it stays an install.           *)
LEMMA RollbackSequenced ==
  ASSUME Sequenced, Asked, task.kind = "install", Rollback
  PROVE  Sequenced' /\ Asked'
<1>1. CASE Return BY <1>1, ReturnSequenced
<1>2. CASE Goto("undo files")
  BY <1>2 DEF Goto, call, Sequenced, Asked, InstallSteps, tab
<1> QED BY <1>1, <1>2 DEF Rollback

(* A call that moves on to a step of its own kind stays in sequence.        *)
LEMMA GotoSequenced ==
  ASSUME Asked, NEW step, Goto(step),
         \/ task.kind = "install" /\ step \in InstallSteps
         \/ task.kind = "uninstall" /\ step \in UninstallSteps
  PROVE  Sequenced' /\ Asked'
BY DEF Goto, call, Sequenced, Asked, tab

(* The troubles met stay among those the instance allows.                   *)
LEMMA MeetsTypes == ASSUME TypeOK, NEW x, Meets(x) PROVE troubles' \in SUBSET Troubles
BY DEF TypeOK, HistoryOK, Meets

(* TypeInv holds at first, in an older installer's game too.                *)
LEMMA TypeInit == Init => TypeInv
<1> SUFFICES ASSUME Init PROVE TypeInv OBVIOUS
<1> USE OwnersTypes
<1>1. PICK o \in Owners : InitGame(o) BY DEF Init
<1>2. DiskOK BY <1>1 DEF Init, InitGame, DiskOK
<1>3. StateOK BY ShippedAssumption DEF Init, StateOK
<1>4. NoTask \in Plans BY NoTaskPlan
<1>5. CallOK BY <1>4 DEF Init, CallOK, Steps
<1>6. HistoryOK BY MaxPlayAssumption, TroublesAssumption DEF Init, HistoryOK
<1> QED
  BY <1>2, <1>3, <1>5, <1>6
  DEF Init, TypeInv, TypeOK, Sequenced, Asked, Filed, NoTask

(***************************************************************************)
(* Every step of every call, and every step taken around the calls, keeps   *)
(* the types: one case per action, one step per group of variables.         *)
(***************************************************************************)
LEMMA TypeNext ==
  ASSUME TypeInv, [Next]_vars
  PROVE  TypeInv'
<1> USE PlanTypes, OwnersTypes, ReturnTypes, GotoTypes, RollbackTypes, MeetsTypes
    DEF levels, lib, extras, saves, state, store, call, Smooth, UndoWrite,
        TypeInv, TypeOK
<1>1. ASSUME NEW f \in Files, RenameAside(f) PROVE TypeInv'
  <2>1. DiskOK' BY <1>1 DEF DiskOK, RenameAside
  <2>2. StateOK' BY <1>1 DEF StateOK, RenameAside
  <2>3. CallOK' BY <1>1 DEF RenameAside, Steps
  <2>4. HistoryOK' BY <1>1 DEF RenameAside, HistoryOK
  <2>5. Filed' BY <1>1 DEF RenameAside, Filed, Goto
  <2>i. task.kind = "install"
    BY <1>1 DEF RenameAside, Sequenced, UninstallSteps
  <2>6. Sequenced' /\ Asked'
    BY <1>1, <2>i, ReturnSequenced, RollbackSequenced, GotoSequenced
    DEF RenameAside, InstallSteps, Asked, Sequenced, tab
  <2> QED BY <1>1, <2>1, <2>2, <2>3, <2>4, <2>5, <2>6
<1>2. ASSUME NEW f \in Files, WriteCopy(f) PROVE TypeInv'
  <2>1. DiskOK' BY <1>2 DEF DiskOK, WriteCopy
  <2>2. StateOK' BY <1>2 DEF StateOK, WriteCopy
  <2>3. CallOK' BY <1>2 DEF WriteCopy, CallOK, Steps, Extras
  <2>4. HistoryOK' BY <1>2 DEF WriteCopy, HistoryOK
  <2>5. Filed' BY <1>2 DEF WriteCopy, Filed, Goto
  <2>i. task.kind = "install" BY <1>2 DEF WriteCopy, Sequenced, UninstallSteps
  <2>6. Sequenced' /\ Asked'
    BY <1>2, <2>i, ReturnSequenced, RollbackSequenced, GotoSequenced
    DEF WriteCopy, InstallSteps, Asked, Sequenced, tab
  <2> QED BY <1>2, <2>1, <2>2, <2>3, <2>4, <2>5, <2>6
<1>3. ASSUME NEW f \in Files, UndoFile(f) PROVE TypeInv'
  <2>1. DiskOK' BY <1>3 DEF DiskOK, UndoFile
  <2>2. StateOK' BY <1>3 DEF StateOK, UndoFile
  <2>3. CallOK' BY <1>3 DEF UndoFile, CallOK, Steps, Extras
  <2>4. HistoryOK' BY <1>3 DEF UndoFile, HistoryOK
  <2>5. Filed' BY <1>3 DEF UndoFile, Filed
  <2>i. task.kind = "install" BY <1>3 DEF UndoFile, Sequenced, UninstallSteps
  <2>6. Sequenced' /\ Asked'
    BY <1>3, <2>i, ReturnSequenced, RollbackSequenced, GotoSequenced
    DEF UndoFile, InstallSteps, Asked, Sequenced, tab
  <2> QED BY <1>3, <2>1, <2>2, <2>3, <2>4, <2>5, <2>6
<1>4. ASSUME NEW f \in Files, RestoreFile(f) PROVE TypeInv'
  <2>1. DiskOK' BY <1>4 DEF DiskOK, RestoreFile
  <2>2. StateOK' BY <1>4 DEF StateOK, RestoreFile
  <2>3. CallOK' BY <1>4 DEF RestoreFile, CallOK, Steps, Extras
  <2>4. HistoryOK' BY <1>4 DEF RestoreFile, HistoryOK
  <2>5. Filed' BY <1>4 DEF RestoreFile, DiskOK, Filed, Goto, tab, Steps
  <2>6. Sequenced' /\ Asked'
    BY <1>4
    DEF RestoreFile, Sequenced, Asked, Goto, InstallSteps, UninstallSteps, tab
  <2> QED BY <1>4, <2>1, <2>2, <2>3, <2>4, <2>5, <2>6
<1>5. ASSUME NEW f \in Files, PutBack(f) PROVE TypeInv'
  <2>1. DiskOK' BY <1>5 DEF DiskOK, PutBack, SetAside, Rewrite
  <2>2. StateOK' BY <1>5 DEF StateOK, PutBack
  <2>3. CallOK' BY <1>5 DEF PutBack, CallOK, Steps, Extras
  <2>4. HistoryOK' BY <1>5 DEF PutBack, HistoryOK
  <2>5. Filed' BY <1>5 DEF PutBack, DiskOK, Filed, tab, Steps
  <2>6. Sequenced' /\ Asked'
    BY <1>5 DEF PutBack, Sequenced, Asked, InstallSteps, UninstallSteps, tab
  <2> QED BY <1>5, <2>1, <2>2, <2>3, <2>4, <2>5, <2>6
<1>6. CASE PutPalettes
  <2>a. "palettes" \in task.put => tab \in Tabs BY <1>6 DEF Asked
  <2>1. DiskOK' BY <1>6, <2>a DEF DiskOK, PutPalettes
  <2>2. StateOK' BY <1>6 DEF StateOK, PutPalettes
  <2>3. CallOK' BY <1>6 DEF PutPalettes, Steps
  <2>4. HistoryOK' BY <1>6 DEF PutPalettes, HistoryOK
  <2>5. Filed' BY <1>6 DEF PutPalettes, Filed, Goto
  <2>i. task.kind = "install"
    BY <1>6 DEF PutPalettes, Sequenced, UninstallSteps
  <2>6. Sequenced' /\ Asked'
    BY <1>6, <2>i, ReturnSequenced, RollbackSequenced, GotoSequenced
    DEF PutPalettes, InstallSteps, Asked, Sequenced, tab
  <2> QED BY <1>6, <2>1, <2>2, <2>3, <2>4, <2>5, <2>6
<1>7. CASE PutTexts
  <2>1. DiskOK' BY <1>7 DEF DiskOK, PutTexts
  <2>2. StateOK' BY <1>7 DEF StateOK, PutTexts
  <2>3. CallOK' BY <1>7 DEF PutTexts, Steps
  <2>4. HistoryOK' BY <1>7 DEF PutTexts, HistoryOK
  <2>5. Filed' BY <1>7 DEF PutTexts, Filed, Goto
  <2>6. Sequenced' /\ Asked'
    BY <1>7
    DEF PutTexts, Sequenced, Asked, Goto, InstallSteps, UninstallSteps, tab
  <2> QED BY <1>7, <2>1, <2>2, <2>3, <2>4, <2>5, <2>6
<1>8. CASE PutBindings
  <2>1. DiskOK' BY <1>8 DEF DiskOK, PutBindings
  <2>2. StateOK' BY <1>8 DEF StateOK, PutBindings
  <2>3. CallOK' BY <1>8 DEF PutBindings, Steps
  <2>4. HistoryOK' BY <1>8 DEF PutBindings, HistoryOK
  <2>5. Filed' BY <1>8 DEF PutBindings, Filed, Goto
  <2>6. Sequenced' /\ Asked'
    BY <1>8
    DEF PutBindings, Sequenced, Asked, Goto, InstallSteps, UninstallSteps, tab
  <2> QED BY <1>8, <2>1, <2>2, <2>3, <2>4, <2>5, <2>6
<1>9. CASE PointAtTab
  <2>1. DiskOK' BY <1>9 DEF DiskOK, PointAtTab
  <2>2. StateOK' BY <1>9 DEF StateOK, PointAtTab
  <2>3. CallOK' BY <1>9 DEF PointAtTab, Steps
  <2>4. HistoryOK' BY <1>9 DEF PointAtTab, HistoryOK
  <2>5. Filed' BY <1>9 DEF PointAtTab, Filed, Goto
  <2>6. Sequenced' /\ Asked'
    BY <1>9
    DEF PointAtTab, Sequenced, Asked, Goto, InstallSteps, UninstallSteps, tab
  <2> QED BY <1>9, <2>1, <2>2, <2>3, <2>4, <2>5, <2>6
<1>10. CASE ChangeCredit
  <2>1. DiskOK' BY <1>10 DEF DiskOK, ChangeCredit
  <2>2. StateOK' BY <1>10 DEF StateOK, ChangeCredit
  <2>3. CallOK' BY <1>10 DEF ChangeCredit, Steps
  <2>4. HistoryOK' BY <1>10 DEF ChangeCredit, HistoryOK
  <2>5. Filed' BY <1>10 DEF ChangeCredit, Filed, Goto
  <2>6. Sequenced' /\ Asked'
    BY <1>10
    DEF ChangeCredit, Sequenced, Asked, Goto, InstallSteps, UninstallSteps, tab
  <2> QED BY <1>10, <2>1, <2>2, <2>3, <2>4, <2>5, <2>6
<1>11. CASE ArchiveSave
  <2>a. UNCHANGED <<target, backup, uri, credit, texts, keys, palettes, live, cloud>>
    BY <1>11 DEF ArchiveSave
  <2>b. archive' \in [Owners -> {NoFile} \cup Saves]
    BY <1>11, <2>a DEF ArchiveSave, DiskOK
  <2>1. DiskOK' BY ONLY <2>a, <2>b, TypeInv DEF DiskOK, TypeInv, TypeOK
  <2>2. StateOK' BY <1>11 DEF StateOK, ArchiveSave
  <2>3. CallOK' BY <1>11 DEF ArchiveSave, Steps, SaveFails
  <2>4. HistoryOK' BY <1>11 DEF ArchiveSave, HistoryOK
  <2>5. Filed'
    BY <1>11
    DEF ArchiveSave, DiskOK, Filed, Goto, SaveFails, FiledAs, Installing, tab,
        Steps
  <2>6. Sequenced' /\ Asked'
    BY <1>11, ReturnSequenced, GotoSequenced
    DEF ArchiveSave, SaveFails, Installing, InstallSteps, UninstallSteps,
        Sequenced
  <2> QED BY <1>11, <2>1, <2>2, <2>3, <2>4, <2>5, <2>6
<1>12. CASE SwapSave
  <2>1. DiskOK' BY <1>12 DEF DiskOK, SwapSave, Incoming, TakenAs
  <2>2. StateOK' BY <1>12 DEF StateOK, SwapSave
  <2>3. CallOK' BY <1>12 DEF SwapSave, Steps, SaveFails
  <2>4. HistoryOK' BY <1>12 DEF SwapSave, HistoryOK
  <2>5. Filed'
    BY <1>12
    DEF SwapSave, DiskOK, Filed, Goto, SaveFails, Installing, tab, Steps
  <2>6. Sequenced' /\ Asked'
    BY <1>12, ReturnSequenced, GotoSequenced
    DEF SwapSave, SaveFails, Installing, InstallSteps, UninstallSteps,
        Sequenced
  <2> QED BY <1>12, <2>1, <2>2, <2>3, <2>4, <2>5, <2>6
<1>13. CASE SyncCloud
  <2>1. DiskOK' BY <1>13 DEF DiskOK, SyncCloud
  <2>2. StateOK' BY <1>13 DEF StateOK, SyncCloud
  <2>3. CallOK' BY <1>13 DEF SyncCloud, Steps
  <2>4. HistoryOK' BY <1>13 DEF SyncCloud, HistoryOK
  <2>5. Filed'
    BY <1>13 DEF SyncCloud, DiskOK, Filed, Goto, Installing, tab, Steps
  <2>6. Sequenced' /\ Asked'
    BY <1>13
    DEF SyncCloud, Sequenced, Asked, Goto, Installing, InstallSteps,
        UninstallSteps, tab
  <2> QED BY <1>13, <2>1, <2>2, <2>3, <2>4, <2>5, <2>6
<1>14. CASE RecordInstall
  <2>1. DiskOK' BY <1>14 DEF DiskOK, RecordInstall
  <2>a. [l \in Langs |-> IF l \in task.langs /\ before.texts[l] # tab
                          THEN before.texts[l] ELSE NoRecord]
          \in [Langs -> Owners \cup {NoRecord}]
    OBVIOUS
  <2>2. StateOK'
    BY <1>14, <2>a DEF StateOK, RecordInstall, DiskOK, Asked, Installing
  <2>3. CallOK' BY <1>14 DEF RecordInstall, Steps
  <2>4. HistoryOK' BY <1>14 DEF RecordInstall, HistoryOK
  <2>5. Filed' BY <1>14 DEF RecordInstall, Filed
  <2>6. Sequenced' /\ Asked'
    BY <1>14
    DEF RecordInstall, Sequenced, Asked, Return, NoTask, Installing,
        InstallSteps, UninstallSteps, tab
  <2> QED BY <1>14, <2>1, <2>2, <2>3, <2>4, <2>5, <2>6
<1>15. CASE UndoCredit
  <2>1. DiskOK' BY <1>15 DEF DiskOK, UndoCredit
  <2>2. StateOK' BY <1>15 DEF StateOK, UndoCredit
  <2>3. CallOK' BY <1>15 DEF UndoCredit, Steps
  <2>4. HistoryOK' BY <1>15 DEF UndoCredit, HistoryOK
  <2>5. Filed' BY <1>15 DEF UndoCredit, Filed, Goto, Sequenced, UninstallSteps
  <2>6. Sequenced' /\ Asked'
    BY <1>15
    DEF UndoCredit, Sequenced, Asked, Goto, InstallSteps, UninstallSteps, tab
  <2> QED BY <1>15, <2>1, <2>2, <2>3, <2>4, <2>5, <2>6
<1>16. CASE UndoUri
  <2>1. DiskOK' BY <1>16 DEF DiskOK, UndoUri
  <2>2. StateOK' BY <1>16 DEF StateOK, UndoUri
  <2>3. CallOK' BY <1>16 DEF UndoUri, Steps
  <2>4. HistoryOK' BY <1>16 DEF UndoUri, HistoryOK
  <2>5. Filed'
    BY <1>16 DEF UndoUri, DiskOK, Filed, Goto, Installing, tab, Steps
  <2>6. Sequenced' /\ Asked'
    BY <1>16
    DEF UndoUri, Sequenced, Asked, Goto, Installing, InstallSteps,
        UninstallSteps, tab
  <2> QED BY <1>16, <2>1, <2>2, <2>3, <2>4, <2>5, <2>6
<1>17. CASE UndoBindings
  <2>1. DiskOK' BY <1>17 DEF DiskOK, UndoBindings
  <2>2. StateOK' BY <1>17 DEF StateOK, UndoBindings
  <2>3. CallOK' BY <1>17 DEF UndoBindings, Steps
  <2>4. HistoryOK' BY <1>17 DEF UndoBindings, HistoryOK
  <2>5. Filed' BY <1>17 DEF UndoBindings, Filed, Goto
  <2>6. Sequenced' /\ Asked'
    BY <1>17
    DEF UndoBindings, Sequenced, Asked, Goto, InstallSteps, UninstallSteps, tab
  <2> QED BY <1>17, <2>1, <2>2, <2>3, <2>4, <2>5, <2>6
<1>18. CASE UndoTexts
  <2>1. DiskOK' BY <1>18 DEF DiskOK, UndoTexts
  <2>2. StateOK' BY <1>18 DEF StateOK, UndoTexts
  <2>3. CallOK' BY <1>18 DEF UndoTexts, Steps
  <2>4. HistoryOK' BY <1>18 DEF UndoTexts, HistoryOK
  <2>5. Filed' BY <1>18 DEF UndoTexts, Filed, Goto
  <2>6. Sequenced' /\ Asked'
    BY <1>18
    DEF UndoTexts, Sequenced, Asked, Goto, InstallSteps, UninstallSteps, tab
  <2> QED BY <1>18, <2>1, <2>2, <2>3, <2>4, <2>5, <2>6
<1>19. CASE UndoPalettes
  <2>1. DiskOK' BY <1>19 DEF DiskOK, UndoPalettes
  <2>2. StateOK' BY <1>19 DEF StateOK, UndoPalettes
  <2>3. CallOK' BY <1>19 DEF UndoPalettes, Steps
  <2>4. HistoryOK' BY <1>19 DEF UndoPalettes, HistoryOK
  <2>5. Filed' BY <1>19 DEF UndoPalettes, Filed, Goto
  <2>i. task.kind = "install"
    BY <1>19 DEF UndoPalettes, Sequenced, UninstallSteps
  <2>6. Sequenced' /\ Asked'
    BY <1>19, <2>i, ReturnSequenced, RollbackSequenced, GotoSequenced
    DEF UndoPalettes, InstallSteps, Asked, Sequenced, tab
  <2> QED BY <1>19, <2>1, <2>2, <2>3, <2>4, <2>5, <2>6
<1>20. CASE PointBack
  <2>1. DiskOK' BY <1>20 DEF DiskOK, PointBack
  <2>2. StateOK' BY <1>20 DEF StateOK, PointBack
  <2>3. CallOK' BY <1>20 DEF PointBack, Steps
  <2>4. HistoryOK' BY <1>20 DEF PointBack, HistoryOK
  <2>5. Filed' BY <1>20 DEF PointBack, DiskOK, Filed, Goto, tab, Steps
  <2>6. Sequenced' /\ Asked'
    BY <1>20
    DEF PointBack, Sequenced, Asked, Goto, InstallSteps, UninstallSteps, tab
  <2> QED BY <1>20, <2>1, <2>2, <2>3, <2>4, <2>5, <2>6
<1>21. CASE RestoreCredit
  <2>1. DiskOK' BY <1>21 DEF DiskOK, RestoreCredit
  <2>2. StateOK' BY <1>21 DEF StateOK, RestoreCredit
  <2>3. CallOK' BY <1>21 DEF RestoreCredit, Steps
  <2>4. HistoryOK' BY <1>21 DEF RestoreCredit, HistoryOK
  <2>5. Filed' BY <1>21 DEF RestoreCredit, DiskOK, Filed, Goto, tab, Steps
  <2>6. Sequenced' /\ Asked'
    BY <1>21
    DEF RestoreCredit, Sequenced, Asked, Goto, InstallSteps, UninstallSteps,
        tab
  <2> QED BY <1>21, <2>1, <2>2, <2>3, <2>4, <2>5, <2>6
<1>22. CASE UndoSave
  <2>a. archive[tab] \in Saves BY <1>22 DEF UndoSave, Filed
  <2>1. DiskOK' BY <1>22, <2>a DEF DiskOK, UndoSave, Saves
  <2>2. StateOK' BY <1>22 DEF StateOK, UndoSave
  <2>3. CallOK' BY <1>22 DEF UndoSave, Steps
  <2>4. HistoryOK' BY <1>22 DEF UndoSave, HistoryOK
  <2>5. Filed' BY <1>22 DEF UndoSave, Filed
  <2>6. Sequenced' /\ Asked'
    BY <1>22
    DEF UndoSave, Sequenced, Asked, Return, NoTask, InstallSteps,
        UninstallSteps, tab
  <2> QED BY <1>22, <2>1, <2>2, <2>3, <2>4, <2>5, <2>6
<1>23. CASE RestoreTexts
  <2>a. \A l \in Langs : Restored(l) \in Owners
    BY <1>23 DEF Restored, StateOK, DiskOK
  <2>1. DiskOK' BY <1>23, <2>a DEF DiskOK, RestoreTexts
  <2>2. StateOK' BY <1>23 DEF StateOK, RestoreTexts
  <2>3. CallOK' BY <1>23 DEF RestoreTexts, CallOK, Steps, Extras
  <2>4. HistoryOK' BY <1>23 DEF RestoreTexts, HistoryOK
  <2>5. Filed' BY <1>23 DEF RestoreTexts, Filed
  <2>6. Sequenced' /\ Asked'
    BY <1>23
    DEF RestoreTexts, Sequenced, Asked, InstallSteps, UninstallSteps, tab
  <2> QED BY <1>23, <2>1, <2>2, <2>3, <2>4, <2>5, <2>6
<1>24. CASE RestoreBindings
  <2>1. DiskOK' BY <1>24 DEF DiskOK, StateOK, RestoreBindings
  <2>2. StateOK' BY <1>24 DEF StateOK, RestoreBindings
  <2>3. CallOK' BY <1>24 DEF RestoreBindings, CallOK, Steps, Extras
  <2>4. HistoryOK' BY <1>24 DEF RestoreBindings, HistoryOK
  <2>5. Filed' BY <1>24 DEF RestoreBindings, Filed
  <2>6. Sequenced' /\ Asked'
    BY <1>24
    DEF RestoreBindings, Sequenced, Asked, InstallSteps, UninstallSteps, tab
  <2> QED BY <1>24, <2>1, <2>2, <2>3, <2>4, <2>5, <2>6
<1>25. CASE RemovePalettes
  <2>1. DiskOK' BY <1>25 DEF DiskOK, RemovePalettes
  <2>2. StateOK' BY <1>25 DEF StateOK, RemovePalettes
  <2>3. CallOK' BY <1>25 DEF RemovePalettes, CallOK, Steps, Extras
  <2>4. HistoryOK' BY <1>25 DEF RemovePalettes, HistoryOK
  <2>5. Filed' BY <1>25 DEF RemovePalettes, Filed
  <2>6. Sequenced' /\ Asked'
    BY <1>25
    DEF RemovePalettes, Sequenced, Asked, InstallSteps, UninstallSteps, tab
  <2> QED BY <1>25, <2>1, <2>2, <2>3, <2>4, <2>5, <2>6
<1>26. CASE RecordUninstall
  <2>1. DiskOK' BY <1>26 DEF DiskOK, RecordUninstall
  <2>2. StateOK' BY <1>26 DEF StateOK, RecordUninstall
  <2>3. CallOK' BY <1>26 DEF RecordUninstall, Steps
  <2>4. HistoryOK' BY <1>26 DEF RecordUninstall, HistoryOK
  <2>5. Filed' BY <1>26 DEF RecordUninstall, Filed
  <2>6. Sequenced' /\ Asked'
    BY <1>26
    DEF RecordUninstall, Sequenced, Asked, Return, NoTask, InstallSteps,
        UninstallSteps, tab
  <2> QED BY <1>26, <2>1, <2>2, <2>3, <2>4, <2>5, <2>6
<1>27. ASSUME NEW t \in Tabs, BeginInstall(t) PROVE TypeInv'
  <2>1. DiskOK' BY <1>27 DEF DiskOK, BeginInstall
  <2>2. StateOK' BY <1>27 DEF StateOK, BeginInstall
  <2>a. Disk \in [target : [Files -> Contents], backup : [Files -> Contents],
                      uri : Owners, credit : Owners, texts : [Langs -> Owners],
                      keys : Owners, palettes : SUBSET Tabs, live : Saves,
                      archive : [Owners -> {NoFile} \cup Saves]]
    BY <1>27 DEF Disk, DiskOK
  <2>b. task' \in Plans
    BY <1>27, <2>a, BundlesAssumption DEF BeginInstall, Plans
  <2>3. CallOK' BY <1>27, <2>b DEF BeginInstall, CallOK, StateOK, Steps
  <2>4. HistoryOK' BY <1>27 DEF BeginInstall, HistoryOK
  <2>5. Filed' BY <1>27 DEF BeginInstall, Filed
  <2>6. Sequenced' /\ Asked'
    BY <1>27
    DEF BeginInstall, Sequenced, Asked, InstallSteps, UninstallSteps, tab
  <2> QED BY <1>27, <2>1, <2>2, <2>3, <2>4, <2>5, <2>6
<1>28. ASSUME NEW t \in Tabs, BeginUninstall(t) PROVE TypeInv'
  <2>1. DiskOK' BY <1>28 DEF DiskOK, BeginUninstall
  <2>2. StateOK' BY <1>28 DEF StateOK, BeginUninstall
  <2>a. Disk \in [target : [Files -> Contents], backup : [Files -> Contents],
                      uri : Owners, credit : Owners, texts : [Langs -> Owners],
                      keys : Owners, palettes : SUBSET Tabs, live : Saves,
                      archive : [Owners -> {NoFile} \cup Saves]]
    BY <1>28 DEF Disk, DiskOK
  <2>b. task' \in Plans
    BY <1>28, <2>a, BundlesAssumption DEF BeginUninstall, MayUninstall, Plans
  <2>3. CallOK' BY <1>28, <2>b DEF BeginUninstall, MayUninstall, CallOK, StateOK, Steps
  <2>4. HistoryOK' BY <1>28 DEF BeginUninstall, MayUninstall, HistoryOK
  <2>5. Filed' BY <1>28 DEF BeginUninstall, MayUninstall, Filed
  <2>6. Sequenced' /\ Asked'
    BY <1>28
    DEF BeginUninstall, MayUninstall, Sequenced, Asked, InstallSteps, UninstallSteps, tab
  <2> QED BY <1>28, <2>1, <2>2, <2>3, <2>4, <2>5, <2>6
<1>29. ASSUME NEW t \in Tabs, Fetch(t) PROVE TypeInv'
  <2>1. DiskOK' BY <1>29 DEF DiskOK, Fetch
  <2>2. StateOK' BY <1>29 DEF StateOK, Fetch
  <2>3. CallOK' BY <1>29 DEF Fetch, CallOK, Steps, Extras
  <2>4. HistoryOK' BY <1>29 DEF Fetch, HistoryOK
  <2>5. Filed' BY <1>29 DEF Fetch, Filed
  <2>6. Sequenced' /\ Asked'
    BY <1>29 DEF Fetch, Sequenced, Asked, InstallSteps, UninstallSteps, tab
  <2> QED BY <1>29, <2>1, <2>2, <2>3, <2>4, <2>5, <2>6
<1>30. ASSUME NEW t \in Tabs, Remove(t) PROVE TypeInv'
  <2>1. DiskOK' BY <1>30 DEF DiskOK, Remove
  <2>2. StateOK' BY <1>30 DEF StateOK, Remove
  <2>3. CallOK' BY <1>30 DEF Remove, CallOK, Steps, Extras
  <2>4. HistoryOK' BY <1>30 DEF Remove, HistoryOK
  <2>5. Filed' BY <1>30 DEF Remove, Filed
  <2>6. Sequenced' /\ Asked'
    BY <1>30 DEF Remove, Sequenced, Asked, InstallSteps, UninstallSteps, tab
  <2> QED BY <1>30, <2>1, <2>2, <2>3, <2>4, <2>5, <2>6
<1>31. ASSUME NEW t \in Tabs, RefreshDigest(t) PROVE TypeInv'
  <2>1. DiskOK' BY <1>31 DEF DiskOK, RefreshDigest
  <2>2. StateOK' BY <1>31 DEF StateOK, RefreshDigest
  <2>3. CallOK' BY <1>31 DEF RefreshDigest, CallOK, Steps, Extras
  <2>4. HistoryOK' BY <1>31 DEF RefreshDigest, HistoryOK
  <2>5. Filed' BY <1>31 DEF RefreshDigest, Filed
  <2>6. Sequenced' /\ Asked'
    BY <1>31
    DEF RefreshDigest, Sequenced, Asked, InstallSteps, UninstallSteps, tab
  <2> QED BY <1>31, <2>1, <2>2, <2>3, <2>4, <2>5, <2>6
<1>32. CASE Crash
  <2>a. "palettes" \in task.put => tab \in Tabs BY <1>32 DEF Asked
  <2>1. DiskOK' BY <1>32, <2>a DEF DiskOK, Crash, TornFile, SetAside, Saves
  <2>2. StateOK' BY <1>32 DEF StateOK, Crash
  <2>3. CallOK' BY <1>32 DEF Crash, Steps
  <2>4. HistoryOK' BY <1>32 DEF Crash, HistoryOK
  <2>5. Filed' BY <1>32 DEF Crash, Filed
  <2>6. Sequenced' /\ Asked'
    BY <1>32
    DEF Crash, Sequenced, Asked, Return, NoTask, InstallSteps, UninstallSteps,
        tab
  <2> QED BY <1>32, <2>1, <2>2, <2>3, <2>4, <2>5, <2>6
<1>33. CASE Play
  <2>a. <<uri, played[uri] + 1>> \in Events
    BY <1>33, MaxPlayAssumption DEF Play, Events, HistoryOK, DiskOK
  <2>1. DiskOK' BY <1>33, <2>a DEF DiskOK, Play, Saves
  <2>2. StateOK' BY <1>33 DEF StateOK, Play
  <2>3. CallOK' BY <1>33 DEF Play, CallOK, Steps, Extras
  <2>4. HistoryOK' BY <1>33, MaxPlayAssumption DEF Play, HistoryOK, DiskOK
  <2>5. Filed' BY <1>33 DEF Play, Filed
  <2>6. Sequenced' /\ Asked'
    BY <1>33 DEF Play, Sequenced, Asked, InstallSteps, UninstallSteps, tab
  <2> QED BY <1>33, <2>1, <2>2, <2>3, <2>4, <2>5, <2>6
<1>34. CASE UNCHANGED vars
  BY <1>34
  DEF DiskOK, StateOK, CallOK, HistoryOK, Sequenced, Asked, Filed, tab, vars
<1> HIDE DEF TypeInv
<1> QED
  BY <1>1, <1>2, <1>3, <1>4, <1>5, <1>6, <1>7, <1>8, <1>9, <1>10, <1>11,
     <1>12, <1>13, <1>14, <1>15, <1>16, <1>17, <1>18, <1>19, <1>20, <1>21,
     <1>22, <1>23, <1>24, <1>25, <1>26, <1>27, <1>28, <1>29, <1>30, <1>31,
     <1>32, <1>33, <1>34 DEF Next, Step

(* Whatever tabs, files and troubles the constants allow, every call of     *)
(* tab_install and tab_uninstall keeps the disk, the state file and the     *)
(* call's own variables in their ranges.                                    *)
THEOREM TypeCorrect == Spec => []TypeOK
<1>1. TypeInv => TypeOK BY DEF TypeInv
<1> QED BY <1>1, TypeInit, TypeNext, PTL DEF Spec

(***************************************************************************)
(* The level files.                                                         *)
(***************************************************************************)

(* No newer digest changes a tab's file list, and no older installer left   *)
(* its tab behind. What happens otherwise is for TLC.                       *)
Steady == Troubles \cap {"digest", "legacy"} = {}

(* Troubles are remembered,                                                 *)
LEMMA TroublesGrow == ASSUME [Next]_vars PROVE troubles \subseteq troubles'
BY DEF Next, Step, vars, Smooth, UndoWrite, Meets, RenameAside, WriteCopy,
       UndoFile, RestoreFile, PutBack, PutPalettes, PutTexts, PutBindings,
       PointAtTab, ChangeCredit, ArchiveSave, SwapSave, SyncCloud,
       RecordInstall, UndoCredit, UndoUri, UndoBindings, UndoTexts,
       UndoPalettes, PointBack, RestoreCredit, UndoSave, RestoreTexts,
       RestoreBindings, RemovePalettes, RecordUninstall, BeginInstall,
       BeginUninstall, MayUninstall, Fetch, Remove, Play, Crash, RefreshDigest

(* so what is unbroken after a step was unbroken before it, and no step was *)
(* one that breaks it.                                                      *)
LEMMA UnbrokenBefore ==
  ASSUME [Next]_vars, Unbroken'
  PROVE  /\ Unbroken /\ ~Meets("undo") /\ ~Crash
         /\ \A t \in Tabs : ~RefreshDigest(t)
<1>1. \A x \in {"crash", "undo", "digest", "legacy"} : x \notin troubles'
  BY DEF Unbroken
<1> QED BY <1>1, TroublesGrow DEF Unbroken, Meets, Crash, RefreshDigest

(* An install that gives up, with its files as its plan says and the others *)
(* untouched, leaves them to rollback() or has nothing to roll back.        *)
LEMMA RollbackFiles ==
  ASSUME TypeInv, FilesKept, task.kind = "install",
         pc \in {"rename", "write", "palettes", "undo palettes"},
         Rollback, UNCHANGED <<uri, listed>>,
         \A f \in done : target'[f] = target[f] /\ backup'[f] = backup[f],
         \A f \in Files \ done : Clear(f)'
  PROVE  IdleFiles' /\ InstallFiles' /\ UninstallFiles'
<1>1. /\ tab \in Tabs /\ before.uri = Vanilla
      /\ todo \cap done = {} /\ todo \cup done \subseteq listed[tab]
      /\ \A f \in done : target[f] = tab /\ backup[f] = Vanilla
      /\ uri = Vanilla
  BY DEF FilesKept, InstallFiles
<1>2. CASE done = {} /\ Return
  <2>1. \A f \in Files : Clear(f)' BY <1>2
  <2>2. listed \in [Tabs -> SUBSET Files] BY DEF TypeInv, TypeOK, StateOK
  <2>3. IdleFiles' BY <1>1, <2>1, <2>2 DEF IdleFiles, Clear
  <2> QED BY <1>2, <2>3 DEF Return, InstallFiles, UninstallFiles
<1>3. CASE Goto("undo files")
  <2>1. pc' = "undo files" /\ UNCHANGED <<task, todo, done, before, tab>>
    BY <1>3 DEF Goto, call, before, tab
  <2>2. InstallFiles' BY <1>1, <2>1 DEF InstallFiles
  <2> QED BY <2>1, <2>2 DEF IdleFiles, UninstallFiles
<1> QED BY <1>2, <1>3 DEF Rollback

(* An uninstall that gives up before its first file leaves the tab          *)
(* installed and every backup in its place.                                 *)
LEMMA UninstallGivesUp ==
  ASSUME TypeInv, FilesKept, task.kind = "uninstall", pc \in {"archive", "save", "undo save"},
         Return, UNCHANGED <<target, backup, uri, listed>>
  PROVE  IdleFiles'
<1>1. /\ tab \in Tabs /\ uri = tab /\ done = {} /\ listed[tab] \subseteq Files
  BY DEF FilesKept, UninstallFiles, TypeInv, TypeOK, StateOK
<1>2. \A f \in Files \ listed[tab] : Clear(f)'
  BY DEF FilesKept, UninstallFiles, Clear, Kept
<1>3. \A f \in listed[tab] : backup'[f] = Vanilla
  BY <1>1 DEF FilesKept, UninstallFiles
<1>4. uri' # Vanilla BY <1>1, TabsAssumption
<1> QED BY <1>1, <1>2, <1>3, <1>4 DEF IdleFiles

(* Most steps of a call leave the levels and the library's URI alone: they  *)
(* keep the files as FilesKept has them when the step they move on to asks  *)
(* no more of them than the step they leave.                                *)
Puts  == {"palettes", "texts", "bindings", "uri"}
Swaps == {"credit", "archive", "save", "cloud", "record"}

InstallMove ==
  /\ task.kind = "install"
  /\ \/ /\ pc \in Puts
        /\ pc' \in Puts \cup {"undo bindings", "undo texts", "undo palettes"}
     \/ pc \in Swaps /\ pc' \in Swaps \cup {"undo credit"}
     \/ pc = "undo credit" /\ pc' = "undo uri"
     \/ /\ pc \in {"undo bindings", "undo texts"}
        /\ pc' \in {"undo texts", "undo palettes"}

UninstallMove ==
  /\ task.kind = "uninstall"
  /\ \/ /\ pc \in {"archive", "save", "cloud"}
        /\ pc' \in {"archive", "save", "cloud", "uri"}
     \/ pc = "restore credit" /\ pc' = "restore"
     \/ /\ pc \in {"texts", "bindings", "palettes"}
        /\ pc' \in {"bindings", "palettes", "record"}

(* They keep FilesKept.                                                     *)
LEMMA QuietStep ==
  ASSUME FilesKept, troubles \subseteq troubles', InstallMove \/ UninstallMove,
         UNCHANGED <<target, backup, uri, listed, folder, task, todo, done>>
  PROVE  FilesKept'
<1>0. UNCHANGED <<tab, before>> BY DEF tab, before
<1>1. StoreListed' /\ BackupsOriginal'
  BY DEF FilesKept, StoreListed, BackupsOriginal
<1>2. IdleFiles' BY DEF InstallMove, UninstallMove, Puts, Swaps, IdleFiles
<1>3. InstallFiles'
  BY <1>0
  DEF FilesKept, InstallFiles, Clear, Kept, InstallMove, UninstallMove, Puts,
      Swaps
<1>4. UninstallFiles'
  BY <1>0
  DEF FilesKept, UninstallFiles, Clear, Kept, InstallMove, UninstallMove
<1> QED BY <1>1, <1>2, <1>3, <1>4 DEF FilesKept

(***************************************************************************)
(* Every step keeps the files as FilesKept describes them, until the        *)
(* process ends inside a call, an undo fails or a list of files changes.    *)
(***************************************************************************)
LEMMA FileNext ==
  ASSUME TypeInv, FilesKept, [Next]_vars, Unbroken'
  PROVE  FilesKept'
<1> USE DEF levels, lib, extras, saves, state, store, call, Smooth, UndoWrite,
        TypeInv, TypeOK, DiskOK, StateOK, CallOK
<1>0. troubles \subseteq troubles' BY TroublesGrow
<1>s. FilesKept /\ Unbroken /\ ~Meets("undo") BY UnbrokenBefore
<1>1. ASSUME NEW f \in Files, RenameAside(f) PROVE FilesKept'
  <2>1. StoreListed'
    BY <1>1, <1>s DEF RenameAside, StoreListed, FilesKept
  <2>i. task.kind = "install"
    BY <1>1 DEF RenameAside, Sequenced, UninstallSteps
  <2>j. /\ f \in todo \ done /\ target[f] = Vanilla /\ UNCHANGED <<listed, folder, uri>>
    BY <1>1, <2>i, <1>s DEF RenameAside, FilesKept, InstallFiles
  <2>a. CASE UNCHANGED levels /\ Rollback
    <3>1. BackupsOriginal' BY <1>1, <2>a, <1>s DEF BackupsOriginal, FilesKept
    <3>2. \A g \in Files \ done : Clear(g)'
      BY <1>1, <2>a, <2>i, <1>s
      DEF RenameAside, FilesKept, InstallFiles, Clear, Kept
    <3>3. IdleFiles' /\ InstallFiles' /\ UninstallFiles'
      BY <1>1, <2>a, <2>i, <2>j, <1>s, <1>0, <3>2, RollbackFiles
      DEF RenameAside
    <3> QED BY <1>1, <2>1, <3>1, <3>3 DEF FilesKept
  <2>b. CASE /\ backup' = [backup EXCEPT ![f] = target[f]]
             /\ target' = [target EXCEPT ![f] = NoFile]
             /\ Goto("write")
    <3>1. BackupsOriginal'
      BY <1>1, <2>b, <2>j, <1>s DEF BackupsOriginal, FilesKept
    <3>2. pc' = "write" /\ UNCHANGED <<task, todo, done, before, tab, troubles>>
      BY <1>1, <2>b DEF Goto, before, tab, RenameAside
    <3>3. \A g \in Files : g # f => target'[g] = target[g] /\ backup'[g] = backup[g]
      BY <1>1, <2>b
    <3>4. target'[f] = NoFile /\ backup'[f] = Vanilla BY <1>1, <2>b, <2>j
    <3>5. \A g \in Files \ done : Clear(g)'
      BY <1>1, <3>3, <3>4, <2>i, <1>s
      DEF RenameAside, FilesKept, InstallFiles, Clear, Kept
    <3>6. \E g \in todo : target'[g] = NoFile /\ \A h \in todo \ {g} : target'[h] = Vanilla
      BY <1>1, <2>i, <2>j, <1>s, <3>3, <3>4
      DEF RenameAside, FilesKept, InstallFiles
    <3>7. InstallFiles'
      BY <1>1, <2>i, <2>j, <1>s, <3>2, <3>3, <3>5, <3>6
      DEF RenameAside, FilesKept, InstallFiles
    <3> QED
      BY <1>1, <2>1, <3>1, <3>2, <3>7, <2>i
      DEF IdleFiles, UninstallFiles, FilesKept
  <2> QED BY <1>1, <2>a, <2>b DEF RenameAside, FilesKept
<1>2. ASSUME NEW f \in Files, WriteCopy(f) PROVE FilesKept'
  <2>1. StoreListed'
    BY <1>2, <1>s DEF WriteCopy, StoreListed, BackupsOriginal, FilesKept
  <2>5. UninstallFiles'
    BY <1>2, <1>s, <1>0
    DEF WriteCopy, Sequenced, FilesKept, UninstallFiles, Clear, Kept, Goto,
        Return, Rollback, tab, before, InstallSteps, UninstallSteps
  <2>i. task.kind = "install" BY <1>2 DEF WriteCopy, Sequenced, UninstallSteps
  <2>j. /\ f \in todo \ done /\ target[f] = NoFile /\ backup[f] = Vanilla
        /\ UNCHANGED <<listed, folder, uri>>
        /\ \A g \in todo \ {f} : target[g] = Vanilla
    BY <1>2, <2>i, <1>s, NoFileAssumption, OwnersTypes
    DEF WriteCopy, FilesKept, InstallFiles, Clear, Kept
  <2>a. CASE /\ Rollback
             /\ target' = [target EXCEPT ![f] = backup[f]]
             /\ backup' = [backup EXCEPT ![f] = NoFile]
    <3>1. /\ \A g \in Files : g # f => target'[g] = target[g] /\ backup'[g] = backup[g]
          /\ target'[f] = Vanilla /\ backup'[f] = NoFile
      BY <1>2, <2>a, <2>j
    <3>2. BackupsOriginal' BY <1>2, <3>1, <1>s DEF BackupsOriginal, FilesKept
    <3>3. \A g \in Files \ done : Clear(g)'
      BY <1>2, <3>1, <2>i, <1>s
      DEF WriteCopy, FilesKept, InstallFiles, Clear, Kept
    <3>4. IdleFiles' /\ InstallFiles' /\ UninstallFiles'
      BY <1>2, <2>a, <2>i, <2>j, <1>s, <1>0, <3>1, <3>3, RollbackFiles
      DEF WriteCopy
    <3> QED BY <1>2, <2>1, <3>2, <3>4 DEF FilesKept
  <2>b. CASE /\ target' = [target EXCEPT ![f] = tab]
             /\ todo' = todo \ {f} /\ done' = done \cup {f}
             /\ pc' = IF todo = {f} THEN "palettes" ELSE "rename"
             /\ UNCHANGED <<backup, task, left, troubles>>
    <3>1. /\ UNCHANGED <<before, tab>> /\ pc' \in {"palettes", "rename"}
          /\ (pc' = "palettes" => todo' = {})
          /\ \A g \in Files : g # f => target'[g] = target[g]
          /\ target'[f] = tab
      BY <1>2, <2>b DEF before, tab
    <3>2. InstallFiles'
      <4>1. \A g \in done' : target'[g] = tab' /\ backup'[g] = Vanilla
        BY <1>2, <2>b, <2>i, <2>j, <1>s, <3>1
        DEF WriteCopy, FilesKept, InstallFiles
      <4>2. \A g \in Files \ done' : Clear(g)'
        BY <1>2, <2>b, <2>i, <1>s, <3>1
        DEF WriteCopy, FilesKept, InstallFiles, Clear, Kept
      <4>3. /\ todo' \cap done' = {} /\ todo' \cup done' = listed'[tab']
            /\ \A g \in todo' : target'[g] = Vanilla
        BY <1>2, <2>b, <2>i, <2>j, <1>s, <3>1
        DEF WriteCopy, FilesKept, InstallFiles
      <4>4. /\ tab' \in Tabs /\ (before.uri)' = Vanilla
            /\ uri' = Vanilla
        BY <1>2, <2>b, <2>i, <2>j, <1>s, <3>1
        DEF WriteCopy, FilesKept, InstallFiles
      <4> QED BY <1>2, <3>1, <4>1, <4>2, <4>3, <4>4 DEF InstallFiles
    <3>3. BackupsOriginal' BY <2>b, <1>s DEF BackupsOriginal, FilesKept
    <3> QED BY <1>2, <2>1, <2>5, <3>1, <3>2, <3>3 DEF IdleFiles, FilesKept
  <2> QED BY <1>2, <1>s, <2>a, <2>b DEF WriteCopy, FilesKept
<1>3. ASSUME NEW f \in Files, UndoFile(f) PROVE FilesKept'
  <2>1. StoreListed' /\ BackupsOriginal'
    BY <1>3, <1>s DEF UndoFile, StoreListed, BackupsOriginal, FilesKept
  <2>i. task.kind = "install" BY <1>3 DEF UndoFile, Sequenced, UninstallSteps
  <2>j. /\ f \in done /\ f \in Files /\ target[f] = tab /\ backup[f] = Vanilla
        /\ tab \in Tabs /\ before.uri = Vanilla /\ UNCHANGED <<listed, folder, uri>>
        /\ todo \cap done = {} /\ todo \cup done \subseteq listed[tab]
        /\ \A g \in done : target[g] = tab /\ backup[g] = Vanilla
        /\ \A g \in Files \ done : Clear(g)
        /\ uri = Vanilla
    BY <1>3, <2>i, <1>s DEF UndoFile, FilesKept, InstallFiles
  <2>k. /\ \A g \in Files : g # f => target'[g] = target[g] /\ backup'[g] = backup[g]
        /\ Clear(f)'
    BY <1>3, <1>s, <2>j DEF UndoFile, Clear, Kept
  <2>a. CASE done = {f} /\ Return
    <3>1. \A g \in Files : Clear(g)' BY <1>3, <2>a, <2>j, <2>k DEF Clear, Kept
    <3>2. IdleFiles' BY <1>3, <1>0, <2>j, <3>1 DEF IdleFiles, Clear
    <3> QED
      BY <1>3, <2>a, <2>1, <3>2
      DEF Return, InstallFiles, UninstallFiles, FilesKept
  <2>b. CASE done' = done \ {f} /\ UNCHANGED <<pc, task, todo, left>>
    <3>1. UNCHANGED <<before, tab>> /\ pc' = "undo files"
      BY <1>3, <2>b DEF before, tab, UndoFile
    <3>2. \A g \in Files \ done' : Clear(g)'
      BY <1>3, <2>b, <2>j, <2>k DEF Clear, Kept
    <3>3. InstallFiles'
      BY <1>3, <1>0, <2>b, <2>j, <2>k, <3>1, <3>2 DEF InstallFiles
    <3> QED
      BY <1>3, <2>1, <2>b, <2>i, <3>1, <3>3
      DEF IdleFiles, UninstallFiles, FilesKept
  <2> QED BY <1>3, <2>a, <2>b DEF UndoFile, FilesKept
<1>4. ASSUME NEW f \in Files, RestoreFile(f) PROVE FilesKept'
  <2>1. StoreListed' /\ BackupsOriginal'
    BY <1>4, <1>s DEF RestoreFile, StoreListed, BackupsOriginal, FilesKept
  <2>3. IdleFiles'
    BY <1>4, <1>s, <1>0
    DEF RestoreFile, Sequenced, FilesKept, IdleFiles, InstallFiles,
        UninstallFiles, Clear, Kept, Goto, tab, before
  <2>4. InstallFiles'
    BY <1>4, <1>s, <1>0
    DEF RestoreFile, Sequenced, FilesKept, InstallFiles, Clear, Kept, Goto,
        tab, before, InstallSteps, UninstallSteps
  <2>i. task.kind = "uninstall"
    BY <1>4 DEF RestoreFile, Sequenced, InstallSteps
  <2>j. /\ f \in todo \ done /\ f \in listed[tab]
        /\ target[f] = before.target[f] /\ backup[f] = before.backup[f]
        /\ before.backup[f] = Vanilla
        /\ uri = Vanilla /\ todo \cap done = {} /\ todo \cup done = listed[tab]
        /\ UNCHANGED <<uri, listed, before, tab>>
    BY <1>4, <2>i, <1>s
    DEF RestoreFile, FilesKept, UninstallFiles, Goto, before, tab
  <2>a. CASE Meets("restore") /\ Goto(IF done = {} THEN "undo uri" ELSE "put back")
             /\ (UNCHANGED levels \/ ~HadBackup(f))
    <3>1. "restore" \in troubles'
      BY <1>4, <2>a DEF Meets
    <3>2. HadBackup(f)
      BY <1>4, <3>1, <1>0, <2>j, OwnersTypes, NoFileAssumption DEF HadBackup
    <3>3. UNCHANGED <<target, backup>> BY <1>4, <2>a, <3>2
    <3>4. pc' \in {"undo uri", "put back"} /\ UNCHANGED <<task, todo, done>>
          /\ (pc' = "undo uri" => done = {})
      BY <1>4, <2>a DEF Goto
    <3>5. UninstallFiles'
      BY <1>4, <3>1, <3>3, <3>4, <1>0, <2>i, <2>j, <1>s
      DEF RestoreFile, FilesKept, UninstallFiles, Clear, Kept
    <3> QED BY <1>4, <2>1, <2>3, <2>4, <3>5 DEF FilesKept
  <2>b. CASE /\ target' = [target EXCEPT ![f] = Vanilla]
             /\ backup' = [backup EXCEPT ![f] = NoFile]
             /\ todo' = todo \ {f} /\ done' = done \cup {f}
             /\ pc' = IF todo = {f} THEN "texts" ELSE "restore"
             /\ UNCHANGED <<task, left, troubles>>
    <3>1. /\ \A g \in Files : g # f => target'[g] = target[g] /\ backup'[g] = backup[g]
          /\ target'[f] = Vanilla /\ backup'[f] = NoFile
      BY <1>4, <2>b
    <3>2. \A g \in Files \ listed[tab] : Clear(g)'
      BY <1>4, <3>1, <2>i, <2>j, <1>s
      DEF RestoreFile, FilesKept, UninstallFiles, Clear, Kept
    <3>3. /\ \A g \in done' : target'[g] = Vanilla /\ backup'[g] = NoFile
          /\ \A g \in listed[tab] \ done' :
               target'[g] = before.target[g] /\ backup'[g] = before.backup[g]
      BY <1>4, <3>1, <2>b, <2>i, <1>s
      DEF RestoreFile, FilesKept, UninstallFiles
    <3>4. /\ todo' \cap done' = {} /\ todo' \cup done' = listed[tab]
          /\ pc' \in {"texts", "restore"} /\ (pc' = "texts" => todo' = {})
      BY <1>4, <2>b, <2>j
    <3>5. /\ UNCHANGED <<task, troubles>> /\ task.kind = "uninstall" /\ pc # "idle"
          /\ tab \in Tabs /\ before.uri = tab
          /\ \A g \in listed[tab] : before.backup[g] = Vanilla
      BY <1>4, <2>b, <2>i, <1>s DEF RestoreFile, FilesKept, UninstallFiles
    <3>6. UninstallFiles'
      BY <3>2, <3>3, <3>4, <3>5, <2>j DEF UninstallFiles
    <3> QED BY <1>4, <2>1, <2>3, <2>4, <3>6 DEF FilesKept
  <2>c. backup[f] = NoFile => backup = [backup EXCEPT ![f] = NoFile] OBVIOUS
  <2> QED
    BY <1>4, <2>a, <2>b, <2>c, <2>j, OwnersTypes, NoFileAssumption
    DEF RestoreFile, HadBackup, FilesKept
<1>5. ASSUME NEW f \in Files, PutBack(f) PROVE FilesKept'
  <2>1. StoreListed'
    BY <1>5, <1>s DEF PutBack, StoreListed, FilesKept
  <2>3. IdleFiles'
    BY <1>5, <1>s, <1>0
    DEF PutBack, Sequenced, FilesKept, IdleFiles, InstallFiles, UninstallFiles,
        Clear, Kept, tab, before
  <2>4. InstallFiles'
    BY <1>5, <1>s, <1>0
    DEF PutBack, Sequenced, FilesKept, InstallFiles, Clear, Kept, tab, before,
        InstallSteps, UninstallSteps
  <2>i. task.kind = "uninstall" BY <1>5 DEF PutBack, Sequenced, InstallSteps
  <2>j. /\ f \in done /\ f \in listed[tab] /\ "restore" \in troubles
        /\ before.backup[f] = Vanilla
        /\ target[f] = Vanilla /\ backup[f] = NoFile
        /\ UNCHANGED <<uri, listed, task, before, tab>>
    BY <1>5, <2>i, <1>s DEF PutBack, FilesKept, UninstallFiles, before, tab
  <2>k. UNCHANGED troubles /\ SetAside(f) /\ Rewrite(f)
    BY <1>5, <1>s DEF PutBack
  <2>l. before.backup[f] = Vanilla /\ HadBackup(f)
    BY <1>5, <1>0, <2>j, <2>k, OwnersTypes, NoFileAssumption DEF HadBackup
  <2>m. /\ \A g \in Files : g # f => target'[g] = target[g] /\ backup'[g] = backup[g]
        /\ target'[f] = before.target[f] /\ backup'[f] = Vanilla
    BY <1>5, <2>j, <2>k, <2>l DEF SetAside, Rewrite
  <2>2. BackupsOriginal' BY <1>5, <2>m, <1>s DEF BackupsOriginal, FilesKept
  <2>5. UninstallFiles'
    <3>1. \A g \in Files \ listed[tab] : Clear(g)'
      BY <1>5, <2>i, <2>j, <2>m, <1>s
      DEF PutBack, FilesKept, UninstallFiles, Clear, Kept
    <3>2. /\ \A g \in done' : target'[g] = Vanilla /\ backup'[g] = NoFile
          /\ \A g \in listed[tab] \ done' :
               target'[g] = before.target[g] /\ backup'[g] = before.backup[g]
      BY <1>5, <2>i, <2>l, <2>m, <1>s DEF PutBack, FilesKept, UninstallFiles
    <3>3. /\ todo' \cap done' = {} /\ todo' \cup done' \subseteq listed[tab]
          /\ pc' \in {"undo uri", "put back"} /\ (pc' = "undo uri" => done' = {})
      BY <1>5, <2>i, <1>s DEF PutBack, FilesKept, UninstallFiles
    <3> QED
      BY <1>5, <3>1, <3>2, <3>3, <2>i, <2>j, <2>k, <1>s
      DEF PutBack, FilesKept, UninstallFiles
  <2> QED BY <1>5, <2>1, <2>2, <2>3, <2>4, <2>5 DEF FilesKept
<1>6. CASE PutPalettes
  <2>1. /\ UNCHANGED <<target, backup, uri, listed, folder>>
        /\ pc = "palettes" /\ task.kind = "install"
    BY <1>6 DEF PutPalettes
  <2>a. CASE Goto("texts")
    <3>1. InstallMove /\ UNCHANGED <<task, todo, done>>
      BY <2>1, <2>a DEF Goto, InstallMove, Puts
    <3> QED BY <2>1, <3>1, <1>s, <1>0, QuietStep DEF FilesKept
  <2>b. CASE Rollback
    <3>1. \A f \in Files \ done : Clear(f)'
      BY <2>1, <1>s DEF FilesKept, InstallFiles, Clear, Kept
    <3>2. IdleFiles' /\ InstallFiles' /\ UninstallFiles'
      BY <2>1, <2>b, <3>1, <1>s, <1>0, RollbackFiles
    <3> QED BY <2>1, <3>2, <1>s DEF FilesKept, StoreListed, BackupsOriginal
  <2> QED BY <1>6, <2>a, <2>b DEF PutPalettes
<1>7. CASE PutTexts
  <2>1. /\ InstallMove \/ UninstallMove
        /\ UNCHANGED <<target, backup, uri, listed, folder, task, todo, done>>
    BY <1>7
    DEF PutTexts, Goto, Sequenced, InstallMove, UninstallMove, Puts, Swaps,
        InstallSteps, UninstallSteps
  <2> QED BY <1>7, <2>1, <1>s, <1>0, QuietStep
<1>8. CASE PutBindings
  <2>1. /\ InstallMove \/ UninstallMove
        /\ UNCHANGED <<target, backup, uri, listed, folder, task, todo, done>>
    BY <1>8
    DEF PutBindings, Goto, Sequenced, InstallMove, UninstallMove, Puts, Swaps,
        InstallSteps, UninstallSteps
  <2> QED BY <1>8, <2>1, <1>s, <1>0, QuietStep
<1>9. CASE PointAtTab
  <2>1. StoreListed' /\ BackupsOriginal'
    BY <1>9, <1>s DEF PointAtTab, StoreListed, BackupsOriginal, FilesKept
  <2>3. IdleFiles'
    BY <1>9, <1>s, <1>0
    DEF PointAtTab, Sequenced, FilesKept, IdleFiles, InstallFiles,
        UninstallFiles, Clear, Kept, Goto, tab, before
  <2>4. InstallFiles'
    BY <1>9, <1>s, <1>0
    DEF PointAtTab, Sequenced, FilesKept, InstallFiles, Clear, Kept, Goto, tab,
        before, InstallSteps, UninstallSteps
  <2>5. UninstallFiles'
    BY <1>9, <1>s, <1>0
    DEF PointAtTab, Sequenced, FilesKept, UninstallFiles, Clear, Kept, Goto,
        tab, before, InstallSteps, UninstallSteps
  <2> QED BY <1>9, <2>1, <2>3, <2>4, <2>5 DEF FilesKept
<1>10. CASE ChangeCredit
  <2>1. /\ InstallMove \/ UninstallMove
        /\ UNCHANGED <<target, backup, uri, listed, folder, task, todo, done>>
    BY <1>10
    DEF ChangeCredit, Goto, Sequenced, InstallMove, UninstallMove, Puts, Swaps,
        InstallSteps, UninstallSteps
  <2> QED BY <1>10, <2>1, <1>s, <1>0, QuietStep
<1>11. CASE ArchiveSave
  <2>1. UNCHANGED <<target, backup, uri, listed, folder>> /\ pc \in {"archive", "save"}
    BY <1>11 DEF ArchiveSave
  <2>a. CASE task.kind = "uninstall" /\ Return
    <3>1. IdleFiles' BY <2>1, <2>a, <1>s, <1>0, UninstallGivesUp
    <3> QED
      BY <1>11, <2>1, <2>a, <3>1, <1>s
      DEF Return, FilesKept, StoreListed, BackupsOriginal, InstallFiles,
          UninstallFiles
  <2>b. CASE ~(task.kind = "uninstall" /\ Return)
    <3>1. (InstallMove \/ UninstallMove) /\ UNCHANGED <<task, todo, done>>
      BY <1>11, <2>b
      DEF ArchiveSave, SaveFails, Installing, Goto, Sequenced, InstallMove,
          UninstallMove, Puts, Swaps, InstallSteps, UninstallSteps
    <3> QED BY <2>1, <3>1, <1>s, <1>0, QuietStep DEF FilesKept
  <2> QED BY <2>a, <2>b
<1>12. CASE SwapSave
  <2>1. UNCHANGED <<target, backup, uri, listed, folder>> /\ pc \in {"archive", "save"}
    BY <1>12 DEF SwapSave
  <2>a. CASE task.kind = "uninstall" /\ Return
    <3>1. IdleFiles' BY <2>1, <2>a, <1>s, <1>0, UninstallGivesUp
    <3> QED
      BY <1>12, <2>1, <2>a, <3>1, <1>s
      DEF Return, FilesKept, StoreListed, BackupsOriginal, InstallFiles,
          UninstallFiles
  <2>b. CASE ~(task.kind = "uninstall" /\ Return)
    <3>1. (InstallMove \/ UninstallMove) /\ UNCHANGED <<task, todo, done>>
      BY <1>12, <2>b
      DEF SwapSave, SaveFails, Installing, Goto, Sequenced, InstallMove,
          UninstallMove, Puts, Swaps, InstallSteps, UninstallSteps
    <3> QED BY <2>1, <3>1, <1>s, <1>0, QuietStep DEF FilesKept
  <2> QED BY <2>a, <2>b
<1>13. CASE SyncCloud
  <2>1. /\ InstallMove \/ UninstallMove
        /\ UNCHANGED <<target, backup, uri, listed, folder, task, todo, done>>
    BY <1>13
    DEF SyncCloud, Goto, Sequenced, InstallMove, UninstallMove, Puts, Swaps,
        InstallSteps, UninstallSteps, Installing
  <2> QED BY <1>13, <2>1, <1>s, <1>0, QuietStep
<1>14. CASE RecordInstall
  <2>1. StoreListed' /\ BackupsOriginal'
    BY <1>14, <1>s DEF RecordInstall, StoreListed, BackupsOriginal, FilesKept
  <2>3. IdleFiles'
    BY <1>14, <1>s, <1>0
    DEF RecordInstall, Sequenced, FilesKept, IdleFiles, InstallFiles,
        UninstallFiles, Clear, Kept, Return, Installing, tab, before
  <2>4. InstallFiles'
    BY <1>14, <1>s, <1>0
    DEF RecordInstall, Sequenced, FilesKept, InstallFiles, Clear, Kept, Return,
        Installing, tab, before, InstallSteps, UninstallSteps
  <2>5. UninstallFiles'
    BY <1>14, <1>s, <1>0
    DEF RecordInstall, Sequenced, FilesKept, UninstallFiles, Clear, Kept,
        Return, Installing, tab, before, InstallSteps, UninstallSteps
  <2> QED BY <1>14, <2>1, <2>3, <2>4, <2>5 DEF FilesKept
<1>15. CASE UndoCredit
  <2>1. /\ InstallMove \/ UninstallMove
        /\ UNCHANGED <<target, backup, uri, listed, folder, task, todo, done>>
    BY <1>15
    DEF UndoCredit, Goto, Sequenced, InstallMove, UninstallMove, Puts, Swaps,
        InstallSteps, UninstallSteps
  <2> QED BY <1>15, <2>1, <1>s, <1>0, QuietStep
<1>16. CASE UndoUri
  <2>1. StoreListed' /\ BackupsOriginal'
    BY <1>16, <1>s DEF UndoUri, StoreListed, BackupsOriginal, FilesKept
  <2>3. IdleFiles'
    BY <1>16, <1>s, <1>0
    DEF UndoUri, Sequenced, FilesKept, IdleFiles, InstallFiles, UninstallFiles,
        Clear, Kept, Goto, Installing, tab, before
  <2>a. CASE task.kind = "install"
    <3>1. UNCHANGED <<target, backup, listed, task, todo, done, before, tab>> /\ pc' = "undo bindings"
      BY <1>16, <2>a DEF UndoUri, Goto, Installing, before, tab
    <3>2. before.uri = Vanilla /\ uri' = before.uri
      BY <1>16, <2>a, <1>s DEF UndoUri, FilesKept, InstallFiles
    <3>3. InstallFiles'
      BY <1>16, <3>1, <3>2, <2>a, <1>s
      DEF UndoUri, FilesKept, InstallFiles, Clear, Kept
    <3> QED
      BY <1>16, <2>1, <2>3, <3>1, <3>3, <2>a DEF UninstallFiles, FilesKept
  <2>b. CASE task.kind = "uninstall"
    <3>1. UNCHANGED <<target, backup, listed, task, todo, done, before, tab>> /\ pc' = "undo save"
      BY <1>16, <2>b DEF UndoUri, Goto, Installing, before, tab
    <3>2. "restore" \in troubles /\ before.uri = tab
      BY <1>16, <2>b, <1>s DEF UndoUri, FilesKept, UninstallFiles
    <3>3. uri' = tab BY <1>16, <3>2, <1>s DEF UndoUri
    <3>4. UninstallFiles'
      BY <1>16, <3>1, <3>2, <3>3, <1>0, <2>b, <1>s
      DEF UndoUri, FilesKept, UninstallFiles, Clear, Kept
    <3> QED BY <1>16, <2>1, <2>3, <3>1, <3>4, <2>b DEF InstallFiles, FilesKept
  <2> QED BY <1>16, <2>a, <2>b DEF Sequenced, UndoUri, FilesKept
<1>17. CASE UndoBindings
  <2>1. /\ InstallMove \/ UninstallMove
        /\ UNCHANGED <<target, backup, uri, listed, folder, task, todo, done>>
    BY <1>17
    DEF UndoBindings, Goto, Sequenced, InstallMove, UninstallMove, Puts, Swaps,
        InstallSteps, UninstallSteps
  <2> QED BY <1>17, <2>1, <1>s, <1>0, QuietStep
<1>18. CASE UndoTexts
  <2>1. /\ InstallMove \/ UninstallMove
        /\ UNCHANGED <<target, backup, uri, listed, folder, task, todo, done>>
    BY <1>18
    DEF UndoTexts, Goto, Sequenced, InstallMove, UninstallMove, Puts, Swaps,
        InstallSteps, UninstallSteps
  <2> QED BY <1>18, <2>1, <1>s, <1>0, QuietStep
<1>19. CASE UndoPalettes
  <2>1. StoreListed' /\ BackupsOriginal'
    BY <1>19, <1>s DEF UndoPalettes, StoreListed, BackupsOriginal, FilesKept
  <2>i. task.kind = "install"
    BY <1>19 DEF UndoPalettes, Sequenced, UninstallSteps
  <2>a. \A f \in Files \ done : Clear(f)'
    BY <1>19, <2>i, <1>s DEF UndoPalettes, FilesKept, InstallFiles, Clear, Kept
  <2>3. IdleFiles' /\ InstallFiles' /\ UninstallFiles'
    BY <1>19, <1>0, <2>a, <2>i, <1>s, RollbackFiles DEF UndoPalettes
  <2> QED BY <1>19, <2>1, <2>3 DEF FilesKept
<1>20. CASE PointBack
  <2>1. StoreListed' /\ BackupsOriginal'
    BY <1>20, <1>s DEF PointBack, StoreListed, BackupsOriginal, FilesKept
  <2>3. IdleFiles'
    BY <1>20, <1>s, <1>0
    DEF PointBack, Sequenced, FilesKept, IdleFiles, InstallFiles,
        UninstallFiles, Clear, Kept, Goto, tab, before
  <2>4. InstallFiles'
    BY <1>20, <1>s, <1>0
    DEF PointBack, Sequenced, FilesKept, InstallFiles, Clear, Kept, Goto, tab,
        before, InstallSteps, UninstallSteps
  <2>5. UninstallFiles'
    <3>1. /\ UNCHANGED <<target, backup, listed, task, todo, done, before, tab>>
          /\ \/ pc' = "restore credit" /\ uri' = Vanilla
             \/ pc' = "undo save" /\ uri' = uri /\ "restore" \in troubles'
      BY <1>20 DEF PointBack, Goto, before, tab, Meets
    <3> QED
      BY <1>20, <3>1, <1>0, <1>s
      DEF PointBack, FilesKept, UninstallFiles, Clear, Kept
  <2> QED BY <1>20, <2>1, <2>3, <2>4, <2>5 DEF FilesKept
<1>21. CASE RestoreCredit
  <2>1. /\ InstallMove \/ UninstallMove
        /\ UNCHANGED <<target, backup, uri, listed, folder, task, todo, done>>
    BY <1>21
    DEF RestoreCredit, Goto, Sequenced, InstallMove, UninstallMove, Puts,
        Swaps, InstallSteps, UninstallSteps
  <2> QED BY <1>21, <2>1, <1>s, <1>0, QuietStep
<1>22. CASE UndoSave
  <2>1. StoreListed' /\ BackupsOriginal'
    BY <1>22, <1>s DEF UndoSave, StoreListed, BackupsOriginal, FilesKept
  <2>4. InstallFiles'
    BY <1>22, <1>s, <1>0
    DEF UndoSave, Sequenced, FilesKept, InstallFiles, Clear, Kept, Return, tab,
        before, InstallSteps, UninstallSteps
  <2>5. UninstallFiles'
    BY <1>22, <1>s, <1>0
    DEF UndoSave, Sequenced, FilesKept, UninstallFiles, Clear, Kept, Return,
        tab, before, InstallSteps, UninstallSteps
  <2>3. IdleFiles'
    <3>1. task.kind = "uninstall"
      BY <1>22 DEF UndoSave, Sequenced, InstallSteps
    <3> QED
      BY <1>22, <3>1, <1>0, <1>s, UninstallGivesUp DEF UndoSave, FilesKept
  <2> QED BY <1>22, <2>1, <2>3, <2>4, <2>5 DEF FilesKept
<1>23. CASE RestoreTexts
  <2>1. /\ InstallMove \/ UninstallMove
        /\ UNCHANGED <<target, backup, uri, listed, folder, task, todo, done>>
    BY <1>23
    DEF RestoreTexts, Goto, Sequenced, InstallMove, UninstallMove, Puts, Swaps,
        InstallSteps, UninstallSteps
  <2> QED BY <1>23, <2>1, <1>s, <1>0, QuietStep
<1>24. CASE RestoreBindings
  <2>1. /\ InstallMove \/ UninstallMove
        /\ UNCHANGED <<target, backup, uri, listed, folder, task, todo, done>>
    BY <1>24
    DEF RestoreBindings, Goto, Sequenced, InstallMove, UninstallMove, Puts,
        Swaps, InstallSteps, UninstallSteps
  <2> QED BY <1>24, <2>1, <1>s, <1>0, QuietStep
<1>25. CASE RemovePalettes
  <2>1. /\ InstallMove \/ UninstallMove
        /\ UNCHANGED <<target, backup, uri, listed, folder, task, todo, done>>
    BY <1>25
    DEF RemovePalettes, Goto, Sequenced, InstallMove, UninstallMove, Puts,
        Swaps, InstallSteps, UninstallSteps
  <2> QED BY <1>25, <2>1, <1>s, <1>0, QuietStep
<1>26. CASE RecordUninstall
  <2>1. StoreListed' /\ BackupsOriginal'
    BY <1>26, <1>s DEF RecordUninstall, StoreListed, BackupsOriginal, FilesKept
  <2>3. IdleFiles'
    BY <1>26, <1>s, <1>0
    DEF RecordUninstall, Sequenced, FilesKept, IdleFiles, InstallFiles,
        UninstallFiles, Clear, Kept, Return, tab, before
  <2>4. InstallFiles'
    BY <1>26, <1>s, <1>0
    DEF RecordUninstall, Sequenced, FilesKept, InstallFiles, Clear, Kept,
        Return, tab, before, InstallSteps, UninstallSteps
  <2>5. UninstallFiles'
    BY <1>26, <1>s, <1>0
    DEF RecordUninstall, Sequenced, FilesKept, UninstallFiles, Clear, Kept,
        Return, tab, before, InstallSteps, UninstallSteps
  <2> QED BY <1>26, <2>1, <2>3, <2>4, <2>5 DEF FilesKept
<1>27. ASSUME NEW t \in Tabs, BeginInstall(t) PROVE FilesKept'
  <2>1. StoreListed' /\ BackupsOriginal'
    BY <1>27, <1>s DEF BeginInstall, StoreListed, BackupsOriginal, FilesKept
  <2>3. IdleFiles'
    BY <1>27, <1>s, <1>0
    DEF BeginInstall, Sequenced, FilesKept, IdleFiles, InstallFiles,
        UninstallFiles, Clear, Kept, tab, before
  <2>5. UninstallFiles'
    BY <1>27, <1>s, <1>0
    DEF BeginInstall, Sequenced, FilesKept, UninstallFiles, Clear, Kept, tab,
        before, InstallSteps, UninstallSteps
  <2>4. InstallFiles'
    <3>1. /\ pc' = "rename" /\ tab' = t /\ (before.uri)' = Vanilla /\ task'.kind = "install"
          /\ todo' = folder[t] /\ done' = {} /\ uri' = Vanilla
          /\ UNCHANGED <<target, backup, listed, troubles>>
      BY <1>27 DEF BeginInstall, tab, before, Disk
    <3>2. folder[t] = listed[t]
      BY <1>27, <1>s DEF BeginInstall, FilesKept, StoreListed
    <3>3. \A f \in Files : Clear(f)
      BY <1>27, <1>s DEF BeginInstall, FilesKept, IdleFiles
    <3>4. \A f \in listed[t] : target[f] = Vanilla
      BY <1>27, <3>2, <3>3 DEF BeginInstall, Clear
    <3> QED
      BY <1>27, <3>1, <3>2, <3>3, <3>4 DEF InstallFiles, Clear, Kept, FilesKept
  <2> QED BY <1>27, <2>1, <2>3, <2>4, <2>5 DEF FilesKept
<1>28. ASSUME NEW t \in Tabs, BeginUninstall(t) PROVE FilesKept'
  <2>1. StoreListed' /\ BackupsOriginal'
    BY <1>28, <1>s DEF BeginUninstall, MayUninstall, StoreListed, BackupsOriginal, FilesKept
  <2>3. IdleFiles'
    BY <1>28, <1>s, <1>0
    DEF BeginUninstall, MayUninstall, Sequenced, FilesKept, IdleFiles, InstallFiles,
        UninstallFiles, Clear, Kept, tab, before
  <2>4. InstallFiles'
    BY <1>28, <1>s, <1>0
    DEF BeginUninstall, MayUninstall, Sequenced, FilesKept, InstallFiles, Clear, Kept, tab,
        before, InstallSteps, UninstallSteps
  <2>5. UninstallFiles'
    <3>1. /\ pc' = "archive" /\ tab' = t /\ (before.uri)' = t /\ task'.kind = "uninstall"
          /\ (before.target)' = target /\ (before.backup)' = backup
          /\ todo' = listed[t] /\ done' = {} /\ uri = t /\ pc = "idle"
          /\ UNCHANGED <<target, backup, uri, listed, troubles>>
      BY <1>28 DEF BeginUninstall, MayUninstall, tab, before, Disk
    <3>2. \A f \in Files \ listed[t] : Clear(f)
      BY <1>28, <3>1, <1>s DEF FilesKept, IdleFiles
    <3>3. \A f \in listed[t] : backup[f] = Vanilla
      BY <1>28, <3>1, <1>s, TabsAssumption DEF FilesKept, IdleFiles
    <3> QED
      BY <1>28, <3>1, <3>2, <3>3 DEF UninstallFiles, Clear, Kept, FilesKept
  <2> QED BY <1>28, <2>1, <2>3, <2>4, <2>5 DEF FilesKept
<1>29. CASE Play \/ \E t \in Tabs : Fetch(t) \/ Remove(t)
  <2>1. /\ pc = "idle" /\ pc' = "idle" /\ UNCHANGED <<target, backup, uri, listed>>
        /\ \A t \in Tabs : folder'[t] \in {folder[t], listed[t], {}}
    BY <1>29 DEF Play, Fetch, Remove
  <2>2. StoreListed' BY <2>1, <1>s DEF FilesKept, StoreListed
  <2> QED
    BY <2>1, <2>2, <1>s, <1>0
    DEF FilesKept, BackupsOriginal, IdleFiles, InstallFiles, UninstallFiles,
        Clear, Kept
<1>30. CASE UNCHANGED vars
  <2>1. UNCHANGED <<target, backup, uri, listed, folder, pc, task, todo, done,
                    troubles, tab, before>>
    BY <1>30 DEF vars, tab, before
  <2> QED
    BY <2>1, <1>s
    DEF FilesKept, StoreListed, BackupsOriginal, IdleFiles, InstallFiles,
        UninstallFiles, Clear, Kept
<1> QED
  BY <1>1, <1>2, <1>3, <1>4, <1>5, <1>6, <1>7, <1>8, <1>9, <1>10, <1>11, <1>12,
     <1>13, <1>14, <1>15, <1>16, <1>17, <1>18, <1>19, <1>20, <1>21, <1>22,
     <1>23, <1>24, <1>25, <1>26, <1>27, <1>28, <1>29, <1>30, UnbrokenBefore
  DEF Next, Step

(* At first the files are as they were shipped, and nothing is under way.   *)
LEMMA FileInit == ASSUME Init PROVE FileInv
<1>1. /\ pc = "idle" /\ task = NoTask /\ todo = {} /\ done = {} /\ folder = listed
      /\ \A f \in Files : backup[f] = NoFile
  BY DEF Init
<1>2. Sequenced /\ BackupsStand BY <1>1 DEF Sequenced, BackupsStand, NoTask
<1>3. ASSUME Unbroken PROVE FilesKept
  <2>1. InitGame(Vanilla) BY <1>3 DEF Init, Unbroken
  <2>2. uri = Vanilla /\ \A f \in Files : target[f] = Vanilla
    BY <2>1 DEF InitGame
  <2> QED
    BY <1>1, <2>2
    DEF FilesKept, StoreListed, BackupsOriginal, IdleFiles, InstallFiles,
        UninstallFiles, Clear, Kept
<1> QED BY <1>2, <1>3 DEF FileInv

(***************************************************************************)
(* What every step keeps, whatever breaks.                                  *)
(***************************************************************************)
(* A step that leaves the files and the call's progress alone keeps it,     *)
LEMMA QuietStand ==
  ASSUME BackupsStand, UNCHANGED <<target, backup, task, todo, done>>,
         pc' = "put back" => "restore" \in troubles'
  PROVE  BackupsStand'
BY DEF BackupsStand, HadBackup, tab, before

(* and so does a call that ends, with nothing left to take back,            *)
LEMMA ReturnStand ==
  ASSUME Return, \A f \in Files : target'[f] = Vanilla => backup'[f] \in {Vanilla, NoFile}
  PROVE  BackupsStand'
BY DEF Return, NoTask, BackupsStand

(* and an install that gives up and still has the files it has handled.     *)
LEMMA RollbackStand ==
  ASSUME BackupsStand, task.kind = "install", Rollback,
         \A f \in done : target'[f] = target[f],
         \A f \in Files : target'[f] = Vanilla => backup'[f] \in {Vanilla, NoFile}
  PROVE  BackupsStand'
<1>1. CASE Return BY <1>1, ReturnStand
<1>2. CASE Goto("undo files") BY <1>2 DEF Goto, call, BackupsStand, tab
<1> QED BY <1>1, <1>2 DEF Rollback

(* One case for each step that touches a level file or begins a call.       *)
LEMMA StandNext ==
  ASSUME TypeInv, BackupsStand, [Next]_vars
  PROVE  BackupsStand'
<1> USE DEF levels, call, Smooth, UndoWrite
<1>t. /\ target \in [Files -> Contents] /\ backup \in [Files -> Contents] /\ Sequenced
      /\ todo \subseteq Files /\ done \subseteq Files
      /\ Vanilla # NoFile /\ Vanilla # Damaged
      /\ task.kind = "install" => tab \in Tabs /\ tab # Vanilla
  BY NoFileAssumption, TabsAssumption
  DEF TypeInv, TypeOK, DiskOK, CallOK, Asked, Owners
<1>b. \A f \in Files : target[f] = Vanilla => backup[f] \in {Vanilla, NoFile}
  BY DEF BackupsStand
<1>1. ASSUME NEW f \in Files, RenameAside(f) PROVE BackupsStand'
  <2>1. /\ task.kind = "install" /\ f \in todo \ done
        /\ \A g \in done : target[g] = tab
    BY <1>1, <1>t DEF RenameAside, Sequenced, UninstallSteps, BackupsStand
  <2>a. CASE UNCHANGED levels /\ Rollback BY <2>1, <2>a, <1>b, RollbackStand
  <2>b. CASE /\ backup' = [backup EXCEPT ![f] = target[f]]
             /\ target' = [target EXCEPT ![f] = NoFile]
             /\ Goto("write")
    <3>1. /\ target'[f] = NoFile
          /\ \A g \in Files \ {f} : target'[g] = target[g] /\ backup'[g] = backup[g]
      BY <1>t, <2>b
    <3>2. UNCHANGED <<task, todo, done, tab>> /\ pc' = "write" BY <2>b DEF Goto, tab
    <3> QED BY <1>t, <1>b, <2>1, <3>1, <3>2 DEF BackupsStand
  <2> QED BY <1>1, <2>a, <2>b DEF RenameAside
<1>2. ASSUME NEW f \in Files, WriteCopy(f) PROVE BackupsStand'
  <2>1. /\ task.kind = "install" /\ f \in todo \ done /\ target[f] = NoFile
        /\ \A g \in done : target[g] = tab
    BY <1>2, <1>t DEF WriteCopy, Sequenced, UninstallSteps, BackupsStand
  <2>a. CASE /\ Rollback
             /\ \/ /\ target' = [target EXCEPT ![f] = backup[f]]
                   /\ backup' = [backup EXCEPT ![f] = NoFile]
                \/ /\ target' \in {target, [target EXCEPT ![f] = Damaged]}
                   /\ UNCHANGED backup
    <3>1. /\ \A g \in Files \ {f} : target'[g] = target[g] /\ backup'[g] = backup[g]
          /\ target'[f] = Vanilla => backup'[f] = NoFile
      BY <1>t, <2>a, <2>1
    <3> QED BY <1>t, <1>b, <2>1, <2>a, <3>1, RollbackStand
  <2>b. CASE /\ target' = [target EXCEPT ![f] = tab]
             /\ todo' = todo \ {f} /\ done' = done \cup {f}
             /\ pc' = IF todo = {f} THEN "palettes" ELSE "rename"
             /\ UNCHANGED <<backup, task>>
    <3>1. target'[f] = tab /\ \A g \in Files \ {f} : target'[g] = target[g]
      BY <1>t, <2>b
    <3> QED BY <1>t, <1>b, <2>1, <2>b, <3>1 DEF BackupsStand, tab
  <2> QED BY <1>2, <2>a, <2>b DEF WriteCopy
<1>3. ASSUME NEW f \in Files, UndoFile(f) PROVE BackupsStand'
  <2>1. /\ task.kind = "install" /\ f \in done /\ target[f] = tab /\ pc # "put back"
        /\ \A g \in done : target[g] = tab
    BY <1>3, <1>t DEF UndoFile, Sequenced, UninstallSteps, BackupsStand
  <2>2. /\ \A g \in Files \ {f} : target'[g] = target[g] /\ backup'[g] = backup[g]
        /\ target'[f] = Vanilla => backup'[f] = NoFile
    BY <1>3, <1>t, <2>1 DEF UndoFile
  <2>a. CASE Return BY <1>b, <2>2, <2>a, ReturnStand
  <2>b. CASE done' = done \ {f} /\ UNCHANGED <<pc, task, todo>>
    BY <1>t, <1>b, <2>1, <2>2, <2>b DEF BackupsStand, tab
  <2> QED BY <1>3, <2>a, <2>b DEF UndoFile
<1>4. ASSUME NEW f \in Files, RestoreFile(f) PROVE BackupsStand'
  <2>1. /\ task.kind = "uninstall" /\ f \in todo \ done /\ UNCHANGED <<task, before>>
        /\ backup[f] = before.backup[f] /\ target[f] \in {before.target[f], Damaged}
    BY <1>4, <1>t DEF RestoreFile, Sequenced, InstallSteps, BackupsStand, Goto, before
  <2>a. CASE /\ IF HadBackup(f)
                THEN /\ target' = [target EXCEPT ![f] = backup[f]]
                     /\ backup' = [backup EXCEPT ![f] = NoFile]
                ELSE /\ target' = [target EXCEPT ![f] = Vanilla]
                     /\ UNCHANGED backup
             /\ todo' = todo \ {f} /\ done' = done \cup {f}
             /\ pc' = IF todo = {f} THEN "texts" ELSE "restore"
    <3>1. /\ \A g \in Files \ {f} : target'[g] = target[g] /\ backup'[g] = backup[g]
          /\ target'[f] = IF HadBackup(f) THEN before.backup[f] ELSE Vanilla
          /\ backup'[f] = NoFile
      BY <1>t, <2>a, <2>1 DEF HadBackup
    <3> QED BY <1>t, <1>b, <2>1, <2>a, <3>1 DEF BackupsStand, HadBackup
  <2>b. CASE /\ target' \in {target, [target EXCEPT ![f] = Damaged]}
             /\ UNCHANGED <<backup, todo, done>> /\ "restore" \in troubles'
    <3>1. /\ \A g \in Files \ {f} : target'[g] = target[g]
          /\ target'[f] \in {target[f], Damaged}
      BY <1>t, <2>b
    <3> QED BY <1>t, <1>b, <2>1, <2>b, <3>1 DEF BackupsStand, HadBackup
  <2> QED BY <1>4, <2>a, <2>b DEF RestoreFile, Goto, Meets
<1>5. ASSUME NEW f \in Files, PutBack(f) PROVE BackupsStand'
  <2>1. /\ task.kind = "uninstall" /\ f \in done \ todo
        /\ UNCHANGED <<task, todo, before>> /\ done' = done \ {f}
        /\ "restore" \in troubles' /\ backup[f] = NoFile
        /\ target[f] = IF HadBackup(f) THEN before.backup[f] ELSE Vanilla
        /\ before.target[f] = Vanilla => before.backup[f] \in {Vanilla, NoFile}
    BY <1>5, <1>t, TroublesGrow DEF PutBack, Sequenced, InstallSteps, BackupsStand, before
  <2>2. /\ \A g \in Files \ {f} : target'[g] = target[g] /\ backup'[g] = backup[g]
        /\ backup'[f] \in {NoFile, target[f]}
        /\ HadBackup(f) \/ backup'[f] = NoFile
        /\ target'[f] \in {before.target[f], Damaged, NoFile, target[f]}
        /\ target'[f] = target[f] /\ target[f] # before.target[f] => backup'[f] = NoFile \/ target[f] = NoFile \/ target[f] = Damaged
    BY <1>5, <1>t, <2>1 DEF PutBack, SetAside, Rewrite
  <2>3. target'[f] = Vanilla => backup'[f] \in {Vanilla, NoFile}
    BY <1>t, <2>1, <2>2
  <2> QED BY <1>t, <1>b, <2>1, <2>2, <2>3 DEF BackupsStand, HadBackup
<1>6. CASE Crash
  <2>1. Return BY <1>6 DEF Crash
  <2>2. ASSUME NEW f \in Files, TornFile(f)
        PROVE  \A g \in Files : target'[g] = Vanilla => backup'[g] \in {Vanilla, NoFile}
    BY <1>b, <1>t, <2>2 DEF TornFile, SetAside
  <2> QED BY <1>6, <1>b, <2>1, <2>2, ReturnStand DEF Crash
<1>7. CASE \/ PutPalettes \/ ArchiveSave \/ SwapSave \/ UndoPalettes \/ UndoSave
           \/ RecordInstall \/ RecordUninstall
  <2>1. UNCHANGED <<target, backup>>
    BY <1>7 DEF PutPalettes, ArchiveSave, SwapSave, UndoPalettes, UndoSave,
                RecordInstall, RecordUninstall
  <2>2. Return \/ (UNCHANGED <<task, todo, done>> /\ pc' # "put back")
    BY <1>7 DEF PutPalettes, ArchiveSave, SwapSave, UndoPalettes, UndoSave,
                RecordInstall, RecordUninstall, SaveFails, Goto, Rollback
  <2> QED BY <1>b, <2>1, <2>2, ReturnStand, QuietStand
<1>8. ASSUME NEW t \in Tabs, BeginInstall(t) \/ BeginUninstall(t) PROVE BackupsStand'
  <2>1. /\ UNCHANGED <<target, backup>> /\ done' = {} /\ pc' \in {"rename", "archive"}
        /\ (before.target)' = target /\ (before.backup)' = backup
    BY <1>8 DEF BeginInstall, BeginUninstall, before, Disk
  <2> QED BY <1>b, <2>1 DEF BackupsStand
<1>9. CASE \/ PutTexts \/ PutBindings \/ PointAtTab \/ ChangeCredit \/ SyncCloud
           \/ UndoCredit \/ UndoUri \/ UndoBindings \/ UndoTexts
           \/ PointBack \/ RestoreCredit
           \/ RestoreTexts \/ RestoreBindings \/ RemovePalettes
           \/ Play \/ (\E t \in Tabs : Fetch(t) \/ Remove(t) \/ RefreshDigest(t))
           \/ UNCHANGED vars
  <2>1. UNCHANGED <<target, backup, task, todo, done>>
        /\ (pc' # "put back" \/ UNCHANGED <<pc, troubles>>)
    BY <1>9 DEF PutTexts, PutBindings, PointAtTab, ChangeCredit, SyncCloud, UndoCredit,
                UndoUri, UndoBindings, UndoTexts, PointBack, RestoreCredit,
                RestoreTexts, RestoreBindings, RemovePalettes, Goto, Play, Fetch,
                Remove, RefreshDigest, vars
  <2>2. pc' = "put back" => "restore" \in troubles' BY <2>1 DEF BackupsStand
  <2> QED BY <2>1, <2>2, QuietStand
<1> QED
  BY <1>1, <1>2, <1>3, <1>4, <1>5, <1>6, <1>7, <1>8, <1>9 DEF Next, Step

(* One step keeps FileInv.                                                  *)
LEMMA FileInvNext ==
  ASSUME TypeInv, FileInv, [Next]_vars
  PROVE  TypeInv' /\ FileInv'
<1>1. TypeInv' /\ BackupsStand' BY TypeNext, StandNext DEF FileInv
<1>2. Unbroken' => FilesKept' BY FileNext, UnbrokenBefore DEF FileInv
<1> QED BY <1>1, <1>2 DEF FileInv, TypeInv

(* The files look, step by step, as FileInv says: for any tabs and files,   *)
(* BackupsStand whatever troubles are met, FilesKept until the process ends *)
(* inside a call, an undo fails or the list of files changes.               *)
THEOREM FilesAreAsPlanned == Spec => []FileInv
<1>1. Init => TypeInv /\ FileInv BY TypeInit, FileInit
<1>2. TypeInv /\ FileInv /\ [Next]_vars => TypeInv' /\ FileInv' BY FileInvNext
<1> QED BY <1>1, <1>2, PTL DEF Spec

(* Until then each file is the game's own, or its backup is.                *)
LEMMA FilesKeptSuffices == ASSUME TypeInv, FilesKept PROVE \A f \in Files : Kept(f)
<1> SUFFICES ASSUME NEW f \in Files PROVE Kept(f) OBVIOUS
<1>1. CASE pc = "idle" BY <1>1 DEF FilesKept, IdleFiles, Clear, Kept
<1>2. CASE pc # "idle" /\ task.kind = "install"
  BY <1>2 DEF FilesKept, InstallFiles, Clear, Kept
<1>3. CASE pc # "idle" /\ task.kind = "uninstall"
  BY <1>3 DEF FilesKept, UninstallFiles, Clear, Kept
<1> QED BY <1>1, <1>2, <1>3 DEF TypeInv, Sequenced

(* install.h's promise, as far as it holds of any tabs, any files and any   *)
(* failures of the calls: at every instant each level file the game came    *)
(* with is in its folder, under its own name or with OG appended, until the *)
(* process ends inside a call, an undo fails or the list of files changes.  *)
THEOREM UnbrokenGamesKeepAll == Spec => [](Unbroken => OriginalsKept)
<1>1. Init => TypeInv /\ FileInv BY TypeInit, FileInit
<1>2. TypeInv /\ FileInv /\ [Next]_vars => TypeInv' /\ FileInv' BY FileInvNext
<1>3. TypeInv /\ FileInv => (Unbroken => OriginalsKept)
  BY FilesKeptSuffices DEF FileInv, OriginalsKept
<1> QED BY <1>1, <1>2, <1>3, PTL DEF Spec

(***************************************************************************)
(* Why the library never names a tab that is not all in place, wherever the *)
(* process ends and whatever fails: the library is redirected after the     *)
(* last level file and pointed back before the first, and an uninstall that *)
(* gives up has put back the tab's files before it names the tab again.     *)
(***************************************************************************)
Whole(t)  == \A f \in Shipped[t] : target[f] = t
Backed(t) == \A f \in Shipped[t] : backup[f] # NoFile

StoreSteady == listed = Shipped /\ \A t \in Tabs : folder[t] \in {{}, Shipped[t]}

IdleLib == pc = "idle" /\ uri # Vanilla => Whole(uri) /\ Backed(uri)

InstallLib ==
  pc # "idle" /\ task.kind = "install" =>
    /\ tab \in Tabs /\ before.uri = Vanilla
    /\ todo \cap done = {} /\ todo \cup done \subseteq Shipped[tab]
    /\ \A f \in done : target[f] = tab /\ backup[f] # NoFile
    /\ pc = "rename" => \A f \in todo : target[f] # NoFile
    /\ pc = "write" => \E g \in todo :
                         /\ target[g] = NoFile /\ backup[g] # NoFile
                         /\ \A f \in todo \ {g} : target[f] # NoFile
    /\ pc \in {"rename", "write"} => todo \cup done = Shipped[tab]
    /\ pc \in Puts \cup Swaps \cup {"undo credit", "undo uri"} => done = Shipped[tab]
    /\ uri = IF pc \in Swaps \cup {"undo credit", "undo uri"} THEN tab ELSE Vanilla

UninstallLib ==
  pc # "idle" /\ task.kind = "uninstall" =>
    /\ tab \in Tabs /\ before.uri = tab
    /\ todo \cap done = {} /\ todo \cup done \subseteq Shipped[tab]
    /\ \A f \in Shipped[tab] : before.target[f] = tab /\ before.backup[f] # NoFile
    /\ \A f \in Shipped[tab] \ done : target[f] = tab /\ backup[f] # NoFile
    /\ \A f \in done : target[f] # NoFile
    /\ pc \in {"archive", "save", "cloud", "uri", "restore credit", "undo uri",
               "undo save"} => done = {}
    /\ uri = IF pc \in {"archive", "save", "cloud", "uri", "undo save"} THEN tab ELSE Vanilla

CallLib == IdleLib /\ InstallLib /\ UninstallLib

(* What each step of a call may count on, as long as no undo has failed and *)
(* the files of the tab in place are those the digest lists.                *)
Straight == troubles \cap {"undo", "digest", "legacy"} = {}
LibInv   == /\ "digest" \notin troubles => StoreSteady
            /\ Straight => CallLib

(* At every step the tab the library names is all in place, and so are the  *)
(* backups of what it replaced.                                             *)
LEMMA NamedIsWhole ==
  ASSUME TypeInv, CallLib, uri # Vanilla
  PROVE  uri \in Tabs /\ Whole(uri) /\ Backed(uri)
<1>0. uri \in Tabs BY DEF TypeInv, TypeOK, DiskOK, Owners
<1>1. CASE pc = "idle" BY <1>0, <1>1 DEF CallLib, IdleLib
<1>2. CASE pc # "idle" /\ task.kind = "install"
  BY <1>0, <1>2 DEF CallLib, InstallLib, Whole, Backed
<1>3. CASE pc # "idle" /\ task.kind = "uninstall"
  BY <1>0, <1>3 DEF CallLib, UninstallLib, Whole, Backed
<1> QED BY <1>1, <1>2, <1>3 DEF TypeInv, Sequenced

(* So a call may return, or the process end, wherever it is.                *)
LEMMA ReturnLib ==
  ASSUME TypeInv, CallLib, Return, UNCHANGED uri,
         uri # Vanilla => UNCHANGED <<target, backup>>
  PROVE  CallLib'
<1>1. pc' = "idle" BY DEF Return
<1>2. IdleLib' BY <1>1, NamedIsWhole DEF IdleLib, Whole, Backed
<1> QED BY <1>1, <1>2 DEF CallLib, InstallLib, UninstallLib

(* An install that gives up with the files it has handled as they were.     *)
LEMMA RollbackLib ==
  ASSUME TypeInv, CallLib, Rollback, task.kind = "install",
         pc \in {"rename", "write", "palettes", "undo palettes"}, UNCHANGED uri,
         \A f \in done : target'[f] = target[f] /\ backup'[f] = backup[f]
  PROVE  CallLib'
<1>1. /\ uri = Vanilla /\ tab \in Tabs /\ before.uri = Vanilla
      /\ todo \cap done = {} /\ todo \cup done \subseteq Shipped[tab]
      /\ \A f \in done : target[f] = tab /\ backup[f] # NoFile
  BY DEF CallLib, InstallLib, Swaps
<1>2. CASE Return BY <1>1, <1>2, ReturnLib
<1>3. CASE Goto("undo files")
  <2>1. pc' = "undo files" /\ UNCHANGED <<task, todo, done, tab, before>>
    BY <1>3 DEF Goto, call, tab, before
  <2>2. InstallLib' BY <1>1, <2>1 DEF InstallLib, Puts, Swaps
  <2> QED BY <2>1, <2>2 DEF CallLib, IdleLib, UninstallLib
<1> QED BY <1>2, <1>3 DEF Rollback

(* The steps that leave the level files and the library alone.              *)
LEMMA QuietLib ==
  ASSUME CallLib, InstallMove \/ UninstallMove,
         UNCHANGED <<target, backup, uri, task, todo, done>>
  PROVE  CallLib'
<1>0. UNCHANGED <<tab, before>> BY DEF tab, before
<1>1. IdleLib' BY DEF InstallMove, UninstallMove, Puts, Swaps, IdleLib
<1>2. InstallLib'
  BY <1>0 DEF CallLib, InstallLib, InstallMove, UninstallMove, Puts, Swaps
<1>3. UninstallLib'
  BY <1>0 DEF CallLib, UninstallLib, InstallMove, UninstallMove
<1> QED BY <1>1, <1>2, <1>3 DEF CallLib

(* No step changes the store but to fetch or remove a whole download.       *)
LEMMA StoreNext ==
  ASSUME TypeInv, StoreSteady, [Next]_vars, "digest" \notin troubles'
  PROVE  StoreSteady'
<1> USE DEF levels, lib, extras, saves, state, store, call
<1>1. ASSUME NEW t \in Tabs, Fetch(t) \/ Remove(t) PROVE StoreSteady'
  BY <1>1 DEF Fetch, Remove, StoreSteady, TypeInv, TypeOK, StateOK
<1>2. ASSUME NEW t \in Tabs, RefreshDigest(t) PROVE FALSE
  BY <1>2 DEF RefreshDigest, Meets
<1>3. CASE UNCHANGED <<listed, folder>>
  BY <1>3 DEF StoreSteady
<1>4. \/ UNCHANGED <<listed, folder>>
      \/ \E t \in Tabs : Fetch(t) \/ Remove(t) \/ RefreshDigest(t)
  BY DEF Next, Step, vars, RenameAside, WriteCopy, UndoFile, RestoreFile, PutBack,
         PutPalettes, PutTexts, PutBindings, PointAtTab, ChangeCredit, ArchiveSave,
         SwapSave, SyncCloud, RecordInstall, UndoCredit, UndoUri, UndoBindings,
         UndoTexts, UndoPalettes, PointBack, RestoreCredit, UndoSave, RestoreTexts,
         RestoreBindings, RemovePalettes, RecordUninstall, BeginInstall,
         BeginUninstall, MayUninstall, Play, Crash
<1> QED BY <1>1, <1>2, <1>3, <1>4

(***************************************************************************)
(* Every step keeps CallLib while no undo fails.                            *)
(***************************************************************************)
LEMMA LibNext ==
  ASSUME TypeInv, TypeInv', StoreSteady, CallLib, [Next]_vars,
         "undo" \notin troubles'
  PROVE  CallLib'
<1> USE DEF levels, lib, extras, saves, state, store, call, Smooth, UndoWrite
<1>0. "undo" \notin troubles BY TroublesGrow
<1>t. target \in [Files -> Contents] /\ backup \in [Files -> Contents]
      /\ Sequenced /\ NoFile \notin Tabs
  BY NoFileAssumption DEF TypeInv, TypeOK, DiskOK, Owners
<1> HIDE DEF TypeInv
<1>1. ASSUME NEW f \in Files, RenameAside(f) PROVE CallLib'
  <2>i. task.kind = "install" /\ pc = "rename" /\ f \in todo \ done /\ UNCHANGED uri
    BY <1>1, <1>t DEF RenameAside, Sequenced, UninstallSteps, CallLib, InstallLib
  <2>a. CASE UNCHANGED levels /\ Rollback
    BY <2>i, <2>a, RollbackLib
  <2>b. CASE /\ backup' = [backup EXCEPT ![f] = target[f]]
             /\ target' = [target EXCEPT ![f] = NoFile]
             /\ Goto("write")
    <3>1. pc' = "write" /\ UNCHANGED <<task, todo, done, tab, before>>
      BY <2>b DEF Goto, tab, before
    <3>2. /\ target'[f] = NoFile /\ backup'[f] = target[f]
          /\ \A g \in Files \ {f} : target'[g] = target[g] /\ backup'[g] = backup[g]
      BY <1>t, <2>b
    <3>3. done \subseteq Files /\ todo \subseteq Files
      BY DEF TypeInv, TypeOK, CallOK
    <3>4. InstallLib'
      BY <2>i, <3>1, <3>2, <3>3 DEF CallLib, InstallLib, Puts, Swaps
    <3> QED BY <2>i, <3>1, <3>4 DEF CallLib, IdleLib, UninstallLib
  <2> QED BY <1>1, <2>a, <2>b DEF RenameAside
<1>2. ASSUME NEW f \in Files, WriteCopy(f) PROVE CallLib'
  <2>i. /\ task.kind = "install" /\ pc = "write" /\ f \in todo \ done /\ UNCHANGED uri
        /\ target[f] = NoFile /\ backup[f] # NoFile
        /\ \A g \in todo \ {f} : target[g] # NoFile
    BY <1>2, <1>t DEF WriteCopy, Sequenced, UninstallSteps, CallLib, InstallLib
  <2>j. done \subseteq Files /\ todo \subseteq Files
    BY DEF TypeInv, TypeOK, CallOK
  <2>a. CASE /\ Rollback
             /\ target' = [target EXCEPT ![f] = backup[f]]
             /\ backup' = [backup EXCEPT ![f] = NoFile]
    <3>1. \A g \in done : target'[g] = target[g] /\ backup'[g] = backup[g]
      BY <1>t, <2>a, <2>i, <2>j
    <3> QED BY <2>i, <2>a, <3>1, RollbackLib
  <2>b. CASE /\ target' = [target EXCEPT ![f] = tab]
             /\ todo' = todo \ {f} /\ done' = done \cup {f}
             /\ pc' = IF todo = {f} THEN "palettes" ELSE "rename"
             /\ UNCHANGED <<backup, task, left>>
    <3>1. UNCHANGED <<tab, before>> /\ pc' \in {"palettes", "rename"}
      BY <2>b DEF tab, before
    <3>2. target'[f] = tab /\ \A g \in Files \ {f} : target'[g] = target[g]
      BY <1>t, <2>b
    <3>3. InstallLib'
      BY <2>b, <2>i, <2>j, <3>1, <3>2 DEF CallLib, InstallLib, Puts, Swaps
    <3> QED BY <2>b, <2>i, <3>1, <3>3 DEF CallLib, IdleLib, UninstallLib
  <2> QED BY <1>2, <2>a, <2>b DEF WriteCopy, Meets
<1>3. ASSUME NEW f \in Files, UndoFile(f) PROVE CallLib'
  <2>i. /\ task.kind = "install" /\ pc = "undo files" /\ f \in done
        /\ UNCHANGED uri /\ uri = Vanilla
        /\ target' = [target EXCEPT ![f] = backup[f]]
        /\ backup' = [backup EXCEPT ![f] = NoFile]
    BY <1>3, <1>t DEF UndoFile, Sequenced, UninstallSteps, CallLib, InstallLib, Swaps, Meets
  <2>a. CASE Return BY <2>a, <2>i, ReturnLib
  <2>b. CASE done' = done \ {f} /\ UNCHANGED <<pc, task, todo, left>>
    <3>1. UNCHANGED <<tab, before>> BY <2>b DEF tab, before
    <3>2. \A g \in done' : target'[g] = target[g] /\ backup'[g] = backup[g]
      BY <1>t, <2>b, <2>i DEF TypeInv, TypeOK, CallOK
    <3>3. InstallLib'
      BY <2>b, <2>i, <3>1, <3>2 DEF CallLib, InstallLib, Puts, Swaps
    <3> QED BY <2>b, <2>i, <3>3 DEF CallLib, IdleLib, UninstallLib
  <2> QED BY <1>3, <2>a, <2>b DEF UndoFile
<1>4. ASSUME NEW f \in Files, RestoreFile(f) PROVE CallLib'
  <2>i. /\ task.kind = "uninstall" /\ pc = "restore" /\ f \in todo \ done
        /\ UNCHANGED <<uri, task, tab, before>> /\ uri = Vanilla
        /\ f \in Shipped[tab] /\ HadBackup(f) /\ backup[f] # NoFile
        /\ done \subseteq Files
    BY <1>4, <1>t
    DEF RestoreFile, Sequenced, InstallSteps, CallLib, UninstallLib, HadBackup, Goto,
        tab, before, TypeInv, TypeOK, CallOK
  <2>a. CASE /\ target' = [target EXCEPT ![f] = backup[f]]
             /\ backup' = [backup EXCEPT ![f] = NoFile]
             /\ todo' = todo \ {f} /\ done' = done \cup {f}
             /\ pc' = IF todo = {f} THEN "texts" ELSE "restore"
    <3>1. /\ target'[f] # NoFile
          /\ \A g \in Files \ {f} : target'[g] = target[g] /\ backup'[g] = backup[g]
          /\ Shipped[tab] \subseteq Files
      BY <1>t, <2>a, <2>i, ShippedAssumption DEF CallLib, UninstallLib
    <3>2. UninstallLib'
      BY <2>a, <2>i, <3>1 DEF CallLib, UninstallLib
    <3> QED BY <2>a, <2>i, <3>2 DEF CallLib, IdleLib, InstallLib
  <2>b. CASE UNCHANGED levels /\ Goto(IF done = {} THEN "undo uri" ELSE "put back")
    <3>1. UninstallLib' BY <2>b, <2>i DEF Goto, CallLib, UninstallLib
    <3> QED BY <2>b, <2>i, <3>1 DEF Goto, CallLib, IdleLib, InstallLib
  <2> QED BY <1>4, <2>a, <2>b, <2>i DEF RestoreFile
<1>5. ASSUME NEW f \in Files, PutBack(f) PROVE CallLib'
  <2>i. /\ task.kind = "uninstall" /\ pc = "put back" /\ f \in done
        /\ UNCHANGED <<uri, task, todo, tab, before>> /\ uri = Vanilla
        /\ f \in Shipped[tab] /\ before.target[f] = tab /\ target[f] # NoFile
        /\ Shipped[tab] \subseteq Files
        /\ backup' = [backup EXCEPT ![f] = target[f]]
        /\ target' = [target EXCEPT ![f] = before.target[f]]
        /\ done' = done \ {f}
        /\ pc' = IF done = {f} THEN "undo uri" ELSE "put back"
    BY <1>5, <1>t, ShippedAssumption
    DEF PutBack, SetAside, Rewrite, HadBackup, Meets, Sequenced, InstallSteps, CallLib,
        UninstallLib, tab, before
  <2>1. /\ target'[f] = tab /\ backup'[f] # NoFile
        /\ \A g \in Files \ {f} : target'[g] = target[g] /\ backup'[g] = backup[g]
    BY <1>t, <2>i
  <2>2. UninstallLib' BY <2>i, <2>1 DEF CallLib, UninstallLib
  <2> QED BY <2>i, <2>2 DEF CallLib, IdleLib, InstallLib
<1>6. CASE PointAtTab
  <2>1. task.kind = "install" /\ UNCHANGED <<target, backup, task, todo, done, tab, before>>
        /\ pc = "uri"
        /\ \/ uri' = tab /\ pc' = "credit"
           \/ uri' = uri /\ pc' = "undo bindings"
    BY <1>6 DEF PointAtTab, Goto, tab, before
  <2>2. InstallLib' BY <2>1 DEF CallLib, InstallLib, Puts, Swaps
  <2> QED BY <2>1, <2>2 DEF CallLib, IdleLib, UninstallLib
<1>7. CASE UndoUri
  <2>1. UNCHANGED <<target, backup, task, todo, done, tab, before>> /\ pc = "undo uri"
        /\ uri' = before.uri
        /\ pc' = IF task.kind = "install" THEN "undo bindings" ELSE "undo save"
    BY <1>7 DEF UndoUri, Goto, Installing, Meets, tab, before
  <2>2. InstallLib' BY <2>1 DEF CallLib, InstallLib, Puts, Swaps
  <2>3. UninstallLib' BY <2>1 DEF CallLib, UninstallLib
  <2> QED BY <2>1, <2>2, <2>3 DEF CallLib, IdleLib
<1>8. CASE PointBack
  <2>1. task.kind = "uninstall" /\ UNCHANGED <<target, backup, task, todo, done, tab, before>>
        /\ pc = "uri"
        /\ \/ uri' = Vanilla /\ pc' = "restore credit"
           \/ uri' = uri /\ pc' = "undo save"
    BY <1>8 DEF PointBack, Goto, tab, before
  <2>2. UninstallLib' BY <2>1 DEF CallLib, UninstallLib
  <2> QED BY <2>1, <2>2 DEF CallLib, IdleLib, InstallLib
<1>9. CASE RecordInstall \/ RecordUninstall \/ UndoSave
  BY <1>9, ReturnLib DEF RecordInstall, RecordUninstall, UndoSave
<1>10. CASE ArchiveSave \/ SwapSave
  <2>1. UNCHANGED <<target, backup, uri>> BY <1>10 DEF ArchiveSave, SwapSave
  <2>a. CASE Return BY <2>1, <2>a, ReturnLib
  <2>b. CASE ~Return
    <3>1. (InstallMove \/ UninstallMove) /\ UNCHANGED <<task, todo, done>>
      BY <1>10, <1>t, <2>b
      DEF ArchiveSave, SwapSave, SaveFails, Installing, Goto, Sequenced, InstallMove,
          UninstallMove, Puts, Swaps, InstallSteps, UninstallSteps
    <3> QED BY <2>1, <3>1, QuietLib
  <2> QED BY <2>a, <2>b
<1>11. CASE PutPalettes \/ UndoPalettes
  <2>1. /\ UNCHANGED <<target, backup, uri>> /\ task.kind = "install"
        /\ pc \in {"palettes", "undo palettes"}
    BY <1>11, <1>t DEF PutPalettes, UndoPalettes, Sequenced, UninstallSteps
  <2>a. CASE Rollback BY <2>1, <2>a, RollbackLib
  <2>b. CASE ~Rollback
    <3>1. InstallMove /\ UNCHANGED <<task, todo, done>>
      BY <1>11, <2>1, <2>b DEF PutPalettes, UndoPalettes, Goto, InstallMove, Puts
    <3> QED BY <2>1, <3>1, QuietLib
  <2> QED BY <2>a, <2>b
<1>12. CASE \/ PutTexts \/ PutBindings \/ ChangeCredit \/ SyncCloud \/ UndoCredit
            \/ UndoBindings \/ UndoTexts \/ RestoreCredit \/ RestoreTexts
            \/ RestoreBindings \/ RemovePalettes
  <2>1. UNCHANGED <<target, backup, uri, task, todo, done>>
    BY <1>12
    DEF PutTexts, PutBindings, ChangeCredit, SyncCloud, UndoCredit, UndoBindings,
        UndoTexts, RestoreCredit, RestoreTexts, RestoreBindings, RemovePalettes, Goto
  <2>2. InstallMove \/ UninstallMove
    BY <1>12, <1>t
    DEF PutTexts, PutBindings, ChangeCredit, SyncCloud, UndoCredit, UndoBindings,
        UndoTexts, RestoreCredit, RestoreTexts, RestoreBindings, RemovePalettes, Goto,
        Installing, Sequenced, InstallMove, UninstallMove, Puts, Swaps, InstallSteps,
        UninstallSteps
  <2> QED BY <2>1, <2>2, QuietLib
<1>13. ASSUME NEW t \in Tabs, BeginInstall(t) PROVE CallLib'
  <2>1. /\ pc' = "rename" /\ tab' = t /\ (before.uri)' = Vanilla /\ task'.kind = "install"
        /\ todo' = Shipped[t] /\ done' = {} /\ uri' = Vanilla
        /\ \A f \in Shipped[t] : target'[f] # NoFile
    BY <1>13 DEF BeginInstall, StoreSteady, tab, before, Disk
  <2>2. InstallLib' BY <2>1 DEF InstallLib, Puts, Swaps
  <2> QED BY <2>1, <2>2 DEF CallLib, IdleLib, UninstallLib
<1>14. ASSUME NEW t \in Tabs, BeginUninstall(t) PROVE CallLib'
  <2>1. /\ pc' = "archive" /\ tab' = t /\ (before.uri)' = t /\ task'.kind = "uninstall"
        /\ (before.target)' = target /\ (before.backup)' = backup
        /\ todo' = Shipped[t] /\ done' = {} /\ uri = t
        /\ UNCHANGED <<target, backup, uri>>
    BY <1>14 DEF BeginUninstall, MayUninstall, StoreSteady, tab, before, Disk
  <2>2. Whole(t) /\ Backed(t) BY <2>1, NamedIsWhole, TabsAssumption
  <2>3. UninstallLib' BY <2>1, <2>2 DEF UninstallLib, Whole, Backed
  <2> QED BY <2>1, <2>3 DEF CallLib, IdleLib, InstallLib
<1>15. CASE Crash
  <2>1. Return /\ UNCHANGED uri BY <1>15 DEF Crash
  <2>2. uri # Vanilla => UNCHANGED <<target, backup>>
    BY <1>15, <1>t
    DEF Crash, TornFile, Sequenced, InstallSteps, UninstallSteps, CallLib, InstallLib,
        UninstallLib, Swaps
  <2> QED BY <2>1, <2>2, ReturnLib
<1>16. CASE Play \/ (\E t \in Tabs : Fetch(t) \/ Remove(t) \/ RefreshDigest(t))
            \/ UNCHANGED vars
  <2>1. UNCHANGED <<target, backup, uri, pc, task, todo, done, tab, before>>
    BY <1>16 DEF Play, Fetch, Remove, RefreshDigest, vars, tab, before
  <2> QED BY <2>1 DEF CallLib, IdleLib, InstallLib, UninstallLib, Whole, Backed
<1> QED
  BY <1>1, <1>2, <1>3, <1>4, <1>5, <1>6, <1>7, <1>8, <1>9, <1>10, <1>11, <1>12,
     <1>13, <1>14, <1>15, <1>16
  DEF Next, Step

(* A game nothing was ever done to names no tab.                            *)
LEMMA LibInit == ASSUME Init PROVE LibInv
<1>1. pc = "idle" /\ listed = Shipped /\ folder = Shipped /\ (Straight => uri = Vanilla)
  BY DEF Init, InitGame, Straight
<1> QED BY <1>1 DEF LibInv, StoreSteady, CallLib, IdleLib, InstallLib, UninstallLib

(* One step keeps it all: the store, and CallLib while things are straight. *)
LEMMA LibInvNext ==
  ASSUME TypeInv, LibInv, [Next]_vars
  PROVE  LibInv'
<1>1. TypeInv' BY TypeNext
<1>2. ASSUME "digest" \notin troubles' PROVE StoreSteady /\ StoreSteady'
  <2>1. StoreSteady BY <1>2, TroublesGrow DEF LibInv
  <2> QED BY <1>2, <2>1, StoreNext
<1>3. ASSUME Straight' PROVE CallLib'
  <2>1. \A x \in {"undo", "digest", "legacy"} : x \notin troubles'
    BY <1>3 DEF Straight
  <2>2. Straight BY <2>1, TroublesGrow DEF Straight
  <2> QED BY <1>1, <1>2, <2>1, <2>2, LibNext DEF LibInv
<1> QED BY <1>2, <1>3 DEF LibInv

(* Where the instance allows no such change, the lists stay as they were.   *)
LEMMA SteadyIsStraight ==
  ASSUME Steady, TypeInv, LibInv
  PROVE  StoreSteady /\ ("undo" \notin troubles => CallLib)
BY DEF Steady, TypeInv, TypeOK, HistoryOK, LibInv, Straight

(* The library names a tab only beside every level it was installed with,   *)
(* at every instant, a crash's included, for any tabs and files, whatever   *)
(* fails but an undo.                                                       *)
THEOREM LibraryIsHonest == Steady => (Spec => []LibraryHonest)
<1> SUFFICES ASSUME Steady PROVE Spec => []LibraryHonest OBVIOUS
<1>1. Init => TypeInv /\ LibInv BY TypeInit, LibInit
<1>2. TypeInv /\ LibInv /\ [Next]_vars => TypeInv' /\ LibInv'
  BY TypeNext, LibInvNext
<1>3. TypeInv /\ LibInv => LibraryHonest
  BY NamedIsWhole, SteadyIsStraight DEF LibraryHonest, Whole
<1> QED BY <1>1, <1>2, <1>3, PTL DEF Spec

(***************************************************************************)
(* What can take the last copy of a level file. A rollback cannot: it moves *)
(* only backups, and what it does not move stays (BackupsStand). Nor can an *)
(* uninstall that fails, or the end of the process, as long as every file   *)
(* the uninstall lists has its backup (CallLib). An install can, where it   *)
(* finds a tab's file for the game's own; that needs a trouble (FilesKept). *)
(***************************************************************************)
(* What an undo, a crash or a changed list has not loosened.                *)
Fastened == \/ troubles \cap {"undo", "digest"} = {}
            \/ troubles \cap {"crash", "restore"} = {}

(* One case for each step that touches a level file.                        *)
LEMMA StayNext ==
  ASSUME TypeInv, FileInv, LibInv, [Next]_vars,
         "legacy" \notin troubles', Fastened',
         NEW f \in Files, Kept(f)
  PROVE  Kept(f)' \/ Overwritten(f)
<1> USE DEF levels, call, Smooth, UndoWrite
<1>t. /\ target \in [Files -> Contents] /\ backup \in [Files -> Contents] /\ Sequenced
      /\ todo \subseteq Files /\ done \subseteq Files
      /\ Vanilla # NoFile /\ Vanilla # Damaged
      /\ task.kind = "install" => tab \in Tabs /\ tab # Vanilla
      /\ BackupsStand /\ troubles \subseteq troubles'
  BY NoFileAssumption, TabsAssumption, TroublesGrow
  DEF TypeInv, TypeOK, DiskOK, CallOK, Asked, Owners, FileInv
<1>c. ASSUME {"crash", "restore"} \cap troubles' # {}
      PROVE  "undo" \notin troubles' /\ CallLib
  <2>1. \A x \in {"undo", "digest", "legacy"} : x \notin troubles'
    BY <1>c DEF Fastened
  <2> QED BY <1>t, <2>1 DEF LibInv, Straight
<1>o. ASSUME UNCHANGED <<target[f], backup[f]>> PROVE Kept(f)' BY <1>o DEF Kept
<1>1. ASSUME NEW g \in Files, RenameAside(g), g = f PROVE Kept(f)' \/ Overwritten(f)
  <2>1. pc = "rename" /\ f \in todo /\ task.kind = "install" /\ UNCHANGED troubles
    BY <1>1, <1>t DEF RenameAside, Sequenced, UninstallSteps
  <2>2. target[f] = Vanilla \/ Overwritten(f)
    <3>1. ASSUME troubles \cap {"crash", "undo", "digest"} = {} PROVE target[f] = Vanilla
      <4>1. Unbroken BY <1>t, <3>1 DEF Unbroken
      <4> QED BY <2>1, <4>1 DEF FileInv, FilesKept, InstallFiles
    <3> QED BY <2>1, <3>1 DEF Overwritten
  <2> QED BY <1>1, <1>t, <2>2 DEF RenameAside, Kept
<1>2. ASSUME NEW g \in Files, WriteCopy(g), g = f PROVE Kept(f)'
  <2>1. target[f] = NoFile /\ backup[f] = Vanilla
    BY <1>2, <1>t DEF WriteCopy, Kept
  <2> QED BY <1>2, <1>t, <2>1 DEF WriteCopy, Kept
<1>3. ASSUME NEW g \in Files, UndoFile(g), g = f PROVE Kept(f)'
  <2>1. target[f] = tab /\ tab # Vanilla
    BY <1>3, <1>t DEF UndoFile, Sequenced, UninstallSteps, BackupsStand
  <2>2. backup[f] = Vanilla BY <2>1 DEF Kept
  <2> QED BY <1>3, <1>t, <2>2 DEF UndoFile, Kept
<1>4. ASSUME NEW g \in Files, RestoreFile(g), g = f PROVE Kept(f)'
  <2>1. /\ task.kind = "uninstall" /\ f \in todo
        /\ backup[f] = before.backup[f] /\ target[f] \in {before.target[f], Damaged}
        /\ before.target[f] = Vanilla => before.backup[f] \in {Vanilla, NoFile}
    BY <1>4, <1>t DEF RestoreFile, Sequenced, InstallSteps, BackupsStand
  <2>2. HadBackup(f) => backup[f] = Vanilla
    BY <1>t, <2>1 DEF HadBackup, Kept
  <2>3. ASSUME Meets("restore") PROVE HadBackup(f)
    <3>1. CallLib BY <1>c, <2>3 DEF Meets
    <3> QED
      BY <1>4, <2>1, <3>1 DEF RestoreFile, CallLib, UninstallLib, HadBackup
  <2>4. \/ target'[f] = Vanilla
        \/ Meets("restore") /\ UNCHANGED levels
    BY <1>4, <1>t, <2>2, <2>3 DEF RestoreFile
  <2> QED BY <2>4 DEF Kept
<1>5. ASSUME NEW g \in Files, PutBack(g), g = f PROVE Kept(f)'
  <2>1. /\ task.kind = "uninstall" /\ f \in done /\ backup[f] = NoFile
    BY <1>5, <1>t DEF PutBack, Sequenced, InstallSteps, BackupsStand
  <2>2. target[f] = Vanilla BY <1>t, <2>1 DEF Kept
  <2>3. "restore" \in troubles' BY <1>5, <1>t DEF PutBack, BackupsStand
  <2>4. CallLib /\ ~Meets("undo") BY <1>c, <2>3 DEF Meets
  <2>5. HadBackup(f) BY <1>5, <1>t, <2>1, <2>4 DEF PutBack, CallLib, UninstallLib, HadBackup
  <2>6. backup' = [backup EXCEPT ![f] = Vanilla]
    BY <1>5, <2>2, <2>4, <2>5 DEF PutBack, SetAside
  <2> QED BY <1>t, <2>6 DEF Kept
<1>6. ASSUME Crash PROVE Kept(f)'
  <2>1. CallLib BY <1>c, <1>6 DEF Crash, Meets
  <2>2. ASSUME TornFile(f) PROVE Kept(f)'
    <3>1. CASE pc = "write" /\ target[f] = NoFile /\ UNCHANGED backup
      BY <1>t, <3>1 DEF Kept
    <3>2. CASE pc = "undo files" /\ f \in done /\ UNCHANGED backup
      BY <1>t, <3>2 DEF Sequenced, UninstallSteps, BackupsStand, Kept
    <3>3. ASSUME pc = "restore", f \in todo, ~HadBackup(f) PROVE FALSE
      BY <1>t, <2>1, <3>3
      DEF Sequenced, InstallSteps, CallLib, UninstallLib, HadBackup
    <3>4. CASE pc = "put back" /\ f \in done /\ SetAside(f)
      <4>1. /\ task.kind = "uninstall" /\ backup[f] = NoFile /\ HadBackup(f)
        BY <1>t, <2>1, <3>4
        DEF Sequenced, InstallSteps, BackupsStand, CallLib, UninstallLib, HadBackup
      <4>2. backup' = [backup EXCEPT ![f] = Vanilla]
        BY <1>t, <3>4, <4>1 DEF SetAside, Kept
      <4> QED BY <1>t, <4>2 DEF Kept
    <3> QED BY <2>2, <3>1, <3>2, <3>3, <3>4 DEF TornFile
  <2>3. ASSUME NEW g \in Files, TornFile(g), g # f PROVE UNCHANGED <<target[f], backup[f]>>
    BY <1>t, <2>3 DEF TornFile, SetAside
  <2> QED BY <1>6, <1>o, <2>2, <2>3 DEF Crash
<1>7. ASSUME NEW g \in Files, g # f,
             \/ RenameAside(g) \/ WriteCopy(g) \/ UndoFile(g) \/ RestoreFile(g)
             \/ PutBack(g)
      PROVE  UNCHANGED <<target[f], backup[f]>>
  BY <1>7, <1>t
  DEF RenameAside, WriteCopy, UndoFile, RestoreFile, PutBack, SetAside, Rewrite
<1>8. \/ UNCHANGED <<target, backup>> \/ Crash
      \/ \E g \in Files : \/ RenameAside(g) \/ WriteCopy(g) \/ UndoFile(g)
                          \/ RestoreFile(g) \/ PutBack(g)
  BY DEF Next, Step, vars, PutPalettes, PutTexts, PutBindings, PointAtTab,
         ChangeCredit, ArchiveSave, SwapSave, SyncCloud, RecordInstall, UndoCredit,
         UndoUri, UndoBindings, UndoTexts, UndoPalettes, PointBack, RestoreCredit,
         UndoSave, RestoreTexts, RestoreBindings, RemovePalettes, RecordUninstall,
         BeginInstall, BeginUninstall, Play, Fetch, Remove, RefreshDigest
<1> QED BY <1>1, <1>2, <1>3, <1>4, <1>5, <1>6, <1>7, <1>8, <1>o

(* For any tabs, files and troubles of any kind: the only step that takes   *)
(* the last copy of a level file the game came with is the rename of an     *)
(* install over what a crash, a failed undo or a changed list left, save    *)
(* where an uninstall writes in place a file that had no backup and is cut  *)
(* short.                                                                   *)
THEOREM OriginalsAreKept == Spec => OriginalsStay
<1>1. Init => TypeInv /\ FileInv /\ LibInv BY TypeInit, FileInit, LibInit
<1>2. TypeInv /\ FileInv /\ LibInv /\ [Next]_vars => TypeInv' /\ FileInv' /\ LibInv'
  BY FileInvNext, LibInvNext
<1>3. TypeInv /\ FileInv /\ LibInv /\ [Next]_vars =>
        [/\ "legacy" \notin troubles'
         /\ \/ troubles' \cap {"undo", "digest"} = {}
            \/ troubles' \cap {"crash", "restore"} = {}
         => \A f \in Files : Kept(f) => Kept(f)' \/ Overwritten(f)]_vars
  BY StayNext DEF Fastened
<1> QED BY <1>1, <1>2, <1>3, PTL DEF Spec, OriginalsStay
=============================================================================
