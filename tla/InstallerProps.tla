--------------------------- MODULE InstallerProps ---------------------------
(***************************************************************************)
(* What the two calls of Installer promise, from install.h, save.h and the  *)
(* README: between calls and at every instant of them, when all goes well   *)
(* and in each of the troubles; and the inductive invariant behind the      *)
(* first of these, that the game's own levels are never lost.               *)
(***************************************************************************)
EXTENDS Installer

Plans == [kind : {"none", "install", "uninstall"}, tab : Owners,
          langs : SUBSET Langs, put : SUBSET Extras,
          before : [target : [Files -> Contents], backup : [Files -> Contents],
                    uri : Owners, credit : Owners, texts : [Langs -> Owners],
                    keys : Owners, palettes : SUBSET Tabs, live : Saves,
                    archive : [Owners -> {NoFile} \cup Saves]]]

Steps == {"idle", "rename", "write", "palettes", "texts", "bindings", "uri",
          "credit", "archive", "save", "cloud", "record", "restore credit",
          "restore", "put back", "undo credit", "undo uri", "undo bindings",
          "undo texts", "undo palettes", "undo files", "undo save"}

DiskOK ==
  /\ target \in [Files -> Contents] /\ backup \in [Files -> Contents]
  /\ uri \in Owners /\ credit \in Owners
  /\ texts \in [Langs -> Owners] /\ keys \in Owners /\ palettes \in SUBSET Tabs
  /\ live \in Saves /\ cloud \in {NoFile} \cup Saves
  /\ archive \in [Owners -> {NoFile} \cup Saves]

StateOK ==
  /\ installed \in SUBSET Tabs
  /\ textrec \in [Langs -> Owners \cup {NoRecord}]
  /\ keyrec \in Owners \cup {NoRecord}
  /\ palrec \in [Tabs -> {"unknown", "made", "empty"}]
  /\ listed \in [Tabs -> SUBSET Files] /\ folder \in [Tabs -> SUBSET Files]

CallOK ==
  /\ pc \in Steps /\ task \in Plans
  /\ todo \in SUBSET Files /\ done \in SUBSET Files
  /\ left \in SUBSET (Extras \cup {"texts"})

HistoryOK ==
  /\ played \in [Owners -> 0 .. MaxPlay]
  /\ troubles \in SUBSET Troubles

(* Every variable stays in its range, and the plan is that of a call.       *)
TypeOK == DiskOK /\ StateOK /\ CallOK /\ HistoryOK

(* install.h: every level file the game came with is in its folder at every *)
(* instant of every call, under its own name or with OG appended.  (An      *)
(* older installer's tab kept none.)                                        *)
Kept(f) == Vanilla \in {target[f], backup[f]}

OriginalsKept == "legacy" \notin troubles => \A f \in Files : Kept(f)

(* An install takes a level file that is there for the game's own, and sets *)
(* it aside over what the backup's name holds.  After a crash, an undo that *)
(* failed or a digest that drops a file from the list it can be the tab's.  *)
Overwritten(f) ==
  /\ pc = "rename" /\ target[f] # Vanilla
  /\ troubles \cap {"crash", "undo", "digest"} # {}

(* That is the only step that takes the last copy of a level file: not a    *)
(* rollback none of whose results is looked at, nor an uninstall that fails *)
(* and is taken back, nor the end of the process inside either.  What has   *)
(* no backup is written in place, though: an uninstall the library or the   *)
(* digest leads to a file that is the game's own can be cut short there.    *)
OriginalsStay ==
  [][/\ "legacy" \notin troubles'
     /\ \/ troubles' \cap {"undo", "digest"} = {}
        \/ troubles' \cap {"crash", "restore"} = {}
     => \A f \in Files : Kept(f) => Kept(f)' \/ Overwritten(f)]_vars

(* The library is redirected last and pointed back first, so at every       *)
(* instant, a crash's included, a library that names a tab stands beside    *)
(* every level that tab was installed with.                                 *)
LibraryHonest ==
  "undo" \notin troubles /\ uri # Vanilla =>
    \A f \in Shipped[uri] : target[f] = uri

(* save.h: no session ever played is lost; its progress is in the save the  *)
(* game reads or in one of the archives.                                    *)
Played == {e \in Events : e[2] <= played[e[1]]}

SomeSave == {live} \cup {archive[o] : o \in {p \in Owners : archive[p] # NoFile}}

ProgressKept == Played \subseteq UNION SomeSave

(* Wherever the process ends, it destroys nothing: it leaves the original   *)
(* levels behind, every session whose progress was still there, and a       *)
(* library that names a tab only when that tab is there.                    *)
CrashDestroysNothing ==
  [][Crash => /\ OriginalsKept' /\ LibraryHonest'
              /\ ProgressKept => ProgressKept']_vars

(* README: a state file out of step will not stop a real installation from  *)
(* being undone.  Whatever a call, or the end of the process, left behind,  *)
(* an uninstall passes its checks for the tab the library names.            *)
Undoable == pc = "idle" /\ uri # Vanilla => uri \in Tabs /\ MayUninstall(uri)

(* Between calls the game is wholly its own or wholly one tab's - levels,   *)
(* texts, bindings, palettes - and config.json says which.  What a warning  *)
(* was given about may be off, and nothing else.                            *)
LevelsOf(o) == [f \in Files |-> IF o # Vanilla /\ f \in Shipped[o]
                                THEN o ELSE Vanilla]

GameWhole ==
  pc = "idle" /\ "digest" \notin troubles =>
    /\ target = LevelsOf(uri)
    /\ \/ "record" \in troubles
       \/ /\ "texts" \in troubles \/ \A l \in Langs : texts[l] \in {Vanilla, uri}
          /\ "bindings" \in troubles \/ keys \in {Vanilla, uri}
          /\ "palettes" \in troubles \/ palettes \subseteq {uri}
          /\ "legacy" \in troubles \/ installed = {uri} \ {Vanilla}

(* README: `strings` and `keybindings` always describe the replacements     *)
(* that are live, so that the next uninstall puts every one of them back.   *)
ExtrasRecoverable ==
  pc = "idle" =>
    /\ \A l \in Langs : texts[l] # Vanilla => Restored(l) = Vanilla
    /\ keys # Vanilla => keyrec = Vanilla

(* install.h: a call that gives up has changed nothing, neither the game    *)
(* nor the save it will be played with.                                     *)
SaveRead == IF cloud = NoFile THEN live ELSE cloud

GivenUp == pc \notin {"idle", "record"} /\ pc' = "idle"

FailedCallChangesNothing ==
  [][GivenUp =>
       /\ target' = before.target /\ backup' = before.backup
       /\ uri' = before.uri /\ credit' = before.credit
       /\ texts' = before.texts /\ keys' = before.keys
       /\ palettes' = before.palettes
       /\ live' = before.live /\ SaveRead' = before.live]_vars

(* Every call ends, one way or the other.                                   *)
CallReturns == pc # "idle" ~> pc = "idle"

(***************************************************************************)
(* Why the originals stay: what each step of a call may count on.           *)
(***************************************************************************)
InstallSteps == {"rename", "write", "palettes", "texts", "bindings", "uri",
                 "credit", "archive", "save", "cloud", "record", "undo credit",
                 "undo uri", "undo bindings", "undo texts", "undo palettes",
                 "undo files"}

UninstallSteps == {"archive", "save", "cloud", "uri", "restore credit",
                   "restore", "put back", "texts", "bindings", "palettes",
                   "record", "undo uri", "undo save"}

Sequenced == \/ pc = "idle"
             \/ task.kind = "install" /\ pc \in InstallSteps
             \/ task.kind = "uninstall" /\ pc \in UninstallSteps

(* A backup that is no original stands beside no original, and what a call  *)
(* has handled can be taken back: of an install the tab's copies, of an     *)
(* uninstall what it found.  Whatever troubles are met, this is kept.       *)
BackupsStand ==
  /\ \A f \in Files : target[f] = Vanilla => backup[f] \in {Vanilla, NoFile}
  /\ todo \cap done = {}
  /\ pc = "put back" => "restore" \in troubles
  /\ task.kind = "install" => \A f \in done : target[f] = tab
  /\ task.kind = "uninstall" =>
       \A f \in Files :
         /\ before.target[f] = Vanilla => before.backup[f] \in {Vanilla, NoFile}
         /\ f \in todo => /\ target[f] \in {before.target[f], Damaged}
                          /\ backup[f] = before.backup[f]
         /\ f \in done => /\ target[f] = IF HadBackup(f) THEN before.backup[f]
                                        ELSE Vanilla
                          /\ backup[f] = NoFile

(* And until the process ends inside a call, an undo fails or the list of   *)
(* files changes, this much more:                                           *)
Unbroken == troubles \cap {"crash", "undo", "digest", "legacy"} = {}

Clear(f) == target[f] \in {Vanilla, NoFile} /\ Kept(f)

StoreListed     == \A t \in Tabs : folder[t] \in {{}, listed[t]}
BackupsOriginal == \A f \in Files : backup[f] \in {Vanilla, NoFile}

IdleFiles ==
  pc = "idle" =>
    /\ \A f \in Files : uri = Vanilla \/ f \notin listed[uri] => Clear(f)
    /\ uri # Vanilla => \A f \in listed[uri] : backup[f] = Vanilla

InstallFiles ==
  pc # "idle" /\ task.kind = "install" =>
    /\ tab \in Tabs /\ before.uri = Vanilla
    /\ todo \cap done = {} /\ todo \cup done \subseteq listed[tab]
    /\ \A f \in done : target[f] = tab /\ backup[f] = Vanilla
    /\ \A f \in Files \ done : Clear(f)
    /\ pc = "rename" => \A f \in todo : target[f] = Vanilla
    /\ pc = "write" => \E g \in todo :
                         /\ target[g] = NoFile
                         /\ \A f \in todo \ {g} : target[f] = Vanilla
    /\ pc \in {"rename", "write"} => todo \cup done = listed[tab]
    /\ pc \in {"palettes", "texts", "bindings", "uri", "credit", "archive",
               "save", "cloud", "record"} => done = listed[tab]
    /\ uri = IF pc \in {"credit", "archive", "save", "cloud", "record",
                        "undo credit", "undo uri"} THEN tab ELSE Vanilla

UninstallFiles ==
  pc # "idle" /\ task.kind = "uninstall" =>
    /\ tab \in Tabs /\ before.uri = tab
    /\ todo \cap done = {} /\ todo \cup done \subseteq listed[tab]
    /\ \A f \in Files \ listed[tab] : Clear(f)
    /\ \A f \in done : target[f] = Vanilla /\ backup[f] = NoFile
    /\ \A f \in listed[tab] \ done :
         target[f] = before.target[f] /\ backup[f] = before.backup[f]
    /\ \A f \in listed[tab] : before.backup[f] = Vanilla
    /\ pc \in {"archive", "save", "cloud", "uri", "undo save"} => uri = tab
    /\ pc \in {"archive", "save", "cloud", "uri", "restore credit", "undo uri",
               "undo save"} => done = {}
    /\ pc \in {"archive", "save", "cloud", "uri", "restore credit", "restore"} =>
         todo \cup done = listed[tab]
    /\ pc \in {"texts", "bindings", "palettes", "record"} => done = listed[tab]
    /\ pc \in {"restore credit", "restore", "texts", "bindings", "palettes",
               "record"} => uri = Vanilla
    /\ pc \in {"put back", "undo uri", "undo save"} => "restore" \in troubles

(* What the files look like at each step of each call.                      *)
FilesKept ==
  StoreListed /\ BackupsOriginal /\ IdleFiles /\ InstallFiles /\ UninstallFiles

(* What is inductive, and gives OriginalsStay.                              *)
FileInv == Sequenced /\ BackupsStand /\ (Unbroken => FilesKept)

(***************************************************************************)
(* The two calls implement an atomic switch, as long as no trouble is met:  *)
(* while one runs, the game still counts as what it was when it began.      *)
(***************************************************************************)
Seen == IF pc = "idle" THEN Disk ELSE before

Progress == [o \in Owners |-> IF o = Seen.uri THEN Seen.live
                              ELSE IF Seen.archive[o] = NoFile THEN Fresh
                              ELSE Seen.archive[o]]

Switch == INSTANCE TabSwitch WITH
  owner    <- Seen.uri,
  looks    <- [levels |-> Seen.target, texts |-> Seen.texts,
               keys |-> Seen.keys, palettes |-> Seen.palettes],
  progress <- Progress,
  Sessions <- 1 .. MaxPlay,
  busy     <- pc # "idle"

SwitchesWhole == Switch!Spec
=============================================================================
