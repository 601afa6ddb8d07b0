------------------------------ MODULE Palettes ------------------------------
(***************************************************************************)
(* The palettes a tab bundles (src/src/palettes.c), as tab_install puts     *)
(* them in and tab_uninstall takes them out: the plan settles the folder    *)
(* each one takes, or that it takes none; applying it moves a palette that  *)
(* is to be replaced aside and copies ours in, one folder at a time; a      *)
(* failure there or later in the install undoes it, and at its end the      *)
(* palettes moved aside are deleted and the folders made are recorded.      *)
(* Names are taken up to case, as the code compares them.                   *)
(***************************************************************************)
EXTENDS Naturals, Sequences, FiniteSets

CONSTANTS
  Names,     \* the folder names there can be
  Baked,     \* those of them the library bakes a palette of
  Suffixed,  \* for each name, "<name> 2", "<name> 3", ... in their order
  Bundled,   \* the palettes of the tab, as the digest lists them
  Room,      \* PALETTE_MAX_CUSTOM
  Modes,     \* what --on-palette-collision may say
  Unknown,   \* no record at all in the state file
  Troubles   \* the troubles this instance may meet, each at most once

(* "undo": a deletion or a move whose result the code does not look at;     *)
(* "palettes": an uninstall cannot delete a folder, or is told to keep them *)
(* (--keep-palettes), which leaves the record just the same; "record": the  *)
(* state file is not written; "crash": the process ends.                    *)
AllTroubles == {"undo", "palettes", "record", "crash"}

Contents == {"none", "theirs", "ours", "part"}   \* of a folder
NoName   == "no name"

ASSUME NamesAssumption ==
  /\ IsFiniteSet(Names) /\ NoName \notin Names /\ Baked \subseteq Names
  /\ \A names \in SUBSET Names : names # Unknown
  /\ Suffixed \in [Names -> Seq(Names)] /\ Bundled \in Seq(Names)
ASSUME RoomAssumption     == Room \in Nat
ASSUME ModesAssumption    == Modes \subseteq {"skip", "replace", "suffix"}
ASSUME PaletteTroublesAssumption == Troubles \subseteq AllTroubles

VARIABLES
  folder,   \* the game's palettes folder
  stash,    \* the same names with ".tabber-old" appended
  patched,  \* the library points at the tab
  flagged,  \* config.json: the tab is installed
  record,   \* config.json: the folders an install made
  pc,       \* where the running call is, "idle" between calls
  plan,     \* its plan, and what it found
  at,       \* the palette of the plan it has come to
  copied,   \* those it has copied in
  stashed,  \* those it has moved the user's own aside for
  todo,     \* the folders an uninstall has still to delete
  stuck,    \* one of them was kept, or could not be deleted
  troubles  \* history: the troubles met so far

folders  == <<folder, stash>>
progress == <<plan, at, copied, stashed, todo, stuck>>
vars     == <<folders, patched, flagged, record, pc, progress, troubles>>

Meets(trouble) ==
  /\ trouble \in Troubles \ troubles
  /\ troubles' = troubles \cup {trouble}
Smooth == UNCHANGED troubles

(***************************************************************************)
(* The plan.                                                                *)
(***************************************************************************)
(* list_existing: every folder's name is taken, and every one but those of  *)
(* baked palettes counts - one left aside by a call cut short included.     *)
Present  == {n \in Names : folder[n] # "none"}
Counted(f, s) == Cardinality({n \in Names \ Baked : f[n] # "none"})
               + Cardinality({n \in Names : s[n] # "none"})

(* free_name: the first suffix that neither the library nor anybody has.    *)
FreeName(name, taken) ==
  LET free == {i \in DOMAIN Suffixed[name] : Suffixed[name][i] \notin Baked \cup taken}
  IN IF free = {} THEN NoName
     ELSE Suffixed[name][CHOOSE i \in free : \A j \in free : i <= j]

Target(name, mode, taken) ==
  IF name \notin Baked \cup taken THEN name
  ELSE IF mode = "suffix" THEN FreeName(name, taken)
  ELSE IF mode = "replace" /\ name \notin Baked THEN name
  ELSE NoName

Bundles(i) == {Bundled[j] : j \in 1 .. i}

(* Slip: the last slot is counted as free once too often.                   *)
FullLate(adding) == Counted(folder, stash) + adding > Room

Full(adding) == Counted(folder, stash) + adding >= Room

(* resolve_target of a palette, after those before it: no folder for one    *)
(* bundled twice, one that finds no name, and one that takes a new slot     *)
(* when there is none.  Palettes that take no folder are left out, as no    *)
(* later step looks at them.                                                *)
Settle(so, i, mode) ==
  LET name == Target(Bundled[i], mode, so.taken)
      over == name \in so.taken
  IN IF \/ Bundled[i] \in Bundles(i - 1)
        \/ name = NoName
        \/ ~over /\ Full(so.adding)
     THEN so
     ELSE [items  |-> Append(so.items, [dest |-> name, over |-> over]),
           taken  |-> so.taken \cup {name},
           adding |-> so.adding + (IF over THEN 0 ELSE 1)]

Settled(mode) ==
  LET upto[i \in 0 .. Len(Bundled)] ==
        IF i = 0 THEN [items |-> <<>>, taken |-> Present, adding |-> 0]
        ELSE Settle(upto[i - 1], i, mode)
  IN upto[Len(Bundled)].items

NoPlan == [mode |-> "skip", items |-> <<>>,
           folder |-> [n \in Names |-> "none"], stash |-> [n \in Names |-> "none"]]

items == plan.items
dest  == items[at].dest

Return ==
  /\ pc' = "idle" /\ plan' = NoPlan /\ at' = 0
  /\ copied' = {} /\ stashed' = {} /\ todo' = {} /\ stuck' = FALSE

(* The library and the state file tell the same story.                      *)
Healthy == flagged => patched

(***************************************************************************)
(* Installing.                                                              *)
(***************************************************************************)
BeginInstall ==
  /\ pc = "idle" /\ Healthy /\ ~patched
  /\ \E mode \in Modes :
       plan' = [mode |-> mode, items |-> Settled(mode),
                folder |-> folder, stash |-> stash]
  /\ at' = 1 /\ pc' = IF plan'.items = <<>> THEN "rest" ELSE "apply"
  /\ UNCHANGED <<folders, patched, flagged, record, copied, stashed, todo,
                 stuck, troubles>>

(* palettes_plan_undo goes over the whole plan, whatever was reached.       *)
Undo ==
  IF items = <<>> THEN Return
  ELSE /\ pc' = "undo" /\ at' = Len(items)
       /\ UNCHANGED <<plan, copied, stashed, todo, stuck>>

HasToStash == items[at].over /\ at \notin stashed /\ folder[dest] # "none"

(* The user's palette is moved aside, which fails when its name is taken.   *)
StashTheirs ==
  /\ pc = "apply" /\ HasToStash
  /\ \/ /\ stash[dest] = "none"
        /\ stash' = [stash EXCEPT ![dest] = folder[dest]]
        /\ folder' = [folder EXCEPT ![dest] = "none"]
        /\ stashed' = stashed \cup {at}
        /\ UNCHANGED <<pc, plan, at, copied, todo, stuck>>
     \/ UNCHANGED folders /\ Undo
  /\ UNCHANGED <<patched, flagged, record, troubles>>

(* Ours is copied in, in part when a file of it fails.                      *)
CopyOurs ==
  /\ pc = "apply" /\ ~HasToStash
  /\ \/ /\ folder' = [folder EXCEPT ![dest] = "ours"]
        /\ copied' = copied \cup {at}
        /\ IF at = Len(items) THEN pc' = "rest" /\ UNCHANGED at
           ELSE at' = at + 1 /\ UNCHANGED pc
        /\ UNCHANGED <<plan, stashed, todo, stuck>>
     \/ /\ folder' \in {folder, [folder EXCEPT ![dest] = "part"]}
        /\ Undo
  /\ UNCHANGED <<stash, patched, flagged, record, troubles>>

(* The steps of the install that come after: one of them fails, or all are  *)
(* done and the library points at the tab.                                  *)
RestOfInstall ==
  /\ pc = "rest"
  /\ \/ /\ patched' = TRUE
        /\ pc' = IF items = <<>> THEN "record" ELSE "commit"
        /\ at' = 1
        /\ UNCHANGED <<plan, copied, stashed, todo, stuck>>
     \/ UNCHANGED patched /\ Undo
  /\ UNCHANGED <<folders, flagged, record, troubles>>

Undone ==
  IF at = 1 THEN Return
  ELSE at' = at - 1 /\ UNCHANGED <<pc, plan, copied, stashed, todo, stuck>>

(* Slip: what was copied only in part is not deleted.                       *)
UndoCopied ==
  /\ pc = "undo"
  /\ folder' = [folder EXCEPT ![dest] = IF at \in stashed THEN stash[dest]
                                        ELSE IF at \in copied THEN "none" ELSE @]
  /\ stash' = IF at \in stashed THEN [stash EXCEPT ![dest] = "none"] ELSE stash
  /\ Smooth
  /\ Undone
  /\ UNCHANGED <<patched, flagged, record>>

(* One palette undone, by name: whatever folder has it is deleted, and the  *)
(* user's own is moved back - unless the deletion or the move fails, and    *)
(* then it stays aside.                                                     *)
UndoOne ==
  /\ pc = "undo"
  /\ \/ /\ folder' = [folder EXCEPT ![dest] = IF at \in stashed THEN stash[dest]
                                              ELSE "none"]
        /\ stash' = IF at \in stashed THEN [stash EXCEPT ![dest] = "none"] ELSE stash
        /\ Smooth
     \/ /\ folder[dest] # "none" \/ at \in stashed
        /\ \/ at \in stashed /\ folder' = [folder EXCEPT ![dest] = "none"]
           \/ folder[dest] # "none"
              /\ folder' \in {folder, [folder EXCEPT ![dest] = "part"]}
        /\ UNCHANGED stash /\ Meets("undo")
  /\ Undone
  /\ UNCHANGED <<patched, flagged, record>>

(* palettes_plan_commit, one palette: its predecessor is deleted for good.  *)
CommitOne ==
  /\ pc = "commit"
  /\ \/ /\ stash' = IF at \in stashed THEN [stash EXCEPT ![dest] = "none"] ELSE stash
        /\ Smooth
     \/ /\ at \in stashed /\ stash' = [stash EXCEPT ![dest] = "part"]
        /\ Meets("undo")
  /\ IF at = Len(items) THEN pc' = "record" /\ UNCHANGED at
     ELSE at' = at + 1 /\ UNCHANGED pc
  /\ UNCHANGED <<folder, patched, flagged, record, plan, copied, stashed, todo,
                 stuck>>

(* Slip: the names the tab gives them, not the folders they took.           *)
MadeNamed == {Bundled[i] : i \in DOMAIN Bundled}

(* palettes_plan_installed: the folders that were really made.              *)
Made == {items[i].dest : i \in copied}

RecordInstall ==
  /\ pc = "record"
  /\ \/ record' = Made /\ flagged' = TRUE /\ Smooth
     \/ UNCHANGED <<record, flagged>> /\ Meets("record")
  /\ Return
  /\ UNCHANGED <<folders, patched>>

(***************************************************************************)
(* Uninstalling.                                                            *)
(***************************************************************************)
(* Slip: the list of the digest rather than the record.                     *)
ToRemoveListed == {Bundled[i] : i \in DOMAIN Bundled}

ToRemove == IF record = Unknown THEN {Bundled[i] : i \in DOMAIN Bundled}
            ELSE record

(* By the time the palettes are dealt with the library points back.  With   *)
(* --keep-palettes none is deleted, and the record stays.                   *)
BeginUninstall ==
  /\ pc = "idle" /\ Healthy /\ patched
  /\ patched' = FALSE
  /\ \/ todo' = ToRemove /\ stuck' = FALSE /\ Smooth
     \/ todo' = {} /\ stuck' = TRUE /\ Meets("palettes")
  /\ pc' = "remove"
  /\ UNCHANGED <<folders, flagged, record, plan, at, copied, stashed>>

(* palettes_remove, one folder; one that is not there is skipped.           *)
RemoveOne(n) ==
  /\ pc = "remove" /\ n \in todo
  /\ \/ /\ folder' = [folder EXCEPT ![n] = "none"]
        /\ UNCHANGED stuck /\ Smooth
     \/ /\ folder[n] # "none"
        /\ folder' \in {folder, [folder EXCEPT ![n] = "part"]}
        /\ stuck' = TRUE /\ Meets("palettes")
  /\ todo' = todo \ {n}
  /\ UNCHANGED <<stash, patched, flagged, record, pc, plan, at, copied, stashed>>

RecordUninstall ==
  /\ pc = "remove" /\ todo = {}
  /\ \/ /\ flagged' = FALSE
        /\ record' = IF stuck THEN record ELSE {}
        /\ Smooth
     \/ UNCHANGED <<flagged, record>> /\ Meets("record")
  /\ Return
  /\ UNCHANGED <<folders, patched>>

(***************************************************************************)
(* What goes on around the calls.                                           *)
(***************************************************************************)
(* The process ends, perhaps in the middle of copying or deleting a folder, *)
(* or before or after the library was redirected.                           *)
Crash ==
  /\ pc # "idle" /\ Meets("crash")
  /\ \/ UNCHANGED <<folders, patched>>
     \/ /\ \/ /\ pc = "apply" /\ ~HasToStash
              /\ folder' = [folder EXCEPT ![dest] = "part"]
           \/ /\ pc = "undo" /\ folder[dest] # "none"
              /\ folder' \in {[folder EXCEPT ![dest] = c] : c \in {"part", "none"}}
           \/ \E n \in todo : /\ folder[n] # "none"
                              /\ folder' = [folder EXCEPT ![n] = "part"]
        /\ UNCHANGED <<stash, patched>>
     \/ /\ pc = "commit" /\ at \in stashed
        /\ stash' = [stash EXCEPT ![dest] = "part"] /\ UNCHANGED <<folder, patched>>
     \/ pc = "rest" /\ patched' = TRUE /\ UNCHANGED folders
  /\ Return
  /\ UNCHANGED <<flagged, record>>

(* The user puts a palette in, or takes one out.                            *)
UserAdds(n) ==
  /\ pc = "idle" /\ folder[n] = "none"
  /\ folder' = [folder EXCEPT ![n] = "theirs"]
  /\ UNCHANGED <<stash, patched, flagged, record, pc, progress, troubles>>

UserDeletes(n) ==
  /\ pc = "idle" /\ folder[n] # "none"
  /\ folder' = [folder EXCEPT ![n] = "none"]
  /\ UNCHANGED <<stash, patched, flagged, record, pc, progress, troubles>>

Init ==
  /\ folder \in [Names -> {"none", "theirs"}]
  /\ stash = [n \in Names |-> "none"]
  /\ patched = FALSE /\ flagged = FALSE /\ record = Unknown
  /\ pc = "idle" /\ plan = NoPlan /\ at = 0
  /\ copied = {} /\ stashed = {} /\ todo = {} /\ stuck = FALSE
  /\ troubles = {}

Next ==
  \/ BeginInstall \/ StashTheirs \/ CopyOurs \/ RestOfInstall
  \/ UndoOne \/ CommitOne \/ RecordInstall
  \/ BeginUninstall \/ RecordUninstall \/ Crash
  \/ \E n \in Names : RemoveOne(n) \/ UserAdds(n) \/ UserDeletes(n)

Spec == Init /\ [][Next]_vars

(***************************************************************************)
(* Properties.                                                              *)
(***************************************************************************)
(* README, "The limit": an install that goes through never takes the game   *)
(* past the palettes it parses, unless the user's own were past it already. *)
LimitKept ==
  pc = "record" /\ "undo" \notin troubles =>
    Counted(folder, stash) <= Room
      \/ Counted(folder, stash) <= Counted(plan.folder, plan.stash)

(* README, "Name collisions" and "Uninstalling": only replace can cost the  *)
(* user a palette.  Whatever fails, and wherever the process ends, no step  *)
(* of any other call touches a folder of the user's that is not on record   *)
(* as tabber's, as far as there is a record to go by.                       *)
Spared(n) == pc # "idle" /\ plan.mode # "replace" /\ folder[n] = "theirs"

RecordedKept ==
  [][record # Unknown =>
       \A n \in Names \ record : Spared(n) => folder'[n] = "theirs"]_vars

(* README, "Undoing": a rollback puts the original back rather than leaving *)
(* a hole.  An install that gives up leaves both names of every folder as   *)
(* it found them.                                                           *)
GivesUp == pc = "undo" /\ pc' = "idle" /\ troubles' \cap {"undo", "crash"} = {}

RollbackLeavesNoHole ==
  [][GivesUp => folder' = plan.folder /\ stash' = plan.stash]_vars

(* The same of every install in which no palette of the user's is in the    *)
(* way, or whose palettes had all gone in when it gave up.                  *)
RollbackWhole ==
  [][/\ GivesUp
     /\ plan.mode # "replace" \/ copied = DOMAIN items
     => folder' = plan.folder /\ stash' = plan.stash]_vars

(* Uninstalling takes out every folder an install made, and leaves nothing  *)
(* of it behind.                                                            *)
NothingLeft ==
  pc = "idle" /\ ~patched /\ troubles = {} =>
    \A n \in Names : folder[n] \notin {"ours", "part"} /\ stash[n] = "none"
=============================================================================
