----------------------------- MODULE TabSwitch -----------------------------
(***************************************************************************)
(* What install.h promises of tab_install and tab_uninstall: a call moves   *)
(* the whole game from its own levels to a tab's, or back, or gives up and  *)
(* leaves it as it was.  Every owner - the game, each tab - keeps its own   *)
(* progress, which no call touches and only playing extends.                *)
(***************************************************************************)
CONSTANTS
  Tabs,     \* the custom tabs
  Vanilla,  \* the game itself
  Files,    \* the level files
  Shipped,  \* the files each tab ships
  Bundles,  \* the extras each tab asks for, among "palettes" and "bindings"
  Sessions, \* what tells one session of play from another
  Langs     \* the columns of the game's text table

VARIABLES
  owner,    \* whose game it is
  looks,    \* its levels, texts, bindings and palette folders
  progress, \* the sessions played so far, for each owner
  busy      \* a call is running

vars == <<owner, looks, progress, busy>>

(* The game as `o` has it, with texts replaced in `langs` and the extras    *)
(* `put` in place.                                                          *)
Game(o, langs, put) ==
  [levels   |-> [f \in Files |-> IF o # Vanilla /\ f \in Shipped[o]
                                 THEN o ELSE Vanilla],
   texts    |-> [l \in Langs |-> IF l \in langs THEN o ELSE Vanilla],
   keys     |-> IF "bindings" \in put THEN o ELSE Vanilla,
   palettes |-> IF "palettes" \in put THEN {o} ELSE {}]

Init ==
  /\ owner = Vanilla
  /\ looks = Game(Vanilla, {}, {})
  /\ progress = [o \in Tabs \cup {Vanilla} |-> {}]
  /\ busy = FALSE

Ask ==
  /\ ~busy /\ busy' = TRUE
  /\ UNCHANGED <<owner, looks, progress>>

GiveUp ==
  /\ busy /\ busy' = FALSE
  /\ UNCHANGED <<owner, looks, progress>>

Install(t) ==
  /\ busy /\ busy' = FALSE
  /\ owner = Vanilla /\ owner' = t
  /\ \E langs \in SUBSET Langs, put \in SUBSET Bundles[t] :
       looks' = Game(t, langs, put)
  /\ UNCHANGED progress

Uninstall ==
  /\ busy /\ busy' = FALSE
  /\ owner # Vanilla /\ owner' = Vanilla
  /\ looks' = Game(Vanilla, {}, {})
  /\ UNCHANGED progress

(* One session, of whoever the game belongs to.                             *)
Play ==
  /\ ~busy
  /\ \E event \in {owner} \X Sessions :
       /\ event \notin progress[owner]
       /\ progress' = [progress EXCEPT ![owner] = @ \cup {event}]
  /\ UNCHANGED <<owner, looks, busy>>

Next == Ask \/ GiveUp \/ (\E t \in Tabs : Install(t)) \/ Uninstall \/ Play

Spec == Init /\ [][Next]_vars
=============================================================================
