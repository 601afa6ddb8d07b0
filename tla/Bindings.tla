------------------------------ MODULE Bindings ------------------------------
(***************************************************************************)
(* The controls tabber lends from one player to others (src/src/keys.c):    *)
(* `bind` and `unbind` in a terminal (src/src/main.c), and the binding a    *)
(* tab asks for while it is installed and gives up when it is uninstalled   *)
(* (src/src/install.c).  keys.vars is a list of settings, written whole and *)
(* swapped in; what they read before is kept in the state file.  The file   *)
(* is written first and the record after it, and either write can fail.     *)
(***************************************************************************)
EXTENDS Integers, Sequences

CONSTANTS
  Players,      \* the players the game has settings for
  Actions,      \* keys_actions: left, right and jump
  Keys,         \* what a setting can read
  Unbound,      \* -1, which is what an action without a key reads
  Files,        \* keys.vars as the game may have written it
  Lists,        \* the player lists a command or a digest may give
  KeysTroubles, \* what can go wrong: "keysWrite", "keysUndo", "keysSave", "keysCrash"
  KeysCalls,    \* bound: how many calls are made and keys chosen
  KeysAfter,    \* bound: how many of them once a call's outcome is unsure
  NoKeysPlan    \* stands for a plan that could not be built, and for no call

(* A file is a sequence of settings, each a name and what it reads.         *)
IsLines(ls) ==
  /\ Len(ls) \in Nat
  /\ ls = [i \in 1 .. Len(ls) |-> [name |-> ls[i].name, value |-> ls[i].value]]

ASSUME KeysAssumption ==
  /\ Players \subseteq Nat /\ Unbound \in Keys /\ {KeysCalls, KeysAfter} \subseteq Nat
  /\ NoKeysPlan \notin Nat /\ \A ls \in Files : IsLines(ls)

Settings == Players \X Actions

VARIABLES
  lines,       \* keys.vars: a sequence of [name, value]
  keysRecord,  \* `keybindings` of the state file: setting -> what it read before
  call,        \* the call being made, or NoKeysPlan
  hosted,      \* a tab is installed
  keysLeft,    \* calls and choices that may still be made
  own,         \* history: what each setting read before tabber first wrote it
  unsure       \* history: a failure was only warned about, or a call was cut short
keysVars == <<lines, keysRecord, call, hosted, keysLeft, own, unsure>>

-----------------------------------------------------------------------------
(* keys_players_parse: every entry a player, named twice counts once. *)
Named(list) ==
  SelectSeq([i \in DOMAIN list |-> IF \E j \in 1 .. (i - 1) : list[j] = list[i]
                                   THEN 0 ELSE list[i]],
            LAMBDA p : p # 0)
Parsed(list) ==
  IF list = <<>> \/ \E i \in DOMAIN list : list[i] \notin Players THEN NoKeysPlan
  ELSE Named(list)

(* keys_players_wanted: a digest may ask for nobody, and never for one. *)
AskedFor(list) ==
  IF list = <<>> THEN <<>>
  ELSE IF Parsed(list) = NoKeysPlan THEN NoKeysPlan
  ELSE IF Len(Named(list)) = 1 THEN NoKeysPlan ELSE Named(list)

(* find_setting: the first line that sets it; setting_value. *)
Sets(i, name) == lines[i].name = name /\ \A j \in 1 .. (i - 1) : lines[j].name # name
HasName(name) == \E i \in DOMAIN lines : lines[i].name = name
Reads(ls, name) ==
  ls[CHOOSE i \in DOMAIN ls : ls[i].name = name
                              /\ \A j \in 1 .. (i - 1) : ls[j].name # name].value

(* set_binding, for every setting of `to` at once: they are different ones,  *)
(* and none of them is one the values come from.  A setting that already     *)
(* reads so, or that the file does not have, is left out of the record, and  *)
(* so is one that already has a place in it.                                 *)
Changed(to) == {n \in DOMAIN to : HasName(n) /\ Reads(lines, n) # to[n]}
Written(to) ==
  [i \in DOMAIN lines |->
     IF lines[i].name \in DOMAIN to /\ Sets(i, lines[i].name)
     THEN [lines[i] EXCEPT !.value = to[lines[i].name]] ELSE lines[i]]
RecordedAgain(kept, to) ==
  [n \in DOMAIN kept \cup Changed(to) |->
     IF n \in Changed(to) THEN Reads(lines, n) ELSE kept[n]]
Recorded(kept, to) ==
  [n \in DOMAIN kept \cup Changed(to) |->
     IF n \in DOMAIN kept THEN kept[n] ELSE Reads(lines, n)]

Plan(to, recordAfter) ==
  [to |-> to, changes |-> Changed(to) # {}, after |-> Written(to), record |-> recordAfter]

(* keys_bind_build *)
Others(players) == {players[i] : i \in 2 .. Len(players)}
Lent(players) == [n \in Others(players) \X Actions |-> Reads(lines, <<players[1], n[2]>>)]
BindPlan(players) ==
  IF Len(players) < 2 \/ \E a \in Actions : ~HasName(<<players[1], a>>) THEN NoKeysPlan
  ELSE Plan(Lent(players), Recorded(keysRecord, Lent(players)))

(* keys_unbind_build: everything on record goes back; a player named of whom  *)
(* nothing is on record has the controls cleared.                             *)
PlayerRecorded(p) == \E a \in Actions : <<p, a>> \in DOMAIN keysRecord
ClearedEach(players) ==
  {n \in Settings : n \notin DOMAIN keysRecord /\ \E i \in DOMAIN players : players[i] = n[1]}
Cleared(players) ==
  {n \in Settings : ~PlayerRecorded(n[1]) /\ \E i \in DOMAIN players : players[i] = n[1]}
Restoring(players) ==
  [n \in DOMAIN keysRecord \cup Cleared(players) |->
     IF n \in DOMAIN keysRecord THEN keysRecord[n] ELSE Unbound]
Nobody == [n \in {} |-> Unbound]
UnbindPlan(players) == Plan(Restoring(players), Nobody)

-----------------------------------------------------------------------------
May(trouble) == trouble \in KeysTroubles
Begin(kind, plan) ==
  /\ call = NoKeysPlan /\ keysLeft > 0 /\ keysLeft' = keysLeft - 1
  /\ call' = [kind |-> kind, step |-> "write", plan |-> plan, before |-> lines,
              ownBefore |-> own, applied |-> FALSE]
  /\ UNCHANGED <<lines, keysRecord, hosted, own, unsure>>

(* cmd_bind and cmd_unbind, up to the write. *)
BeginBind(list) ==
  /\ Parsed(list) # NoKeysPlan
  /\ BindPlan(Parsed(list)) # NoKeysPlan /\ Begin("bind", BindPlan(Parsed(list)))
BeginUnbind(list) ==
  LET players == IF list = <<>> THEN <<>> ELSE Parsed(list)
  IN /\ players # NoKeysPlan
     /\ DOMAIN Restoring(players) # {}
     /\ Begin("unbind", UnbindPlan(players))

(* tab_install and tab_uninstall: a binding that cannot be planned is only  *)
(* warned about, and a record that is empty leaves the file alone.          *)
BeginInstallKeys(list) ==
  /\ ~hosted
  /\ LET players == AskedFor(list)
         plan    == IF players \in {NoKeysPlan, <<>>} THEN NoKeysPlan ELSE BindPlan(players)
     IN Begin("install", IF plan # NoKeysPlan THEN plan
                         ELSE [to |-> Nobody, changes |-> FALSE, after |-> lines,
                               record |-> keysRecord])
BeginUninstallKeys ==
  /\ hosted
  /\ Begin("uninstall", IF DOMAIN keysRecord = {}
                        THEN [to |-> Nobody, changes |-> FALSE, after |-> lines,
                              record |-> keysRecord]
                        ELSE UnbindPlan(<<>>))

Unsure == unsure' = TRUE /\ keysLeft' = IF keysLeft > KeysAfter THEN KeysAfter ELSE keysLeft
End == call' = NoKeysPlan
Went(step) == call' = [call EXCEPT !.step = step]

(* What tabber first found in every setting it has written. *)
FirstRead(after) ==
  [n \in DOMAIN own \cup {m \in {lines[i].name : i \in DOMAIN lines} :
                           Reads(after, m) # Reads(lines, m)} |->
     IF n \in DOMAIN own THEN own[n] ELSE Reads(lines, n)]

(* keys_plan_apply; a plan that changes nothing writes nothing. *)
WriteKeys ==
  /\ call # NoKeysPlan /\ call.step = "write"
  /\ lines' = call.plan.after
  /\ own' = IF call.kind \in {"bind", "install"} THEN FirstRead(lines')
            ELSE [n \in {m \in DOMAIN own : Reads(lines', m) # own[m]} |-> own[n]]
  /\ call' = [call EXCEPT !.step = "save", !.applied = call.plan.changes]
  /\ UNCHANGED <<keysRecord, hosted, keysLeft, unsure>>

(* The write fails: bind, unbind and the install with it, and the uninstall  *)
(* goes on without, keeping its record.                                      *)
WriteFails ==
  /\ May("keysWrite") /\ call # NoKeysPlan /\ call.step = "write" /\ call.plan.changes
  /\ IF call.kind = "uninstall"
     THEN call' = [call EXCEPT !.step = "save", !.plan.record = keysRecord]
     ELSE End
  /\ UNCHANGED <<lines, keysRecord, hosted, keysLeft, own, unsure>>

(* Anything after it in tab_install fails. *)
InstallFails ==
  /\ call # NoKeysPlan /\ call.kind = "install" /\ call.step = "save"
  /\ Went("undo")
  /\ UNCHANGED <<lines, keysRecord, hosted, keysLeft, own, unsure>>

(* config_set_keybindings and config_save. *)
SaveRecord ==
  /\ call # NoKeysPlan /\ call.step = "save" /\ End
  /\ keysRecord' = call.plan.record
  /\ hosted' = CASE call.kind = "install" -> TRUE
                 [] call.kind = "uninstall" -> FALSE
                 [] OTHER -> hosted
  /\ UNCHANGED <<lines, keysLeft, own, unsure>>

(* A record that cannot be saved takes a bind back; the others only warn. *)
SaveFails ==
  /\ May("keysSave") /\ call # NoKeysPlan /\ call.step = "save"
  /\ IF call.kind = "bind" THEN Went("undo") /\ UNCHANGED <<hosted, keysLeft, unsure>>
     ELSE /\ End /\ Unsure
          /\ hosted' = CASE call.kind = "install" -> TRUE
                         [] call.kind = "uninstall" -> FALSE
                         [] OTHER -> hosted
  /\ UNCHANGED <<lines, keysRecord, own>>

(* keys_plan_undo, whose own failure is not looked at. *)
UndoKeys ==
  /\ call # NoKeysPlan /\ call.step = "undo" /\ End
  /\ IF call.applied THEN lines' = call.before /\ own' = call.ownBefore
     ELSE UNCHANGED <<lines, own>>
  /\ UNCHANGED <<keysRecord, hosted, keysLeft, unsure>>
UndoKeysFails ==
  /\ May("keysUndo") /\ call # NoKeysPlan /\ call.step = "undo" /\ call.applied
  /\ End /\ Unsure
  /\ UNCHANGED <<lines, keysRecord, hosted, own>>

KeysCrash ==
  /\ May("keysCrash") /\ call # NoKeysPlan /\ End /\ Unsure
  /\ UNCHANGED <<lines, keysRecord, hosted, own>>

(* The player chooses another key in the game, between two calls. *)
Rebind(i, key) ==
  /\ call = NoKeysPlan /\ keysLeft > 0 /\ lines[i].value # key
  /\ lines' = [lines EXCEPT ![i].value = key]
  /\ keysLeft' = keysLeft - 1
  /\ UNCHANGED <<keysRecord, call, hosted, own, unsure>>

KeysInit ==
  /\ lines \in Files /\ keysRecord = Nobody /\ call = NoKeysPlan /\ hosted = FALSE
  /\ keysLeft = KeysCalls /\ own = Nobody /\ unsure = FALSE

KeysNext ==
  \/ \E list \in Lists : BeginBind(list) \/ BeginUnbind(list) \/ BeginInstallKeys(list)
  \/ BeginUninstallKeys
  \/ WriteKeys \/ WriteFails \/ InstallFails \/ SaveRecord \/ SaveFails
  \/ UndoKeys \/ UndoKeysFails \/ KeysCrash
  \/ \E i \in DOMAIN lines, key \in Keys : Rebind(i, key)

KeysSpec == KeysInit /\ [][KeysNext]_keysVars

(* ------------------------------ properties -------------------------------- *)
(* Between calls the record tells exactly what each setting read before       *)
(* tabber wrote it, and names no other setting: through any sequence of bind, *)
(* unbind, install and uninstall, of failed writes and of keys changed in the *)
(* game meanwhile, unless a record could not be saved, the undo of a bind     *)
(* failed too or a call was cut short (README, "Putting them back").          *)
RecordTells == call = NoKeysPlan /\ ~unsure => keysRecord = own

(* An unbind, or an uninstall, that writes the file puts back what each       *)
(* setting read before tabber first wrote it, clears those of a player who    *)
(* was named and of whom nothing was lent, and changes no other.              *)
UnbindPutsBack ==
  [][ /\ ~unsure /\ call # NoKeysPlan /\ call.kind \in {"unbind", "uninstall"}
      /\ lines' # lines
      => \A i \in DOMAIN lines :
           LET n == lines[i].name
           IN Sets(i, n) /\ lines'[i] # lines[i] =>
                \/ n \in DOMAIN own /\ lines'[i].value = own[n]
                \/ (\A a \in Actions : <<n[1], a>> \notin DOMAIN own) /\ lines'[i].value = Unbound
    ]_keysVars
=============================================================================
