------------------------------ MODULE Settings ------------------------------
(***************************************************************************)
(* The settings of a window (src/gui/main.cpp) and the state file they are   *)
(* kept in (src/src/config.c).  Everything that writes the file takes it     *)
(* whole, changes what it came to change and puts it back whole; a window,   *)
(* another window and a task, its worker's or a terminal's, can each be      *)
(* between the two.  The settings box is followed at once and written down   *)
(* on its OK.                                                                *)
(***************************************************************************)
EXTENDS Integers

CONSTANTS
  Windows,     \* the windows that may be open
  Task,        \* the worker or the terminal that records an install
  Day,         \* HOURS_A_DAY
  HoursMin,    \* CONFIG_INTERVAL_MIN
  EveryMax,    \* EVERY_MAX
  Offered,     \* the policies the box offers
  Hours,       \* the hours the file may say, edited by hand or not
  Typed,       \* the numbers the box may be given
  HasRoot,     \* there is a place for the logfile
  SettingsTroubles, \* "load", "save", "close"
  Absent,      \* stands for a window that is closed, and for no write
  Presses      \* bound: controls pressed, windows opened and records made

ASSUME SettingsAssumption ==
  /\ {Day, HoursMin, EveryMax, Presses} \subseteq Nat /\ Day > 1 /\ HoursMin > 0
  /\ HoursMin <= Day /\ HoursMin <= EveryMax /\ Hours \subseteq Int /\ Typed \subseteq Int
  /\ Task \notin Windows /\ HasRoot \in BOOLEAN

KeptFields == {"light", "bar", "logs", "policy", "hours"}   \* the settings, in the file
Fields == KeptFields \cup {"tabs"}

VARIABLES
  disk,      \* the state file
  shown,     \* what each window shows and goes by, or Absent
  saving,    \* g_saving: the lines go to the logfile too
  editing, before,   \* g_editing, g_before
  writing,   \* what each writer has read and changed and not yet put back
  stale,     \* history: writers whose copy another write has overtaken
  apart,     \* history: fields in which a window and the file may differ
  presses
settingsVars == <<disk, shown, saving, editing, before, writing, stale, apart, presses>>

-----------------------------------------------------------------------------
(* config_update_interval and config_set_update_interval; split_interval. *)
Clamp(h) ==
  IF h < HoursMin THEN HoursMin ELSE IF h > EveryMax * Day THEN EveryMax * Day ELSE h
SplitAnyDay(h) ==                                \* without asking for whole days
  IF h >= Day THEN [every |-> h \div Day, days |-> TRUE] ELSE [every |-> h, days |-> FALSE]
Split(h) ==
  IF h >= Day /\ (h % Day) = 0 THEN [every |-> h \div Day, days |-> TRUE]
  ELSE [every |-> h, days |-> FALSE]
Span(s) == s.every * (IF s.days THEN Day ELSE 1)

(* read_settings, from a file and from none. *)
Reading(d) ==
  [light |-> d.light, bar |-> d.bar, logs |-> d.logs, policy |-> d.policy,
   every |-> Split(Clamp(d.hours)).every, days |-> Split(Clamp(d.hours)).days]
Unread == [light |-> FALSE, bar |-> TRUE, logs |-> TRUE, policy |-> "auto",
           every |-> 1, days |-> TRUE]

(* What settings_write finds is no longer what the box opened on, and what it *)
(* makes of the file it has read: everything else in it stays.                *)
Moved(was, now) ==
  {f \in KeptFields \ {"hours"} : now[f] # was[f]}
  \cup {f \in {"hours"} : <<now.every, now.days>> # <<was.every, was.days>>}
Said(now, f) == IF f = "hours" THEN Clamp(Span(now)) ELSE now[f]
WrittenAll(d, fields, now) == [f \in Fields |-> IF f \in KeptFields THEN Said(now, f) ELSE d[f]]
WrittenOver(d, fields, now) == [f \in Fields |-> IF f \in fields THEN Said(now, f) ELSE d[f]]

AtRest(w) == shown[w] # Absent /\ writing[w] = Absent
MayFail(trouble) == trouble \in SettingsTroubles
Press == presses > 0 /\ presses' = presses - 1
Logs(w, on) == saving' = [saving EXCEPT ![w] = on /\ HasRoot]

(* config_load, the changes, and then config_save: the copy of the file is    *)
(* the writer's own until it is swapped in.                                   *)
Takes(x, cfg, fields) ==
  writing' = [writing EXCEPT ![x] = [cfg |-> cfg, fields |-> fields]]
Differs(w, fields) == apart' = [apart EXCEPT ![w] = @ \cup fields]
KeepSettings(w, fields, now) ==
  \/ fields = {} /\ UNCHANGED <<writing, apart>>
  \/ fields # {} /\ Takes(w, WrittenOver(disk, fields, now), fields) /\ UNCHANGED apart
  \/ fields # {} /\ MayFail("load") /\ Differs(w, fields) /\ UNCHANGED writing

-----------------------------------------------------------------------------
OpenWindow(w) ==
  /\ shown[w] = Absent /\ Press
  /\ \/ /\ shown' = [shown EXCEPT ![w] = Reading(disk)] /\ Logs(w, disk.logs)
        /\ apart' = [apart EXCEPT ![w] = {}]
     \/ /\ MayFail("load") /\ shown' = [shown EXCEPT ![w] = Unread] /\ Logs(w, FALSE)
        /\ apart' = [apart EXCEPT ![w] = KeptFields]
  /\ UNCHANGED <<disk, editing, before, writing, stale>>

(* The settings box appears. *)
OpenBox(w) ==
  /\ AtRest(w) /\ ~editing[w] /\ Press
  /\ editing' = [editing EXCEPT ![w] = TRUE] /\ before' = [before EXCEPT ![w] = shown[w]]
  /\ UNCHANGED <<disk, shown, saving, writing, stale, apart>>

(* choose_theme from the strip, which writes it down there and then, and the  *)
(* controls of the box: choose_theme, choose_status_bar, choose_save_logs,    *)
(* choose_policy and choose_interval, which remember_setting leaves to its OK. *)
ChooseTheme(w) ==
  /\ AtRest(w) /\ ~editing[w] /\ Press
  /\ shown' = [shown EXCEPT ![w].light = ~@]
  /\ KeepSettings(w, {"light"}, shown'[w])
  /\ UNCHANGED <<disk, saving, editing, before, stale>>
Switch(w, f) ==
  /\ AtRest(w) /\ editing[w] /\ Press
  /\ shown' = [shown EXCEPT ![w][f] = ~@]
  /\ IF f = "logs" THEN HasRoot /\ Logs(w, ~shown[w].logs) ELSE UNCHANGED saving
  /\ UNCHANGED <<disk, editing, before, writing, stale, apart>>
ChoosePolicies(w, policy) ==
  /\ AtRest(w) /\ editing[w] /\ Press /\ shown' = [shown EXCEPT ![w].policy = policy]
  /\ UNCHANGED <<disk, saving, editing, before, writing, stale, apart>>
Every(n) == IF n < HoursMin THEN HoursMin ELSE IF n > EveryMax THEN EveryMax ELSE n
ChooseInterval(w, n, days) ==
  /\ AtRest(w) /\ editing[w] /\ Press
  /\ n = shown[w].every \/ (n \in Typed /\ days = shown[w].days)
  /\ shown' = [shown EXCEPT ![w].every = Every(n), ![w].days = days]
  /\ UNCHANGED <<disk, saving, editing, before, writing, stale, apart>>

(* OK: settings_write.  Cancel, Escape and any other way out: settings_cancel. *)
KeepChanges(w) ==
  /\ AtRest(w) /\ editing[w] /\ editing' = [editing EXCEPT ![w] = FALSE]
  /\ KeepSettings(w, Moved(before[w], shown[w]), shown[w])
  /\ UNCHANGED <<disk, shown, saving, before, stale, presses>>
Restores(w) ==
  IF before[w].logs # shown[w].logs THEN Logs(w, before[w].logs) ELSE UNCHANGED saving
CancelChanges(w) ==
  /\ AtRest(w) /\ editing[w] /\ editing' = [editing EXCEPT ![w] = FALSE]
  /\ shown' = [shown EXCEPT ![w] = before[w]] /\ Restores(w)
  /\ UNCHANGED <<disk, before, writing, stale, apart, presses>>

CloseWindow(w) ==
  /\ shown[w] # Absent /\ (writing[w] = Absent \/ MayFail("close"))
  /\ shown' = [shown EXCEPT ![w] = Absent] /\ writing' = [writing EXCEPT ![w] = Absent]
  /\ editing' = [editing EXCEPT ![w] = FALSE] /\ Logs(w, FALSE)
  /\ stale' = stale \ {w} /\ UNCHANGED <<disk, before, apart, presses>>

(* A task records which tab is in. *)
TakeRecord ==
  /\ writing[Task] = Absent /\ Press
  /\ Takes(Task, [disk EXCEPT !.tabs = ~@], {"tabs"})
  /\ UNCHANGED <<disk, shown, saving, editing, before, stale, apart>>

(* config_save: the copy is swapped in, or the file stays as it is. *)
Swap(x) ==
  /\ writing[x] # Absent
  /\ disk' = writing[x].cfg /\ writing' = [writing EXCEPT ![x] = Absent]
  /\ stale' = {y \in DOMAIN writing : y # x /\ writing[y] # Absent}
  /\ apart' = [w \in Windows |->
       LET own == IF w = x THEN writing[x].fields ELSE {}
           others == IF x \in stale THEN KeptFields ELSE IF w = x THEN {} ELSE writing[x].fields
       IN (apart[w] \cup others) \ own]
  /\ UNCHANGED <<shown, saving, editing, before, presses>>
SwapNothing(x) ==
  /\ MayFail("save") /\ writing[x] # Absent /\ writing' = [writing EXCEPT ![x] = Absent]
  /\ IF x \in Windows THEN Differs(x, writing[x].fields) ELSE UNCHANGED apart
  /\ stale' = stale \ {x}
  /\ UNCHANGED <<disk, shown, saving, editing, before, presses>>

SettingsInit ==
  /\ disk \in [light : {FALSE}, bar : {TRUE}, logs : {TRUE}, policy : {"auto"},
               hours : Hours, tabs : {FALSE}]
  /\ shown = [w \in Windows |-> Absent] /\ saving = [w \in Windows |-> FALSE]
  /\ editing = [w \in Windows |-> FALSE] /\ before = [w \in Windows |-> Unread]
  /\ writing = [x \in Windows \cup {Task} |-> Absent]
  /\ stale = {} /\ apart = [w \in Windows |-> {}] /\ presses = Presses

SettingsNext ==
  \/ \E w \in Windows :
       \/ OpenWindow(w) \/ OpenBox(w) \/ ChooseTheme(w)
       \/ \E f \in {"light", "bar", "logs"} : Switch(w, f)
       \/ \E policy \in Offered : ChoosePolicies(w, policy)
       \/ \E n \in Typed \cup {s.every : s \in {shown[w]} \ {Absent}}, days \in BOOLEAN :
            ChooseInterval(w, n, days)
       \/ KeepChanges(w) \/ CancelChanges(w) \/ CloseWindow(w)
  \/ TakeRecord
  \/ \E x \in Windows \cup {Task} : Swap(x) \/ SwapNothing(x)

SettingsSpec == SettingsInit /\ [][SettingsNext]_settingsVars

(* ------------------------------ properties -------------------------------- *)
(* A window that is not editing shows what the next one will open on, the     *)
(* interval in as many hours whichever unit says it, and writes a logfile      *)
(* exactly when it shows that it does; but for what it could not read or       *)
(* write, and what another window, or a writer that overlapped it, has put in  *)
(* the file since (src/gui/main.cpp, "Keeping, or not").                       *)
NextWindowAlike ==
  \A w \in Windows : AtRest(w) /\ ~editing[w] =>
    /\ \A f \in KeptFields \ apart[w] :
         IF f = "hours" THEN Span(shown[w]) = Span(Reading(disk)) ELSE shown[w][f] = disk[f]
    /\ "logs" \notin apart[w] => saving[w] = (shown[w].logs /\ HasRoot)

(* A writer that nobody overtook changes what it came to change and nothing   *)
(* else in the file: not a setting another window has kept since this one     *)
(* opened, and not the record of the tab that is in.                          *)
OthersStand ==
  [][\A x \in DOMAIN writing :
       /\ writing[x] # Absent /\ writing'[x] = Absent /\ disk' # disk /\ x \notin stale
       => \A f \in Fields \ writing[x].fields : disk'[f] = disk[f]
    ]_settingsVars
=============================================================================
