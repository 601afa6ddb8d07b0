----------------------------- MODULE MCSessions ----------------------------
(***************************************************************************)
(* Installer for TLC, in one of two sessions: tabs `a` and `b` share a file  *)
(* and meet the failures that are only warned about; tab `c` has two files   *)
(* and meets what lies outside a call - an older installer, a catalogue that *)
(* changes, a record that was not saved - while the game is played.          *)
(***************************************************************************)
EXTENDS MCInstaller

CONSTANT c

ThreeTabs == {a, b, c}
ShippedByThree == [t \in ThreeTabs |-> IF t = c THEN {f1, f2} ELSE {f2}]
AskedByThree   == [t \in ThreeTabs |-> IF t = a THEN Extras ELSE {}]

Sessions == {
  [tabs |-> {a, b}, plays |-> 0, meets |-> {"record", "texts", "bindings", "palettes"}],
  [tabs |-> {c},    plays |-> 2, meets |-> {"legacy", "digest", "record"}]}

(* A session is about its own tabs: nothing was ever done to the others.      *)
Within(session) ==
  /\ troubles \subseteq session.meets
  /\ \A o \in Owners : played[o] <= session.plays
  /\ {uri, task.tab} \subseteq session.tabs \cup {Vanilla}
  /\ \A t \in Tabs \ session.tabs :
       /\ folder[t] = Shipped[t] /\ listed[t] = Shipped[t] /\ archive[t] = NoFile
       /\ t \notin installed \cup palettes \cup {keys, credit}
       /\ \A l \in Langs : texts[l] # t

OneSession == \E session \in Sessions : Within(session)
=============================================================================
