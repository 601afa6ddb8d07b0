---------------------------- MODULE MCInstaller ----------------------------
(***************************************************************************)
(* Installer for TLC: two tabs, two level files.  Tab `a` ships both files  *)
(* and asks for palettes and bindings, tab `b` ships one and asks for none. *)
(***************************************************************************)
EXTENDS InstallerProps, TLC

CONSTANTS a, b, f1, f2

TwoTabs == {a, b}
OneFile == {f2}
OneTab  == {a}
TwoFiles == {f1, f2}
ShippedByTwo == [t \in TwoTabs |-> IF t = a THEN {f1, f2} ELSE {f2}]
AskedByTwo   == [t \in TwoTabs |-> IF t = a THEN Extras ELSE {}]
SharedByTwo  == [t \in TwoTabs |-> {f2}]
ShippedByOne == [t \in OneTab |-> {f1, f2}]
AskedByNone  == [t \in OneTab |-> {}]
AskedByOne   == [t \in OneTab |-> Extras]

(* A tab that ships both files treats them alike.                           *)
FilesAlike == Permutations(TwoFiles)
=============================================================================
