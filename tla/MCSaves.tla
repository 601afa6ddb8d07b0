------------------------------ MODULE MCSaves -------------------------------
(***************************************************************************)
(* Saves for TLC: one tab.                                                  *)
(***************************************************************************)
EXTENDS Saves

CONSTANT guest

OneGuest == {guest}
=============================================================================
