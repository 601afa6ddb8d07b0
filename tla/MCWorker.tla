------------------------------ MODULE MCWorker ------------------------------
(* Instances of Worker for TLC.                                             *)
EXTENDS Worker
CONSTANTS a, b

TwoTabs == {a, b}

(* Tabs put in and taken out, here and in a terminal; downloads and newer   *)
(* catalogues; and looks for a newer release.                               *)
Switching == {"install", "uninstall", "replace", "terminal"}
Fetching  == {"download", "update"}
Looking   == {"check", "check_asked", "upgrade"}
Each      == {Switching, Fetching, Looking}
=============================================================================
