------------------------------- MODULE Saves -------------------------------
(***************************************************************************)
(* The savefile in the two forms N++ keeps it in (src/src/save.c) and        *)
(* Steam's copies of it (src/src/cloud.c).  A swap is planned in memory,      *)
(* then files the live save away, puts the other in, removes the form that   *)
(* was not written and goes through the accounts; a write that fails, or a   *)
(* later step of an uninstall that does, takes it back out of the archive    *)
(* it has made.  Installer has the same swap as one step of a whole call.    *)
(***************************************************************************)
EXTENDS Integers

CONSTANTS
  Guests,       \* the tabs
  AccountCount, \* the Steam accounts with N++ on this machine, 1 .. AccountCount
  CloudModes,   \* the values of --cloud-mode in use
  FreshPacked,  \* whether the save shipped may be gzipped: a set of BOOLEANs
  SavesTroubles, \* "undo", "cloud", "rest", "cut": what may go wrong
  MaxSaves,     \* bound: saves the game writes
  SwapCalls,    \* bound: calls made
  Nil, TornSave, NoBytes \* no file; what a write cut short leaves, which may be nothing at all

Vanilla == "original"                     \* nprofile_original.zip, and the game itself
Accounts == 1 .. AccountCount

(* What a savefile holds: the sessions whose progress it has. *)
Fresh == {}                                                \* the save shipped
SaveFile == [body : (SUBSET (1 .. MaxSaves)) \cup {TornSave, NoBytes}, packed : BOOLEAN]  \* gzipped

ASSUME SavesAssumption ==
  /\ AccountCount \in Nat /\ MaxSaves \in Nat /\ SwapCalls \in Nat
  /\ Guests \cap {Vanilla, "gz", "raw"} = {} /\ Nil \notin SaveFile /\ Nil \notin {"gz", "raw"}
  /\ FreshPacked \subseteq BOOLEAN /\ CloudModes \subseteq {"replace", "remove", "keep"}

VARIABLES
  personal,  \* nprofile.gz, nprofile and the archives: name -> SaveFile or Nil
  steam,     \* each account's copies: [gz : SaveFile or Nil, raw : BOOLEAN]
  build,     \* of the game: "old" reads nprofile only, "new" both
  inside,    \* the tab the library names, or Vanilla
  swap,      \* the call being made, or Nil
  told,      \* what the last call made of it
  writes,    \* saves the game has written
  swapsLeft, \* calls that may still be made
  ill        \* history: troubles the last call met
savesVars == <<personal, steam, build, inside, swap, told, writes, swapsLeft, ill>>

-----------------------------------------------------------------------------
(* What the game finds, and what it finds when an account launches it, Steam *)
(* putting its own copy back first.                                          *)
Seen == IF build = "new" /\ personal["gz"] # Nil THEN personal["gz"] ELSE personal["raw"]
Launched(a) == IF build = "new" /\ steam[a].gz # Nil THEN steam[a].gz ELSE Seen
Holds(file) == IF file = Nil THEN Nil ELSE file.body

Covers(file, copy) == Holds(file) \notin {Nil, TornSave, NoBytes} /\ copy.body \subseteq file.body

(* save_plan_build.  The gzipped form is the live one where there is one.     *)
Live == IF personal["gz"] # Nil THEN "gz" ELSE IF personal["raw"] # Nil THEN "raw" ELSE Nil
Other(name) == IF name = "gz" THEN "raw" ELSE "gz"
WrittenPacked(data, force) == IF data.packed THEN "gz" ELSE "raw"
WrittenAs(data, force) ==
  IF Live = "gz" /\ (data.packed \/ force) THEN "gz" ELSE "raw"
SwapPlan(from, to, data, mode, force) ==
  [filed |-> to, live |-> Live, was |-> IF Live = Nil THEN Nil ELSE personal[Live],
   name |-> WrittenAs(data, force), taken |-> from,
   put |-> [data EXCEPT !.packed = WrittenAs(data, force) = "gz"],
   mode |-> mode, step |-> IF Live = Nil THEN "save" ELSE "archive", at |-> 1, warned |-> FALSE]
PlanFits(plan, data) ==
  /\ data.body # NoBytes /\ ~(plan.was # Nil /\ plan.was.body = NoBytes)
  /\ ~(data.body = TornSave /\ data.packed /\ plan.name = "raw")   \* it does not unpack

SwapGoes(step) == swap' = [swap EXCEPT !.step = step]
SwapEnds(word) ==
  /\ swap' = Nil
  /\ told' = [word |-> word, was |-> Holds(swap.was), put |-> swap.put.body, mode |-> swap.mode]
Meet(trouble) == trouble \in SavesTroubles /\ ill' = ill \cup {trouble}
AtStep(step) == swap # Nil /\ swap.step = step
Installing == swap.filed = Vanilla

-----------------------------------------------------------------------------
BeginSwap(t, mode, force, packed) ==
  /\ swap = Nil /\ swapsLeft > 0 /\ swapsLeft' = swapsLeft - 1
  /\ inside \in {Vanilla, t}
  /\ LET to   == IF inside = Vanilla THEN Vanilla ELSE t
         from == IF inside = Vanilla THEN t ELSE Vanilla
         data == IF personal[from] = Nil THEN [body |-> Fresh, packed |-> packed]
                 ELSE personal[from]
         plan == SwapPlan(from, to, data, mode, force)
     IN PlanFits(plan, data) /\ swap' = plan
  /\ told' = [word |-> "nothing", was |-> Nil, put |-> Fresh, mode |-> mode] /\ ill' = {}
  /\ UNCHANGED <<personal, steam, build, inside, writes>>

(* save_plan_apply: the archive, verified before it is moved into place. *)
FileAwayOnce ==
  /\ AtStep("archive")
  /\ \/ /\ personal' = [personal EXCEPT ![swap.filed] = IF @ # Nil THEN @ ELSE swap.was]
        /\ SwapGoes("save") /\ UNCHANGED told
     \/ SwapEnds("failed") /\ UNCHANGED personal
  /\ UNCHANGED <<steam, build, inside, writes, swapsLeft, ill>>
FileAway ==
  /\ AtStep("archive")
  /\ \/ personal' = [personal EXCEPT ![swap.filed] = swap.was] /\ SwapGoes("save") /\ UNCHANGED told
     \/ SwapEnds("failed") /\ UNCHANGED personal
  /\ UNCHANGED <<steam, build, inside, writes, swapsLeft, ill>>

(* The save, by way of a temporary file, and then the form not written. *)
WriteSave ==
  /\ AtStep("save")
  /\ \/ /\ personal' = [personal EXCEPT ![swap.name] = swap.put] /\ UNCHANGED told
        /\ SwapGoes(IF personal[Other(swap.name)] # Nil THEN "other" ELSE "cloud")
     \/ SwapEnds("failed") /\ UNCHANGED personal
  /\ UNCHANGED <<steam, build, inside, writes, swapsLeft, ill>>
RemoveOther ==
  /\ AtStep("other")
  /\ \/ personal' = [personal EXCEPT ![Other(swap.name)] = Nil] /\ SwapGoes("cloud")
     \/ UNCHANGED personal /\ SwapGoes("undo")
  /\ UNCHANGED <<steam, build, inside, told, writes, swapsLeft, ill>>

(* cloud_apply, one account: an uncompressed copy goes, a gzipped one is      *)
(* replaced or goes too.  What fails is only warned about.                    *)
SyncSteam ==
  /\ AtStep("cloud") /\ swap.at <= AccountCount
  /\ LET copy == steam[swap.at]
         gone == [gz |-> Nil, raw |-> FALSE]
         new  == [gz |-> IF copy.gz = Nil \/ swap.mode = "remove" THEN Nil
                         ELSE [swap.put EXCEPT !.packed = TRUE], raw |-> FALSE]
         there == {n \in {"gz", "raw"} : copy[n] # gone[n]}
     IN IF swap.mode = "keep" \/ there = {}
        THEN UNCHANGED <<steam, ill>> /\ swap' = [swap EXCEPT !.at = @ + 1]
        ELSE \/ /\ steam' = [steam EXCEPT ![swap.at] = new]
                /\ swap' = [swap EXCEPT !.at = @ + 1] /\ UNCHANGED ill
             \/ /\ Meet("cloud") /\ swap' = [swap EXCEPT !.at = @ + 1, !.warned = TRUE]
                /\ \E failed \in SUBSET there \ {{}} :
                     steam' = [steam EXCEPT ![swap.at] =
                                 [n \in {"gz", "raw"} |-> IF n \in failed THEN copy[n] ELSE new[n]]]
  /\ UNCHANGED <<personal, build, inside, told, writes, swapsLeft>>

(* What follows the swap: the record of an install, the library and the level *)
(* files of an uninstall.                                                     *)
Conclude ==
  /\ AtStep("cloud") /\ swap.at > AccountCount
  /\ inside' = IF Installing THEN swap.taken ELSE Vanilla
  /\ SwapEnds(IF swap.warned THEN "warned" ELSE "done")
  /\ UNCHANGED <<personal, steam, build, writes, swapsLeft, ill>>
RestFails ==
  /\ AtStep("cloud") /\ swap.at > AccountCount /\ ~Installing /\ Meet("rest") /\ SwapGoes("undo")
  /\ UNCHANGED <<personal, steam, build, inside, told, writes, swapsLeft>>

(* save_plan_undo: the archive written back over the live save, in place, and *)
(* the one put in removed, where it is another file or there was none.        *)
UndoSwap ==
  /\ AtStep("undo")
  /\ \/ /\ swap.live # Nil /\ personal' = [personal EXCEPT ![swap.live] = personal[swap.filed]]
        /\ IF swap.live = swap.name THEN SwapEnds("failed")
           ELSE SwapGoes("unwrite") /\ UNCHANGED told
        /\ UNCHANGED ill
     \/ swap.live = Nil /\ SwapGoes("unwrite") /\ UNCHANGED <<personal, told, ill>>
     \/ /\ swap.live # Nil /\ Meet("undo") /\ SwapEnds("failed")
        /\ \E file \in {personal[swap.live], [swap.was EXCEPT !.body = TornSave],
                        [swap.was EXCEPT !.body = NoBytes]} :
             personal' = [personal EXCEPT ![swap.live] = file]
  /\ UNCHANGED <<steam, build, inside, writes, swapsLeft>>
Unwrite ==
  /\ AtStep("unwrite") /\ SwapEnds("failed")
  /\ \/ personal' = [personal EXCEPT ![swap.name] = Nil] /\ UNCHANGED ill
     \/ Meet("undo") /\ UNCHANGED personal
  /\ UNCHANGED <<steam, build, inside, writes, swapsLeft>>

(* The process ends.  The library names the tab of an install before the save *)
(* is touched, and of an uninstall until after; only the undo writes in place. *)
CutShort ==
  /\ swap # Nil /\ Meet("cut") /\ swap' = Nil
  /\ told' = [told EXCEPT !.word = "nothing"]
  /\ inside' = IF Installing THEN swap.taken ELSE swap.filed
  /\ \/ UNCHANGED personal
     \/ /\ AtStep("undo") /\ swap.live # Nil
        /\ \E body \in {TornSave, NoBytes} :
             personal' = [personal EXCEPT ![swap.live] = [swap.was EXCEPT !.body = body]]
  /\ UNCHANGED <<steam, build, writes, swapsLeft>>

-----------------------------------------------------------------------------
(* The game between calls.  Steam puts back the copy it has of the account    *)
(* that plays; the game reads a save and writes one in its own form, the      *)
(* other left or not, and Steam copies that, where its cloud is on.  The game *)
(* is updated.                                                                *)
Outdoors == swap = Nil /\ told' = [told EXCEPT !.word = "nothing"] /\ UNCHANGED <<swap, swapsLeft, ill>>
Played(file) ==
  [body |-> {writes'} \cup (IF Holds(file) \in {Nil, TornSave, NoBytes} THEN Fresh ELSE file.body),
   packed |-> build = "new"]
Play(a) ==
  /\ Outdoors /\ writes < MaxSaves /\ writes' = writes + 1
  /\ IF build = "old"
     THEN personal' = [personal EXCEPT !["raw"] = Played(Seen)] /\ UNCHANGED steam
     ELSE /\ \E raw \in {personal["raw"], Nil} :
               personal' = [personal EXCEPT !["gz"] = Played(Launched(a)), !["raw"] = raw]
          /\ \/ steam' = [steam EXCEPT ![a].gz = Played(Launched(a))]
             \/ steam[a].gz = Nil /\ UNCHANGED steam
  /\ UNCHANGED <<build, inside>>
Renew ==
  /\ Outdoors /\ build = "old" /\ build' = "new"
  /\ UNCHANGED <<personal, steam, inside, writes>>

SavesInit ==
  /\ build \in {"old", "new"} /\ inside = Vanilla /\ swap = Nil
  /\ personal = [n \in {"gz", "raw", Vanilla} \cup Guests |-> Nil]
  /\ steam \in [Accounts -> {[gz |-> Nil, raw |-> raw] : raw \in BOOLEAN}]
  /\ told = [word |-> "nothing", was |-> Nil, put |-> Fresh, mode |-> "keep"]
  /\ writes = 0 /\ swapsLeft = SwapCalls /\ ill = {}

SavesNext ==
  \/ \E t \in Guests, mode \in CloudModes, force \in BOOLEAN, packed \in FreshPacked :
       BeginSwap(t, mode, force, packed)
  \/ FileAway \/ WriteSave \/ RemoveOther \/ SyncSteam \/ Conclude \/ RestFails
  \/ UndoSwap \/ Unwrite \/ CutShort
  \/ \E a \in Accounts : Play(a)
  \/ Renew

SavesSpec == SavesInit /\ [][SavesNext]_savesVars

(* ------------------------------ properties -------------------------------- *)
(* Whatever fails, and wherever the process ends, the save that was live when *)
(* a call began is what the game finds, or lies whole in the archive this     *)
(* call made of it (save.h, "the save that is on disk is never overwritten    *)
(* until a verified copy of it is safely archived").                          *)
FiledFirst ==
  [][swap # Nil /\ swap.was # Nil =>
       \/ Holds(Seen') = swap.was.body
       \/ personal'[swap.filed] = swap.was]_savesVars

(* A call that went through has the game find the save it put in, whichever   *)
(* form it is in, and find it again when any account launches it, unless      *)
(* Steam's copies were kept or warned about; one that failed has the game     *)
(* find the save it found before, or none, unless the undo failed too; and a  *)
(* game that cannot read the gzipped form is never given one.                 *)
GameFinds ==
  /\ told.word \in {"done", "warned"} => Holds(Seen) = told.put
  /\ told.word = "done" /\ told.mode # "keep" => \A a \in Accounts : Holds(Launched(a)) = told.put
  /\ told.word = "failed" /\ "undo" \notin ill => Holds(Seen) = told.was
  /\ personal["gz"] # Nil => build = "new" /\ personal["gz"].packed
  /\ personal["raw"] # Nil => ~personal["raw"].packed

(* A copy of Steam's that a call replaces or removes has no progress that a    *)
(* save here, live or filed away, has not (cloud.h, "Nothing is archived      *)
(* here").                                                                     *)
CopiesMirror ==
  [][\A a \in Accounts :
       swap # Nil /\ steam[a].gz # Nil /\ steam'[a].gz # steam[a].gz =>
         \E n \in DOMAIN personal : Covers(personal[n], steam[a].gz)]_savesVars
=============================================================================
