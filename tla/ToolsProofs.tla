----------------------------- MODULE ToolsProofs -----------------------------
(***************************************************************************)
(* Theorems about what tabber itself reads and writes, each component for   *)
(* itself: the savefile (Saves), its own update (Update), its state file    *)
(* (Settings) and the tabs it keeps (Store). For any tabs, accounts,        *)
(* releases, catalogues, windows, bounds and troubles, the end of the       *)
(* process among them.                                                      *)
(***************************************************************************)
EXTENDS Saves, Update, Settings, Store, TLAPS

(***************************************************************************)
(* The savefile: the save that was live is never overwritten before its    *)
(* copy is filed away, and the game finds the save it should, in the form   *)
(* it reads.                                                                *)
(***************************************************************************)

SaveNames == {"gz", "raw", Vanilla} \cup Guests
KeptSave  == SaveFile \cup {Nil}
Plans == [filed : Guests \cup {Vanilla}, live : {"gz", "raw", Nil}, was : KeptSave,
          name : {"gz", "raw"}, taken : Guests \cup {Vanilla}, put : SaveFile,
          mode : CloudModes, step : {"archive", "save", "other", "cloud", "undo", "unwrite"},
          at : Nat \ {0}, warned : BOOLEAN]

SavesTypes ==
  /\ personal \in [SaveNames -> KeptSave]
  /\ steam \in [Accounts -> [gz : KeptSave, raw : BOOLEAN]]
  /\ build \in {"old", "new"} /\ writes \in 0 .. MaxSaves
  /\ told = [word |-> told.word, was |-> told.was, put |-> told.put, mode |-> told.mode]
  /\ swap # Nil => swap \in Plans

(* The form a game that cannot read gzip would not find.                     *)
FormsHold ==
  /\ personal["gz"] # Nil => build = "new" /\ personal["gz"].packed
  /\ personal["raw"] # Nil => ~personal["raw"].packed

(* What a plan says of the save that was live and of the form it writes.     *)
PlanHolds ==
  swap # Nil =>
    /\ told.word = "nothing"
    /\ swap.live = Nil <=> swap.was = Nil
    /\ swap.live = "gz" => build = "new" /\ swap.was.packed
    /\ swap.live = "raw" => ~swap.was.packed
    /\ swap.name = "gz" => swap.live = "gz" /\ swap.put.packed
    /\ swap.name = "raw" => ~swap.put.packed
    /\ swap.live # "gz" => personal["gz"] = Nil

(* What each step finds done by the ones before it.                          *)
StepHolds ==
  swap # Nil =>
    /\ swap.step \in {"archive", "save"} => Seen = swap.was
    /\ swap.step = "archive" => swap.was # Nil
    /\ swap.step # "archive" /\ swap.was # Nil => personal[swap.filed] = swap.was
    /\ swap.step \in {"archive", "save", "other"} => swap.at = 1
    /\ swap.step \in {"other", "cloud"} => personal[swap.name] = swap.put
    /\ swap.step = "cloud" => personal[Other(swap.name)] = Nil
    /\ swap.step = "unwrite" => /\ swap.name = "raw" /\ swap.live # "raw"
                                /\ swap.live = "gz" => personal["gz"] = swap.was

(* The accounts the sweep has been through.                                  *)
SweepHolds ==
  swap # Nil /\ swap.step = "cloud" /\ swap.mode # "keep" /\ ~swap.warned =>
    \A a \in Accounts : a < swap.at /\ steam[a].gz # Nil => steam[a].gz.body = swap.put.body

SavesInv == SavesTypes /\ FormsHold /\ PlanHolds /\ StepHolds /\ SweepHolds /\ GameFinds

-----------------------------------------------------------------------------
(* Names of files that differ: the two forms and the archives.               *)
LEMMA Apart ==
  ASSUME SavesAssumption
  PROVE  /\ Nil \notin SaveFile /\ Nil # "gz" /\ Nil # "raw"
         /\ \A n \in Guests \cup {Vanilla} : n \in SaveNames /\ n # "gz" /\ n # "raw"
         /\ "gz" \in SaveNames /\ "raw" \in SaveNames
BY DEF SavesAssumption, SaveNames, Vanilla

(* The saves, the Cloud copies and the plan, as they are found.             *)
LEMMA StartsWell == SavesAssumption /\ SavesInit => SavesInv
<1> SUFFICES ASSUME SavesAssumption, SavesInit PROVE SavesInv
  OBVIOUS
<1>1. SavesTypes
  BY DEF SavesInit, SavesTypes, SavesAssumption, SaveNames, KeptSave, Accounts, Vanilla
<1>2. personal["gz"] = Nil /\ personal["raw"] = Nil /\ swap = Nil /\ told.word = "nothing"
  BY DEF SavesInit
<1> QED
  BY <1>1, <1>2 DEF SavesInv, FormsHold, PlanHolds, StepHolds, SweepHolds, GameFinds

(* A call that begins plans for the save that is live, and leaves it.         *)
LEMMA Begins ==
  ASSUME SavesAssumption, SavesInv, NEW t \in Guests, NEW mode \in CloudModes,
         NEW force \in BOOLEAN, NEW packed \in FreshPacked,
         BeginSwap(t, mode, force, packed)
  PROVE  SavesInv'
<1> DEFINE to   == IF inside = Vanilla THEN Vanilla ELSE t
           leaves == IF inside = Vanilla THEN t ELSE Vanilla
           data == IF personal[leaves] = Nil THEN [body |-> Fresh, packed |-> packed]
                   ELSE personal[leaves]
<1>1. /\ personal' = personal /\ steam' = steam /\ build' = build /\ writes' = writes
      /\ told' = [word |-> "nothing", was |-> Nil, put |-> Fresh, mode |-> mode]
      /\ swap' = SwapPlan(leaves, to, data, mode, force)
  BY DEF BeginSwap
<1>2. to \in Guests \cup {Vanilla} /\ leaves \in Guests \cup {Vanilla}
  OBVIOUS
<1>3. data \in SaveFile
  <2>1. [body |-> Fresh, packed |-> packed] \in SaveFile
    BY DEF SavesAssumption, Fresh, SaveFile
  <2>2. personal[leaves] \in SaveFile \cup {Nil}
    BY <1>2, Apart DEF SavesInv, SavesTypes, KeptSave
  <2> QED
    BY <2>1, <2>2
<1> DEFINE name == WrittenAs(data, force)
           put  == [data EXCEPT !.packed = name = "gz"]
           beforehand  == IF Live = Nil THEN Nil ELSE personal[Live]
<1>4. name \in {"gz", "raw"} /\ (name = "gz" => Live = "gz")
  BY DEF WrittenAs
<1>5. put \in SaveFile /\ (name = "gz" => put.packed) /\ (name = "raw" => ~put.packed)
  BY <1>3, <1>4 DEF SaveFile
<1>6. /\ Live \in {"gz", "raw", Nil} /\ beforehand \in KeptSave
      /\ (Live = Nil) <=> (beforehand = Nil)
      /\ Live = "gz" => build = "new" /\ beforehand.packed
      /\ Live = "raw" => ~beforehand.packed
      /\ Live # "gz" => personal["gz"] = Nil
      /\ Seen = beforehand
  BY Apart DEF SavesInv, SavesTypes, FormsHold, KeptSave, Live, Seen
<1>7. swap' = [filed |-> to, live |-> Live, was |-> beforehand, name |-> name, taken |-> leaves,
               put |-> put, mode |-> mode,
               step |-> IF Live = Nil THEN "save" ELSE "archive", at |-> 1, warned |-> FALSE]
  BY <1>1 DEF SwapPlan
<1> HIDE DEF to, leaves, data, name, put, beforehand
<1>8. SavesTypes'
  BY <1>1, <1>2, <1>4, <1>5, <1>6, <1>7 DEF SavesInv, SavesTypes, Plans
<1>9. PlanHolds'
  BY <1>1, <1>4, <1>5, <1>6, <1>7, Apart DEF PlanHolds
<1>10. StepHolds'
  BY <1>1, <1>6, <1>7, Apart DEF StepHolds, Seen
<1>11. FormsHold' /\ SweepHolds' /\ GameFinds'
  BY <1>1, <1>6, <1>7 DEF SavesInv, FormsHold, SweepHolds, GameFinds
<1> QED
  BY <1>8, <1>9, <1>10, <1>11 DEF SavesInv

-----------------------------------------------------------------------------
(* The next step of a call: the plan stays, but for the step it is at.       *)
LEMMA PlanGoesOn ==
  ASSUME SavesInv, swap # Nil, NEW step \in {"save", "other", "cloud", "undo", "unwrite"},
         SwapGoes(step)
  PROVE  /\ swap' \in Plans /\ swap'.step = step
         /\ swap'.filed = swap.filed /\ swap'.live = swap.live /\ swap'.was = swap.was
         /\ swap'.name = swap.name /\ swap'.put = swap.put /\ swap'.mode = swap.mode
         /\ swap'.at = swap.at /\ swap'.warned = swap.warned
BY DEF SwapGoes, SavesInv, SavesTypes, Plans

(* The end of a call, and what it says.                                      *)
LEMMA PlanIsOver ==
  ASSUME NEW word, SwapEnds(word)
  PROVE  /\ swap' = Nil /\ told'.word = word /\ told'.was = Holds(swap.was)
         /\ told'.put = swap.put.body /\ told'.mode = swap.mode
         /\ told' = [word |-> told'.word, was |-> told'.was, put |-> told'.put,
                     mode |-> told'.mode]
BY DEF SwapEnds

(* Nothing is said of what the game finds while a call is under way.         *)
LEMMA Unsaid ==
  ASSUME told'.word = "nothing", FormsHold'
  PROVE  GameFinds'
BY DEF FormsHold, GameFinds

(* The two forms are what the game reads; nothing else it finds matters.     *)
LEMMA SeenStays ==
  ASSUME personal'["gz"] = personal["gz"], personal'["raw"] = personal["raw"],
         build' = build, FormsHold
  PROVE  Seen' = Seen /\ FormsHold'
BY DEF Seen, FormsHold

(* What the plan of a call still under way says, when the step has changed    *)
(* no more than the files.                                                   *)
LEMMA PlanStays ==
  ASSUME SavesInv, swap # Nil, NEW step \in {"save", "other", "cloud", "undo", "unwrite"},
         SwapGoes(step), told' = told, build' = build,
         swap.live # "gz" => personal'["gz"] = Nil
  PROVE  PlanHolds'
BY PlanGoesOn DEF SavesInv, PlanHolds

(* save_plan_apply, the archive.                                             *)
LEMMA FilesAway ==
  ASSUME SavesAssumption, SavesInv, FileAway
  PROVE  SavesInv'
<1>1. /\ swap # Nil /\ swap.step = "archive" /\ swap \in Plans /\ told.word = "nothing"
      /\ build' = build /\ steam' = steam /\ writes' = writes
      /\ Seen = swap.was /\ swap.was # Nil
  BY DEF FileAway, AtStep, SavesInv, SavesTypes, PlanHolds, StepHolds
<1>2. CASE /\ personal' = [personal EXCEPT ![swap.filed] = swap.was]
           /\ SwapGoes("save") /\ told' = told
  <2>1. /\ swap.filed \in SaveNames /\ swap.filed # "gz" /\ swap.filed # "raw"
        /\ swap.was \in KeptSave
    BY <1>1, Apart DEF Plans
  <2>2. /\ personal' \in [SaveNames -> KeptSave] /\ personal'[swap.filed] = swap.was
        /\ personal'["gz"] = personal["gz"] /\ personal'["raw"] = personal["raw"]
    BY <1>2, <2>1, Apart DEF SavesInv, SavesTypes
  <2>3. Seen' = Seen /\ FormsHold'
    BY <1>1, <2>2, SeenStays DEF SavesInv
  <2>4. PlanHolds'
    BY <1>1, <1>2, <2>2, PlanStays DEF SavesInv, PlanHolds
  <2>5. StepHolds'
    BY <1>1, <1>2, <2>2, <2>3, PlanGoesOn DEF SavesInv, StepHolds
  <2>6. SavesTypes' /\ SweepHolds'
    BY <1>1, <1>2, <2>2, PlanGoesOn DEF SavesInv, SavesTypes, SweepHolds
  <2> QED
    BY <1>1, <1>2, <2>3, <2>4, <2>5, <2>6, Unsaid DEF SavesInv
<1>3. CASE SwapEnds("failed") /\ personal' = personal
  <2>1. Seen' = Seen /\ FormsHold'
    BY <1>1, <1>3, SeenStays DEF SavesInv
  <2>2. SavesTypes' /\ PlanHolds' /\ StepHolds' /\ SweepHolds'
    BY <1>1, <1>3, PlanIsOver DEF SavesInv, SavesTypes, PlanHolds, StepHolds, SweepHolds
  <2>3. GameFinds'
    BY <1>1, <1>3, <2>1, PlanIsOver DEF GameFinds, FormsHold, Holds
  <2> QED
    BY <2>1, <2>2, <2>3 DEF SavesInv
<1> QED
  BY <1>2, <1>3 DEF FileAway

(* save_plan_apply, the savefile by way of a temporary save.                 *)
LEMMA WritesSave ==
  ASSUME SavesAssumption, SavesInv, WriteSave
  PROVE  SavesInv'
<1>1. /\ swap # Nil /\ swap.step = "save" /\ swap \in Plans /\ told.word = "nothing"
      /\ build' = build /\ steam' = steam /\ writes' = writes /\ Seen = swap.was
      /\ swap.at = 1 /\ (swap.was # Nil => personal[swap.filed] = swap.was)
  BY DEF WriteSave, AtStep, SavesInv, SavesTypes, PlanHolds, StepHolds
<1>2. ASSUME NEW step \in {"other", "cloud"},
             personal' = [personal EXCEPT ![swap.name] = swap.put], told' = told,
             step = (IF personal[Other(swap.name)] # Nil THEN "other" ELSE "cloud"),
             SwapGoes(step)
      PROVE  SavesInv'
  <2>1. /\ swap.name \in {"gz", "raw"} /\ Other(swap.name) \in {"gz", "raw"} \ {swap.name}
        /\ swap.filed \in SaveNames /\ swap.filed # swap.name
        /\ swap.put \in SaveFile /\ swap.put # Nil
    BY <1>1, Apart DEF Plans, Other
  <2>2. /\ personal' \in [SaveNames -> KeptSave] /\ personal'[swap.name] = swap.put
        /\ \A n \in SaveNames \ {swap.name} : personal'[n] = personal[n]
    BY <1>2, <2>1, Apart DEF SavesInv, SavesTypes, KeptSave
  <2>3. FormsHold' /\ (swap.live # "gz" => personal'["gz"] = Nil)
    BY <1>1, <2>1, <2>2, Apart DEF SavesInv, FormsHold, PlanHolds
  <2>4. PlanHolds'
    BY <1>1, <1>2, <2>3, PlanStays
  <2>5. StepHolds'
    BY <1>1, <1>2, <2>1, <2>2, PlanGoesOn, Apart DEF StepHolds
  <2>6. SavesTypes' /\ SweepHolds'
    <3>1. SavesTypes'
      BY <1>1, <1>2, <2>2, PlanGoesOn DEF SavesInv, SavesTypes
    <3>2. \A a \in Accounts : ~(a < 1)
      BY DEF Accounts, SavesAssumption
    <3> QED
      BY <1>1, <1>2, <3>1, <3>2, PlanGoesOn DEF SweepHolds
  <2> QED
    BY <1>1, <1>2, <2>3, <2>4, <2>5, <2>6, Unsaid DEF SavesInv
<1>3. CASE SwapEnds("failed") /\ personal' = personal
  <2>1. Seen' = Seen /\ FormsHold'
    BY <1>1, <1>3, SeenStays DEF SavesInv
  <2>2. SavesTypes' /\ PlanHolds' /\ StepHolds' /\ SweepHolds'
    BY <1>1, <1>3, PlanIsOver DEF SavesInv, SavesTypes, PlanHolds, StepHolds, SweepHolds
  <2>3. GameFinds'
    BY <1>1, <1>3, <2>1, PlanIsOver DEF GameFinds, FormsHold, Holds
  <2> QED
    BY <2>1, <2>2, <2>3 DEF SavesInv
<1> QED
  BY <1>2, <1>3 DEF WriteSave
(* save_plan_apply, the form that was not written.                           *)
LEMMA RemovesOther ==
  ASSUME SavesAssumption, SavesInv, RemoveOther
  PROVE  SavesInv'
<1>1. /\ swap # Nil /\ swap.step = "other" /\ swap \in Plans /\ told.word = "nothing"
      /\ build' = build /\ steam' = steam /\ writes' = writes /\ told' = told
      /\ swap.at = 1 /\ (swap.was # Nil => personal[swap.filed] = swap.was)
      /\ personal[swap.name] = swap.put
  BY DEF RemoveOther, AtStep, SavesInv, SavesTypes, PlanHolds, StepHolds
<1>2. /\ swap.name \in {"gz", "raw"} /\ Other(swap.name) \in {"gz", "raw"} \ {swap.name}
      /\ swap.filed \in SaveNames /\ swap.filed # Other(swap.name)
  BY <1>1, Apart DEF Plans, Other
<1>3. CASE personal' = [personal EXCEPT ![Other(swap.name)] = Nil] /\ SwapGoes("cloud")
  <2>1. /\ personal' \in [SaveNames -> KeptSave] /\ personal'[Other(swap.name)] = Nil
        /\ \A n \in SaveNames \ {Other(swap.name)} : personal'[n] = personal[n]
    BY <1>2, <1>3, Apart DEF SavesInv, SavesTypes, KeptSave
  <2>2. FormsHold' /\ (swap.live # "gz" => personal'["gz"] = Nil)
    BY <1>1, <1>2, <2>1, Apart DEF SavesInv, FormsHold, PlanHolds
  <2>3. PlanHolds'
    BY <1>1, <1>3, <2>2, PlanStays
  <2>4. StepHolds'
    BY <1>1, <1>2, <1>3, <2>1, PlanGoesOn, Apart DEF StepHolds
  <2>5. SavesTypes'
    BY <1>1, <1>3, <2>1, PlanGoesOn DEF SavesInv, SavesTypes
  <2>6. SweepHolds'
    <3>1. \A a \in Accounts : ~(a < 1)
      BY DEF Accounts, SavesAssumption
    <3> QED
      BY <1>1, <1>3, <3>1, PlanGoesOn DEF SweepHolds
  <2> QED
    BY <1>1, <2>2, <2>3, <2>4, <2>5, <2>6, Unsaid DEF SavesInv
<1>4. CASE personal' = personal /\ SwapGoes("undo")
  <2>1. FormsHold' /\ PlanHolds'
    BY <1>1, <1>4, PlanStays DEF SavesInv, FormsHold, PlanHolds
  <2>2. SavesTypes' /\ StepHolds' /\ SweepHolds'
    BY <1>1, <1>4, PlanGoesOn DEF SavesInv, SavesTypes, StepHolds, SweepHolds
  <2> QED
    BY <1>1, <2>1, <2>2, Unsaid DEF SavesInv
<1> QED
  BY <1>3, <1>4 DEF RemoveOther

(* cloud_apply, one account.                                                 *)
LEMMA SyncsSteam ==
  ASSUME SavesAssumption, SavesInv, SyncSteam
  PROVE  SavesInv'
<1>1. /\ swap # Nil /\ swap.step = "cloud" /\ swap \in Plans /\ told.word = "nothing"
      /\ build' = build /\ personal' = personal /\ writes' = writes /\ told' = told
      /\ swap.at \in Accounts
  <2>1. swap # Nil /\ swap.step = "cloud" /\ swap.at <= AccountCount /\ swap \in Plans
    BY DEF SyncSteam, AtStep, SavesInv, SavesTypes
  <2>2. swap.at \in Accounts
    BY <2>1 DEF Plans, Accounts, SavesAssumption
  <2> QED
    BY <2>1, <2>2 DEF SyncSteam, SavesInv, PlanHolds
<1> DEFINE copy == steam[swap.at]
           gone == [gz |-> Nil, raw |-> FALSE]
           synced  == [gz |-> IF copy.gz = Nil \/ swap.mode = "remove" THEN Nil
                           ELSE [swap.put EXCEPT !.packed = TRUE], raw |-> FALSE]
           there == {n \in {"gz", "raw"} : copy[n] # gone[n]}
           Copies == [gz : KeptSave, raw : BOOLEAN]
<1>2. /\ copy \in Copies /\ synced \in Copies
      /\ synced.gz # Nil => synced.gz.body = swap.put.body
  <2>1. [swap.put EXCEPT !.packed = TRUE] \in SaveFile
    BY <1>1 DEF Plans, SaveFile
  <2> QED
    BY <1>1, <2>1 DEF SavesInv, SavesTypes, KeptSave, Plans, SaveFile
<1>3. \E warned \in BOOLEAN, put \in Copies :
        /\ swap' = [swap EXCEPT !.at = @ + 1, !.warned = warned]
        /\ steam' = [steam EXCEPT ![swap.at] = put]
        /\ swap.warned => warned
        /\ swap.mode # "keep" /\ ~warned /\ put.gz # Nil => put.gz.body = swap.put.body
  <2>1. CASE (swap.mode = "keep" \/ there = {}) /\ steam' = steam
             /\ swap' = [swap EXCEPT !.at = @ + 1]
    <3>1. swap.mode # "keep" => copy.gz = Nil
      BY <2>1
    <3>2. /\ swap' = [swap EXCEPT !.at = @ + 1, !.warned = swap.warned]
          /\ swap.warned \in BOOLEAN
      BY <1>1, <2>1 DEF Plans
    <3>3. steam' = [steam EXCEPT ![swap.at] = copy]
      BY <1>1, <2>1 DEF SavesInv, SavesTypes
    <3> QED
      BY <1>2, <3>1, <3>2, <3>3
  <2>2. CASE steam' = [steam EXCEPT ![swap.at] = synced] /\ swap' = [swap EXCEPT !.at = @ + 1]
    <3>1. /\ swap' = [swap EXCEPT !.at = @ + 1, !.warned = swap.warned]
          /\ swap.warned \in BOOLEAN
      BY <1>1, <2>2 DEF Plans
    <3> QED
      BY <1>2, <2>2, <3>1
  <2>3. ASSUME swap' = [swap EXCEPT !.at = @ + 1, !.warned = TRUE], NEW failed,
               steam' = [steam EXCEPT ![swap.at] =
                          [n \in {"gz", "raw"} |-> IF n \in failed THEN copy[n] ELSE synced[n]]]
        PROVE  \E put \in Copies : steam' = [steam EXCEPT ![swap.at] = put]
    <3> DEFINE put == [n \in {"gz", "raw"} |-> IF n \in failed THEN copy[n] ELSE synced[n]]
    <3>1. put \in Copies
      BY <1>2
    <3> QED
      BY <2>3, <3>1
  <2> QED
    BY <2>1, <2>2, <2>3 DEF SyncSteam
<1>4. PICK warned \in BOOLEAN, put \in Copies :
        /\ swap' = [swap EXCEPT !.at = @ + 1, !.warned = warned]
        /\ steam' = [steam EXCEPT ![swap.at] = put]
        /\ swap.warned => warned
        /\ swap.mode # "keep" /\ ~warned /\ put.gz # Nil => put.gz.body = swap.put.body
  BY <1>3
<1> HIDE DEF copy, synced, gone, there
<1>5. /\ swap' \in Plans /\ swap'.step = swap.step /\ swap'.at = swap.at + 1
      /\ swap'.filed = swap.filed /\ swap'.live = swap.live /\ swap'.was = swap.was
      /\ swap'.name = swap.name /\ swap'.put = swap.put /\ swap'.mode = swap.mode
      /\ swap'.warned = warned
  <2>1. swap.at + 1 \in Nat \ {0}
    BY <1>1 DEF Plans
  <2>2. swap' = [filed |-> swap.filed, live |-> swap.live, was |-> swap.was,
                 name |-> swap.name, taken |-> swap.taken, put |-> swap.put,
                 mode |-> swap.mode, step |-> swap.step, at |-> swap.at + 1,
                 warned |-> warned]
    BY <1>1, <1>4 DEF Plans
  <2> QED
    BY <1>1, <2>1, <2>2 DEF Plans
<1>6. /\ steam' \in [Accounts -> Copies] /\ steam'[swap.at] = put
      /\ \A a \in Accounts \ {swap.at} : steam'[a] = steam[a]
  BY <1>1, <1>4 DEF SavesInv, SavesTypes
<1>7. SavesTypes' /\ FormsHold' /\ PlanHolds' /\ StepHolds'
  BY <1>1, <1>5, <1>6 DEF SavesInv, SavesTypes, FormsHold, PlanHolds, StepHolds, Seen
<1>8. SweepHolds'
  <2> SUFFICES ASSUME swap.mode # "keep", ~warned, NEW a \in Accounts, a < swap.at + 1,
                      steam'[a].gz # Nil
               PROVE  steam'[a].gz.body = swap.put.body
    BY <1>5 DEF SweepHolds
  <2>1. CASE a = swap.at
    BY <1>4, <1>6, <2>1
  <2>2. CASE a # swap.at
    <3>1. a < swap.at /\ ~swap.warned /\ steam'[a] = steam[a]
      BY <1>1, <1>4, <1>6, <2>2 DEF Accounts, SavesAssumption
    <3> QED
      BY <1>1, <3>1 DEF SavesInv, SweepHolds
  <2> QED
    BY <2>1, <2>2
<1> QED
  BY <1>1, <1>7, <1>8, Unsaid DEF SavesInv

(* The tab is recorded, or the game is its own again.                        *)
LEMMA Concludes ==
  ASSUME SavesAssumption, SavesInv, Conclude
  PROVE  SavesInv'
<1>1. /\ swap # Nil /\ swap.step = "cloud" /\ swap \in Plans
      /\ build' = build /\ personal' = personal /\ writes' = writes /\ steam' = steam
      /\ swap.at \in Nat /\ swap.at > AccountCount
      /\ personal[swap.name] = swap.put /\ personal[Other(swap.name)] = Nil
      /\ (swap.name = "gz" => build = "new")
      /\ SwapEnds(IF swap.warned THEN "warned" ELSE "done")
  BY DEF Conclude, AtStep, SavesInv, SavesTypes, PlanHolds, StepHolds, Plans
<1>2. Seen = swap.put /\ swap.put # Nil
  BY <1>1, Apart DEF Plans, Other, Seen
<1>3. Seen' = Seen /\ FormsHold'
  BY <1>1, SeenStays DEF SavesInv
<1>4. SavesTypes' /\ PlanHolds' /\ StepHolds' /\ SweepHolds'
  BY <1>1, PlanIsOver DEF SavesInv, SavesTypes, PlanHolds, StepHolds, SweepHolds
<1>5. ASSUME told'.word = "done", told'.mode # "keep", NEW a \in Accounts
      PROVE  Holds(Launched(a)') = told'.put
  <2>1. ~swap.warned /\ swap.mode # "keep" /\ a < swap.at
    BY <1>1, <1>5, PlanIsOver DEF Accounts, SavesAssumption
  <2>2. steam[a].gz # Nil => steam[a].gz.body = swap.put.body
    BY <1>1, <2>1 DEF SavesInv, SweepHolds
  <2> QED
    BY <1>1, <1>2, <1>3, <2>2, PlanIsOver DEF Launched, Holds
<1>6. GameFinds'
  BY <1>1, <1>2, <1>3, <1>5, PlanIsOver DEF GameFinds, FormsHold, Holds
<1> QED
  BY <1>3, <1>4, <1>6 DEF SavesInv

(* The library or a level save of an uninstall could not be written.         *)
LEMMA RestFailing ==
  ASSUME SavesAssumption, SavesInv, RestFails
  PROVE  SavesInv'
<1>1. /\ swap # Nil /\ swap.step = "cloud" /\ swap \in Plans /\ told.word = "nothing"
      /\ build' = build /\ personal' = personal /\ writes' = writes /\ steam' = steam
      /\ told' = told /\ SwapGoes("undo")
  BY DEF RestFails, AtStep, SavesInv, SavesTypes, PlanHolds
<1>2. FormsHold' /\ PlanHolds'
  BY <1>1, PlanStays DEF SavesInv, FormsHold, PlanHolds
<1>3. SavesTypes' /\ StepHolds' /\ SweepHolds'
  BY <1>1, PlanGoesOn DEF SavesInv, SavesTypes, StepHolds, SweepHolds
<1> QED
  BY <1>1, <1>2, <1>3, Unsaid DEF SavesInv
(* What a write cut short leaves is in the form of what was written.         *)
LEMMA WriteCut ==
  ASSUME NEW save \in SaveFile, NEW body \in {TornSave, NoBytes}
  PROVE  /\ [save EXCEPT !.body = body] \in SaveFile
         /\ [save EXCEPT !.body = body].packed = save.packed
<1>1. [save EXCEPT !.body = body] = [body |-> body, packed |-> save.packed]
  BY DEF SaveFile
<1>2. save.packed \in BOOLEAN
  BY DEF SaveFile
<1>3. [body |-> body, packed |-> save.packed] \in SaveFile
  BY <1>2 DEF SaveFile
<1> QED
  BY <1>1, <1>3

(* save_plan_undo, the archive written back over the save that was live.     *)
LEMMA UndoesSwap ==
  ASSUME SavesAssumption, SavesInv, UndoSwap
  PROVE  SavesInv'
<1>1. /\ swap # Nil /\ swap.step = "undo" /\ swap \in Plans /\ told.word = "nothing"
      /\ build' = build /\ steam' = steam /\ writes' = writes
      /\ (swap.was # Nil => personal[swap.filed] = swap.was)
      /\ (swap.live = Nil <=> swap.was = Nil)
      /\ (swap.live = "gz" => build = "new" /\ swap.was.packed)
      /\ (swap.live = "raw" => ~swap.was.packed)
      /\ (swap.name = "gz" => swap.live = "gz")
      /\ (swap.live # "gz" => personal["gz"] = Nil)
  BY DEF UndoSwap, AtStep, SavesInv, SavesTypes, PlanHolds, StepHolds
<1>2. /\ swap.name \in {"gz", "raw"} /\ swap.live \in {"gz", "raw", Nil} /\ swap.was \in KeptSave
      /\ swap.filed \in SaveNames /\ swap.filed # "gz" /\ swap.filed # "raw"
  BY <1>1, Apart DEF Plans
<1>3. ASSUME swap.live # Nil, NEW save \in SaveFile, save.packed = swap.was.packed,
             personal' = [personal EXCEPT ![swap.live] = save]
      PROVE  /\ personal' \in [SaveNames -> KeptSave] /\ personal'[swap.live] = save
             /\ \A n \in SaveNames \ {swap.live} : personal'[n] = personal[n]
             /\ FormsHold' /\ (swap.live # "gz" => personal'["gz"] = Nil)
  <2>1. /\ personal' \in [SaveNames -> KeptSave] /\ personal'[swap.live] = save
        /\ \A n \in SaveNames \ {swap.live} : personal'[n] = personal[n]
    BY <1>2, <1>3, Apart DEF SavesInv, SavesTypes, KeptSave
  <2>2. FormsHold'
    BY <1>1, <1>2, <1>3, <2>1, Apart DEF SavesInv, FormsHold
  <2>3. swap.live # "gz" => personal'["gz"] = Nil
    BY <1>1, <2>1, Apart
  <2> QED
    BY <2>1, <2>2, <2>3
<1>4. CASE /\ swap.live # Nil /\ personal' = [personal EXCEPT ![swap.live] = personal[swap.filed]]
           /\ IF swap.live = swap.name THEN SwapEnds("failed")
              ELSE SwapGoes("unwrite") /\ told' = told
  <2>1. personal[swap.filed] = swap.was /\ swap.was \in SaveFile
    BY <1>1, <1>2, <1>4 DEF KeptSave
  <2>2. /\ personal' \in [SaveNames -> KeptSave] /\ personal'[swap.live] = swap.was
        /\ \A n \in SaveNames \ {swap.live} : personal'[n] = personal[n]
        /\ FormsHold' /\ (swap.live # "gz" => personal'["gz"] = Nil)
    BY <1>3, <1>4, <2>1
  <2>3. CASE swap.live = swap.name /\ SwapEnds("failed")
    <3>1. Seen' = swap.was
      BY <1>1, <1>2, <2>1, <2>2, <2>3, Apart DEF Seen
    <3>2. SavesTypes' /\ PlanHolds' /\ StepHolds' /\ SweepHolds'
      BY <1>1, <2>2, <2>3, PlanIsOver DEF SavesInv, SavesTypes, PlanHolds, StepHolds, SweepHolds
    <3>3. GameFinds'
      BY <2>2, <2>3, <3>1, PlanIsOver DEF GameFinds, FormsHold, Holds
    <3> QED
      BY <2>2, <3>2, <3>3 DEF SavesInv
  <2>4. CASE swap.live # swap.name /\ SwapGoes("unwrite") /\ told' = told
    <3>1. swap.live = "gz" /\ swap.name = "raw"
      BY <1>1, <1>2, <1>4, <2>4
    <3>2. PlanHolds'
      BY <1>1, <2>2, <2>4, PlanStays
    <3>3. StepHolds'
      BY <1>1, <1>2, <2>2, <2>4, <3>1, PlanGoesOn DEF StepHolds
    <3>4. SavesTypes' /\ SweepHolds'
      BY <1>1, <2>2, <2>4, PlanGoesOn DEF SavesInv, SavesTypes, SweepHolds
    <3> QED
      BY <1>1, <2>2, <2>4, <3>2, <3>3, <3>4, Unsaid DEF SavesInv
  <2> QED
    BY <1>4, <2>3, <2>4
<1>5. CASE swap.live = Nil /\ SwapGoes("unwrite") /\ personal' = personal /\ told' = told
  <2>1. swap.name = "raw" /\ swap.live # "raw" /\ swap.live # "gz"
    BY <1>1, <1>2, <1>5, Apart
  <2>2. FormsHold' /\ PlanHolds'
    BY <1>1, <1>5, PlanStays DEF SavesInv, FormsHold, PlanHolds
  <2>3. SavesTypes' /\ StepHolds' /\ SweepHolds'
    BY <1>1, <1>5, <2>1, PlanGoesOn DEF SavesInv, SavesTypes, StepHolds, SweepHolds
  <2> QED
    BY <1>1, <1>5, <2>2, <2>3, Unsaid DEF SavesInv
<1>6. ASSUME swap.live # Nil, SwapEnds("failed"), ill' = ill \cup {"undo"},
             NEW save \in {personal[swap.live], [swap.was EXCEPT !.body = TornSave],
                           [swap.was EXCEPT !.body = NoBytes]},
             personal' = [personal EXCEPT ![swap.live] = save]
      PROVE  SavesInv'
  <2>1. personal' \in [SaveNames -> KeptSave] /\ FormsHold'
    <3>1. CASE save = personal[swap.live]
      <4>1. personal' = personal
        BY <1>2, <1>6, <3>1, Apart DEF SavesInv, SavesTypes
      <4> QED
        BY <1>1, <4>1 DEF SavesInv, SavesTypes, FormsHold
    <3>2. CASE save # personal[swap.live]
      <4>1. swap.was \in SaveFile
        BY <1>1, <1>2, <1>6 DEF KeptSave
      <4>2. save \in SaveFile /\ save.packed = swap.was.packed
        BY <1>6, <3>2, <4>1, WriteCut
      <4> QED
        BY <1>3, <1>6, <4>2
    <3> QED
      BY <3>1, <3>2
  <2>2. SavesTypes' /\ PlanHolds' /\ StepHolds' /\ SweepHolds'
    BY <1>1, <1>6, <2>1, PlanIsOver DEF SavesInv, SavesTypes, PlanHolds, StepHolds, SweepHolds
  <2>3. GameFinds'
    BY <1>6, <2>1, PlanIsOver DEF GameFinds, FormsHold
  <2> QED
    BY <2>1, <2>2, <2>3 DEF SavesInv
<1> QED
  BY <1>4, <1>5, <1>6 DEF UndoSwap, Meet

(* save_plan_undo, the save that was put in.                                 *)
LEMMA Unwrites ==
  ASSUME SavesAssumption, SavesInv, Unwrite
  PROVE  SavesInv'
<1>1. /\ swap # Nil /\ swap.step = "unwrite" /\ swap \in Plans
      /\ build' = build /\ steam' = steam /\ writes' = writes /\ SwapEnds("failed")
      /\ swap.name = "raw" /\ swap.live # "raw"
      /\ (swap.live = "gz" => personal["gz"] = swap.was /\ build = "new")
      /\ (swap.live # "gz" => personal["gz"] = Nil)
      /\ (swap.live = Nil <=> swap.was = Nil)
  BY DEF Unwrite, AtStep, SavesInv, SavesTypes, PlanHolds, StepHolds
<1>2. personal' \in [SaveNames -> KeptSave] /\ personal'["gz"] = personal["gz"]
      /\ personal'["raw"] \in {personal["raw"], Nil}
  BY <1>1, Apart DEF Unwrite, SavesInv, SavesTypes, KeptSave
<1>3. FormsHold'
  BY <1>1, <1>2 DEF SavesInv, FormsHold
<1>4. SavesTypes' /\ PlanHolds' /\ StepHolds' /\ SweepHolds'
  BY <1>1, <1>2, PlanIsOver DEF SavesInv, SavesTypes, PlanHolds, StepHolds, SweepHolds
<1>5. Seen' = swap.was \/ "undo" \in ill'
  <2>1. CASE personal' = [personal EXCEPT ![swap.name] = Nil]
    <3>1. personal'["raw"] = Nil
      BY <1>1, <2>1, Apart DEF SavesInv, SavesTypes
    <3>2. swap.live \in {"gz", Nil}
      BY <1>1 DEF Plans
    <3> QED
      BY <1>1, <1>2, <3>1, <3>2, Apart DEF Seen
  <2>2. CASE Meet("undo")
    BY <2>2 DEF Meet
  <2> QED
    BY <2>1, <2>2 DEF Unwrite
<1>6. GameFinds'
  BY <1>1, <1>3, <1>5, PlanIsOver DEF GameFinds, FormsHold, Holds
<1> QED
  BY <1>3, <1>4, <1>6 DEF SavesInv

(* The process ends.                                                         *)
LEMMA CutsShort ==
  ASSUME SavesAssumption, SavesInv, CutShort
  PROVE  SavesInv'
<1>1. /\ swap # Nil /\ swap \in Plans /\ swap' = Nil
      /\ build' = build /\ steam' = steam /\ writes' = writes
      /\ told' = [told EXCEPT !.word = "nothing"]
  BY DEF CutShort, SavesInv, SavesTypes
<1>2. personal' \in [SaveNames -> KeptSave] /\ FormsHold'
  <2>1. CASE personal' = personal
    BY <1>1, <2>1 DEF SavesInv, SavesTypes, FormsHold
  <2>2. ASSUME swap.live # Nil, NEW body \in {TornSave, NoBytes},
               personal' = [personal EXCEPT ![swap.live] = [swap.was EXCEPT !.body = body]]
        PROVE  personal' \in [SaveNames -> KeptSave] /\ FormsHold'
    <3>1. swap.was \in SaveFile /\ swap.live \in {"gz", "raw"}
      BY <1>1, <2>2 DEF SavesInv, PlanHolds, Plans, KeptSave
    <3> DEFINE save == [swap.was EXCEPT !.body = body]
    <3>2. save \in SaveFile /\ save.packed = swap.was.packed
      BY <2>2, <3>1, WriteCut
    <3> HIDE DEF save
    <3>3. /\ personal' \in [SaveNames -> KeptSave] /\ personal'[swap.live] = save
          /\ \A n \in SaveNames \ {swap.live} : personal'[n] = personal[n]
      BY <2>2, <3>1, <3>2, Apart DEF SavesInv, SavesTypes, KeptSave, save
    <3>4. FormsHold'
      BY <1>1, <3>1, <3>2, <3>3, Apart DEF SavesInv, FormsHold, PlanHolds
    <3> QED
      BY <3>3, <3>4
  <2> QED
    BY <2>1, <2>2 DEF CutShort
<1>3. told'.word = "nothing" /\
      told' = [word |-> told'.word, was |-> told'.was, put |-> told'.put, mode |-> told'.mode]
  BY <1>1 DEF SavesInv, SavesTypes
<1>4. SavesTypes' /\ PlanHolds' /\ StepHolds' /\ SweepHolds'
  BY <1>1, <1>2, <1>3 DEF SavesInv, SavesTypes, PlanHolds, StepHolds, SweepHolds
<1> QED
  BY <1>2, <1>3, <1>4, Unsaid DEF SavesInv
-----------------------------------------------------------------------------
(* A save of the game's is in the form its build writes.                     *)
LEMMA GamesSave ==
  ASSUME SavesAssumption, SavesInv, writes < MaxSaves, writes' = writes + 1,
         NEW save \in KeptSave
  PROVE  /\ Played(save) \in SaveFile /\ writes' \in 0 .. MaxSaves
         /\ Played(save).packed <=> build = "new"
<1> DEFINE sessions == IF Holds(save) \in {Nil, TornSave, NoBytes} THEN Fresh ELSE save.body
           packed == build = "new"
<1>1. writes' \in 1 .. MaxSaves
  BY DEF SavesAssumption, SavesInv, SavesTypes
<1>2. sessions \in SUBSET (1 .. MaxSaves)
  BY DEF KeptSave, SaveFile, Holds, Fresh
<1>3. packed \in BOOLEAN
  OBVIOUS
<1>4. Played(save) = [body |-> {writes'} \cup sessions, packed |-> packed]
  BY DEF Played
<1> HIDE DEF sessions
<1>5. {writes'} \cup sessions \in SUBSET (1 .. MaxSaves)
  BY <1>1, <1>2
<1>6. Played(save) \in SaveFile
  <2> HIDE DEF packed
  <2> QED
    BY <1>3, <1>4, <1>5 DEF SaveFile
<1>7. Played(save).packed = packed
  <2> HIDE DEF packed
  <2> QED
    BY <1>4
<1>8. writes' \in 0 .. MaxSaves
  BY <1>1
<1>9. Played(save).packed <=> build = "new"
  BY <1>7, Zenon
<1> QED
  BY <1>6, <1>8, <1>9

(* The game is played, by an account or with a build of before them.         *)
LEMMA Plays ==
  ASSUME SavesAssumption, SavesInv, NEW a \in Accounts, Play(a)
  PROVE  SavesInv'
<1>1. /\ swap = Nil /\ swap' = swap /\ build' = build /\ writes < MaxSaves
      /\ writes' = writes + 1 /\ told' = [told EXCEPT !.word = "nothing"]
  BY DEF Play, Outdoors
<1>2. Seen \in KeptSave /\ Launched(a) \in KeptSave
  <2>1. Seen \in KeptSave
    BY Apart DEF SavesInv, SavesTypes, Seen
  <2>2. steam[a].gz \in KeptSave
    BY DEF SavesInv, SavesTypes
  <2> QED
    BY <2>1, <2>2 DEF Launched
<1>3. PICK save \in SaveFile : /\ save.packed <=> build = "new"
                               /\ save = Played(IF build = "old" THEN Seen ELSE Launched(a))
  BY <1>1, <1>2, GamesSave
<1>4. /\ personal' \in [SaveNames -> KeptSave] /\ steam' \in [Accounts -> [gz : KeptSave, raw : BOOLEAN]]
      /\ FormsHold'
  <2>1. CASE build = "old" /\ personal' = [personal EXCEPT !["raw"] = save] /\ steam' = steam
    <3>1. personal' \in [SaveNames -> KeptSave] /\ personal'["raw"] = save
          /\ personal'["gz"] = personal["gz"]
      BY <2>1, Apart DEF SavesInv, SavesTypes, KeptSave
    <3>2. FormsHold'
      BY <1>1, <1>3, <2>1, <3>1 DEF SavesInv, FormsHold
    <3> QED
      BY <2>1, <3>1, <3>2 DEF SavesInv, SavesTypes
  <2>2. ASSUME build # "old", NEW raw \in {personal["raw"], Nil},
               personal' = [personal EXCEPT !["gz"] = save, !["raw"] = raw],
               steam' = [steam EXCEPT ![a].gz = save] \/ steam' = steam
        PROVE  /\ personal' \in [SaveNames -> KeptSave]
               /\ steam' \in [Accounts -> [gz : KeptSave, raw : BOOLEAN]] /\ FormsHold'
    <3>1. personal' \in [SaveNames -> KeptSave] /\ personal'["raw"] = raw /\ personal'["gz"] = save
      BY <2>2, Apart DEF SavesInv, SavesTypes, KeptSave
    <3>2. steam' \in [Accounts -> [gz : KeptSave, raw : BOOLEAN]]
      BY <2>2 DEF SavesInv, SavesTypes, KeptSave
    <3>3. build = "new"
      BY <2>2 DEF SavesInv, SavesTypes
    <3>4. FormsHold'
      BY <1>1, <1>3, <2>2, <3>1, <3>3 DEF SavesInv, FormsHold
    <3> QED
      BY <3>1, <3>2, <3>4
  <2> QED
    BY <1>3, <2>1, <2>2 DEF Play
<1>5. writes' \in 0 .. MaxSaves
  BY <1>1, <1>2, GamesSave
<1>6. told'.word = "nothing" /\
      told' = [word |-> told'.word, was |-> told'.was, put |-> told'.put, mode |-> told'.mode]
  BY <1>1 DEF SavesInv, SavesTypes
<1>7. SavesTypes' /\ PlanHolds' /\ StepHolds' /\ SweepHolds'
  BY <1>1, <1>4, <1>5, <1>6 DEF SavesInv, SavesTypes, PlanHolds, StepHolds, SweepHolds
<1> QED
  BY <1>4, <1>6, <1>7, Unsaid DEF SavesInv

(* The game is updated.                                                      *)
LEMMA Renews ==
  ASSUME SavesAssumption, SavesInv, Renew
  PROVE  SavesInv'
<1>1. /\ swap = Nil /\ swap' = swap /\ build' = "new" /\ personal' = personal
      /\ steam' = steam /\ writes' = writes /\ told' = [told EXCEPT !.word = "nothing"]
  BY DEF Renew, Outdoors
<1>2. told'.word = "nothing" /\
      told' = [word |-> told'.word, was |-> told'.was, put |-> told'.put, mode |-> told'.mode]
  BY <1>1 DEF SavesInv, SavesTypes
<1>3. SavesTypes' /\ FormsHold' /\ PlanHolds' /\ StepHolds' /\ SweepHolds'
  BY <1>1, <1>2 DEF SavesInv, SavesTypes, FormsHold, PlanHolds, StepHolds, SweepHolds
<1> QED
  BY <1>2, <1>3, Unsaid DEF SavesInv

(* It holds while nothing changes.                                          *)
LEMMA PlanStands ==
  ASSUME SavesInv, UNCHANGED savesVars
  PROVE  SavesInv'
BY DEF SavesInv, SavesTypes, FormsHold, PlanHolds, StepHolds, SweepHolds, GameFinds, savesVars,
       Seen, Launched

(* The invariant of all that follows.                                        *)
LEMMA SavesInvariant == SavesSpec => []SavesInv
<1>1. SavesInit => SavesInv
  BY StartsWell, SavesAssumption
<1>2. SavesInv /\ [SavesNext]_savesVars => SavesInv'
  BY Begins, FilesAway, WritesSave, RemovesOther, SyncsSteam, Concludes, RestFailing,
     UndoesSwap, Unwrites, CutsShort, Plays, Renews, PlanStands, SavesAssumption
  DEF SavesNext
<1> QED
  BY <1>1, <1>2, PTL DEF SavesSpec

-----------------------------------------------------------------------------
(* The theorems.                                                             *)

(* After a call that went through the game finds the save it put in, and      *)
(* after one that failed the one it found before; whatever fails, and for any *)
(* number of accounts and calls (save_plan_apply, save_plan_undo, cloud_apply). *)
THEOREM GameAlwaysFinds == SavesSpec => []GameFinds
<1>1. SavesInv => GameFinds
  BY DEF SavesInv
<1> QED
  BY <1>1, SavesInvariant, PTL

(* The save that was live is what the game finds until it lies in an archive, *)
(* and there it stays until the call is over (save_plan_apply, its first step). *)
THEOREM LiveIsFiledFirst == SavesSpec => FiledFirst
<1> DEFINE Safe == swap # Nil /\ swap.was # Nil =>
                     \/ Holds(Seen') = swap.was.body
                     \/ personal'[swap.filed] = swap.was
<1>1. SavesInv /\ [SavesNext]_savesVars => Safe
  <2> SUFFICES ASSUME SavesInv, [SavesNext]_savesVars, swap # Nil, swap.was # Nil
               PROVE  Holds(Seen') = swap.was.body \/ personal'[swap.filed] = swap.was
    OBVIOUS
  <2>1. /\ swap \in Plans /\ (swap.step = "archive" => Seen = swap.was)
        /\ (swap.step # "archive" => personal[swap.filed] = swap.was)
        /\ personal \in [SaveNames -> KeptSave]
    BY DEF SavesInv, SavesTypes, StepHolds
  <2>2. swap.filed \in SaveNames /\ swap.filed # "gz" /\ swap.filed # "raw"
        /\ swap.live \in {"gz", "raw", Nil} /\ swap.name \in {"gz", "raw"}
        /\ Other(swap.name) \in {"gz", "raw"}
    BY <2>1, Apart, SavesAssumption DEF Plans, Other
  <2>3. CASE swap.step # "archive"
    <3>1. personal'[swap.filed] = personal[swap.filed]
      BY <2>1, <2>2, <2>3, Apart, SavesAssumption
         DEF SavesNext, savesVars, BeginSwap, FileAway, WriteSave, RemoveOther, SyncSteam,
             Conclude, RestFails, UndoSwap, Unwrite, CutShort, Play, Renew, Outdoors, AtStep
    <3> QED
      BY <2>1, <2>3, <3>1
  <2>4. CASE swap.step = "archive"
    <3>1. \/ personal'[swap.filed] = swap.was
          \/ personal' = personal /\ build' = build
      BY <2>1, <2>2, <2>4, SavesAssumption
         DEF SavesNext, savesVars, BeginSwap, FileAway, WriteSave, RemoveOther, SyncSteam,
             Conclude, RestFails, UndoSwap, Unwrite, CutShort, Play, Renew, Outdoors, AtStep
    <3> QED
      BY <2>1, <2>4, <3>1 DEF Seen, Holds
  <2> QED
    BY <2>3, <2>4
<1>2. SavesInv /\ [SavesNext]_savesVars => [Safe]_savesVars
  BY <1>1
<1> QED
  BY <1>2, SavesInvariant, PTL DEF SavesSpec, FiledFirst

(***************************************************************************)
(* The update: it never takes from anyone what they had. There is always a  *)
(* tabber that starts, a version turned down is not put up again, looks are *)
(* the interval apart, what is kept is later than what was there, and a     *)
(* window says what it is when that is news.                                *)
(***************************************************************************)

(***************************************************************************)
(* There is always a tabber that starts: the old binary is the way back for *)
(* as long as an update is between its renames, and what an update puts in  *)
(* its place is kept only once it has been seen to start.                   *)
(***************************************************************************)
(* An update under way has the way back.                                    *)
WayBack == "lost" \notin harmed /\ UnderWay => Starts(old)

(* The fields of an update. *)
UpHolds == DOMAIN up = {"step", "asked", "by", "kept"}

(* A terminal waits for its update; a window is open, or sweeps once more.   *)
Busy == up.step # "idle" => thread \in {"busy", "open", "sweepAgain"}

StartsInv == UpHolds /\ Busy /\ WayBack /\ StillStarts

(* The steps that rename and delete nothing that starts.                    *)
LEMMA Untouched ==
  ASSUME StartsInv, UpHolds', Busy', UNCHANGED <<exe, old, harmed>>,
         UnderWay' => UnderWay,
         UnderWay /\ ~UnderWay' => Starts(exe)
  PROVE  StartsInv'
BY DEF StartsInv, WayBack, StillStarts, Starts

(* A binary that starts, and no update under way.                           *)
LEMMA StartsInit == UpdateInit => StartsInv
BY UpdateAssumption
DEF UpdateInit, StartsInv, UpHolds, Busy, WayBack, StillStarts, UnderWay, Idle, Starts

(* The record of the update under way stays one.                            *)
LEMMA UpNext == ASSUME UpHolds, [UpdateNext]_updateVars PROVE UpHolds'
BY DEF UpHolds, UpdateNext, updateVars, files, myself, past, Idle, Goes, Ends, GoesOff,
       MainGoes, Stays, Outside,
       Start, SweepOld, SweepNew, CheckForUpdate, CmdUpgrade, Poll, Button, LookCourtesy,
       LookCommand, LookWindow, Upgrade, Accept, Decline, Refused, OpenNew, WriteNew,
       WriteNewFails, MoveAside, AsideFails, SwapIn, SwapFails, Kept, CheckFails,
       RemoveNew, MoveBack, SaveHeld, RunsAgain, Command, RecordApplied, Spawn,
       SpawnFails, Leave, Announce, Close, Killed, Tick, SetClock, Release, ChoosePolicy

(* An update is under way only where the thread waits for it. *)
LEMMA BusyNext == ASSUME UpHolds, Busy, [UpdateNext]_updateVars PROVE Busy'
  BY DEF UpHolds, Busy, UpAt, Main, Quiet, WhatNow, Becomes, UpdateNext, updateVars, files,
     myself,
       past, Idle, Goes, Ends, GoesOff, MainGoes, Stays, Outside,
       Start, SweepOld, SweepNew, CheckForUpdate, CmdUpgrade, Poll, Button, LookCourtesy,
       LookCommand, LookWindow, Upgrade, Accept, Decline, Refused, OpenNew, WriteNew,
       WriteNewFails, MoveAside, AsideFails, SwapIn, SwapFails, Kept, CheckFails,
       RemoveNew, MoveBack, SaveHeld, RunsAgain, Command, RecordApplied, Spawn,
       SpawnFails, Leave, Announce, Close, Killed, Tick, SetClock, Release, ChoosePolicy

(* Every step keeps the invariant: the quiet ones by Untouched, those that   *)
(* rename or delete one by one.                                              *)
LEMMA StartsNext == ASSUME StartsInv, [UpdateNext]_updateVars PROVE StartsInv'
<1>u. UpHolds /\ UpHolds' /\ Busy /\ Busy'  BY UpNext, BusyNext DEF StartsInv
<1> USE <1>u DEF files, myself, past, Goes, UpAt, Stays
<1>1. ASSUME UNCHANGED updateVars PROVE StartsInv'
  BY <1>1, Untouched DEF UnderWay, UpHolds, updateVars
<1>2. ASSUME NEW c, Start(c) PROVE StartsInv'
  BY <1>2, Untouched DEF UnderWay, UpHolds, Start, Idle
<1>3. ASSUME SweepOld PROVE StartsInv'
  BY <1>3 DEF StartsInv, WayBack, StillStarts, UnderWay, Starts, UpHolds, SweepOld, NeedsOld
<1>4. ASSUME SweepNew PROVE StartsInv'
  BY <1>4, Untouched DEF UnderWay, UpHolds, SweepNew, MainGoes
<1>5. ASSUME CheckForUpdate PROVE StartsInv'
  BY <1>5, Untouched DEF UnderWay, UpHolds, Busy, CheckForUpdate, Main, MainGoes, Idle
<1>6. ASSUME CmdUpgrade PROVE StartsInv'
  BY <1>6, Untouched DEF UnderWay, UpHolds, Busy, Main, CmdUpgrade
<1>7. ASSUME Poll PROVE StartsInv'
  BY <1>7, Untouched DEF UnderWay, UpHolds, Poll, Quiet, Idle
<1>8. ASSUME Button PROVE StartsInv'
  BY <1>8, Untouched DEF UnderWay, UpHolds, Button, Quiet, Idle
<1>9. ASSUME LookCourtesy PROVE StartsInv'
  BY <1>9, Untouched DEF UnderWay, UpHolds, LookCourtesy
<1>10. ASSUME LookCommand PROVE StartsInv'
  BY <1>10, Untouched DEF UnderWay, UpHolds, LookCommand, Ends, Idle
<1>11. ASSUME LookWindow PROVE StartsInv'
  BY <1>11, Untouched DEF UnderWay, UpHolds, LookWindow, WhatNow, Idle
<1>12. ASSUME Upgrade PROVE StartsInv'
  BY <1>12, Untouched DEF UnderWay, UpHolds, Upgrade, Idle
<1>13. ASSUME Accept PROVE StartsInv'
  BY <1>13, Untouched DEF UnderWay, UpHolds, Accept
<1>14. ASSUME Decline PROVE StartsInv'
  BY <1>14, Untouched DEF UnderWay, UpHolds, Decline, Idle
<1>15. ASSUME Refused PROVE StartsInv'
  BY <1>15, Untouched DEF UnderWay, UpHolds, Refused, Ends, Idle
<1>16. ASSUME OpenNew PROVE StartsInv'
  BY <1>16, Untouched DEF UnderWay, UpHolds, OpenNew
<1>17. ASSUME WriteNew PROVE StartsInv'
  BY <1>17, Untouched DEF UnderWay, UpHolds, WriteNew
<1>18. ASSUME WriteNewFails PROVE StartsInv'
  BY <1>18, Untouched DEF UnderWay, UpHolds, WriteNewFails, Ends, Idle
<1>19. ASSUME MoveAside PROVE StartsInv'
  BY <1>19 DEF StartsInv, WayBack, StillStarts, UnderWay, Starts, UpHolds, MoveAside, NeedsOld
<1>20. ASSUME AsideFails PROVE StartsInv'
  BY <1>20, Untouched DEF UnderWay, UpHolds, AsideFails, Ends, Idle
<1>21. ASSUME SwapIn PROVE StartsInv'
  BY <1>21 DEF StartsInv, WayBack, StillStarts, UnderWay, Starts, UpHolds, SwapIn
<1>22. ASSUME SwapFails PROVE StartsInv'
  BY <1>22, Untouched DEF UnderWay, UpHolds, SwapFails
<1>23. ASSUME Kept PROVE StartsInv'
  BY <1>23, Untouched DEF UnderWay, UpHolds, Kept, SelfCheck
<1>24. ASSUME CheckFails PROVE StartsInv'
  BY <1>24, Untouched DEF UnderWay, UpHolds, CheckFails
<1>25. ASSUME RemoveNew PROVE StartsInv'
  BY <1>25 DEF StartsInv, WayBack, StillStarts, UnderWay, Starts, UpHolds, RemoveNew
<1>26. ASSUME MoveBack PROVE StartsInv'
  BY <1>26 DEF StartsInv, WayBack, StillStarts, UnderWay, Starts, UpHolds, MoveBack, Ends, Idle
<1>27. ASSUME SaveHeld PROVE StartsInv'
  BY <1>27, Untouched DEF UnderWay, UpHolds, SaveHeld, Idle
<1>28. ASSUME RunsAgain PROVE StartsInv'
  BY <1>28, Untouched DEF UnderWay, UpHolds, RunsAgain, Idle
<1>29. ASSUME Command PROVE StartsInv'
  BY <1>29, Untouched DEF UnderWay, UpHolds, Busy, Main, Command, GoesOff, Idle
<1>30. ASSUME RecordApplied PROVE StartsInv'
  BY <1>30, Untouched DEF UnderWay, UpHolds, RecordApplied
<1>31. ASSUME Spawn PROVE StartsInv'
  BY <1>31, Untouched DEF UnderWay, UpHolds, Spawn, Idle
<1>32. ASSUME SpawnFails PROVE StartsInv'
  BY <1>32, Untouched DEF UnderWay, UpHolds, SpawnFails, Idle
<1>33. ASSUME Leave PROVE StartsInv'
  BY <1>33, Untouched DEF UnderWay, UpHolds, Leave
<1>34. ASSUME Announce PROVE StartsInv'
  BY <1>34, Untouched DEF UnderWay, UpHolds, Announce, MainGoes
<1>35. ASSUME Close PROVE StartsInv'
  BY <1>35, Untouched DEF UnderWay, UpHolds, Close, Quiet, GoesOff, Idle
<1>36. ASSUME Killed PROVE StartsInv'
  BY <1>36 DEF StartsInv, WayBack, StillStarts, UnderWay, Starts, UpHolds, Killed, GoesOff,
     Idle
<1>37. ASSUME Tick PROVE StartsInv'
  BY <1>37, Untouched DEF UnderWay, UpHolds, Tick, Outside
<1>38. ASSUME SetClock PROVE StartsInv'
  BY <1>38, Untouched DEF UnderWay, UpHolds, SetClock, Outside
<1>39. ASSUME NEW r, Release(r) PROVE StartsInv'
  BY <1>39, Untouched DEF UnderWay, UpHolds, Release, Outside
<1>40. ASSUME NEW p, ChoosePolicy(p) PROVE StartsInv'
  BY <1>40, Untouched DEF UnderWay, UpHolds, ChoosePolicy, Outside
<1>q. QED
  BY <1>1, <1>2, <1>3, <1>4, <1>5, <1>6, <1>7, <1>8, <1>9, <1>10, <1>11, <1>12, <1>13,
     <1>14, <1>15, <1>16, <1>17, <1>18, <1>19, <1>20, <1>21, <1>22, <1>23, <1>24, <1>25, <1>26,
     <1>27, <1>28, <1>29, <1>30, <1>31, <1>32, <1>33, <1>34, <1>35, <1>36, <1>37, <1>38, <1>39,
     <1>40 DEF UpdateNext

(* There is always a tabber that starts, unless the way back was itself taken. *)
THEOREM AlwaysStillStarts == UpdateSpec => []StillStarts
<1>1. UpdateInit => StartsInv  BY StartsInit
<1>2. StartsInv /\ [UpdateNext]_updateVars => StartsInv'  BY StartsNext
<1>3. StartsInv => StillStarts  BY DEF StartsInv
<1>q. QED  BY <1>1, <1>2, <1>3, PTL DEF UpdateSpec

(***************************************************************************)
(* What is remembered between looks: the version that was turned down, and  *)
(* the hour of the last look.                                               *)
(***************************************************************************)
(* A state file as both front-ends load it.                                 *)
FileOK(f) == /\ DOMAIN f = {"last", "declined", "applied", "interval"}
             /\ f.last \in Int /\ f.interval \in Int

(* Who is looking or updating, and where its thread is meanwhile.           *)
Whose ==
  /\ up.by \in {"nobody", "window", "courtesy", "command"}
  /\ up.step # "idle" => up.by # "nobody" /\ image # NoFile
  /\ up.by = "window" => world.window
  /\ up.by \in {"courtesy", "command"} => ~world.window
  /\ up.by = "courtesy" /\ up.step # "idle" => thread = "busy"
  /\ thread = "upgrade" => up.by = "command"
  /\ thread \in {"announce", "open", "sweepAgain"} => world.window
  /\ thread \in {"check", "upgrade", "busy", "command"} => ~world.window
  /\ up.step \in {"ask", "look"} => up.by \in {"window", "courtesy", "command"}
  /\ up.step = "ask" => up.by # "command"
  /\ up.step = "save" => up.by = "courtesy"
  /\ up.step = "done" => up.by = "command"
  /\ up.step \in {"upgrade", "applied", "spawn"} => up.by = "window"

(* The copy a terminal holds while it looks, asks or updates.               *)
Holding == up.by = "courtesy" /\ up.step # "idle"

(* The version turned down is the one on file, or was declined a moment ago *)
(* in a terminal that is about to save it.                                  *)
Remembered ==
  /\ file.declined = turnedDown
  /\ Holding => \/ held.declined = turnedDown
                \/ up.step = "save" /\ Offers(info) /\ held.declined = info.version

(* Only a release on offer is asked about, and not one that was turned down *)
(* unless it was asked for.                                                 *)
Asking == up.step = "ask" => Offers(info) /\ (up.asked \/ info.version # turnedDown)

(* The hour of the last look recorded is on file, or in the copy held by a  *)
(* terminal that has looked.                                                *)
Stamped ==
  lastLook # -1 =>
    /\ lastLook \in Int /\ lastLook <= clock
    /\ lastLook = IF Holding /\ up.step # "look" THEN held.last ELSE file.last

LooksInv ==
  /\ UpHolds /\ Busy /\ Whose /\ clock \in Int
  /\ FileOK(file) /\ (Holding => FileOK(held))
  /\ Remembered /\ Asking /\ Stamped

(* Nothing has been looked for or turned down.                              *)
LEMMA LooksInit == UpdateInit => LooksInv
BY UpdateAssumption
DEF UpdateInit, LooksInv, UpHolds, Busy, Whose, FileOK, Holding, Remembered, Asking,
    Stamped, Idle

(* Who looks or updates, and where its thread waits.                        *)
LEMMA WhoseNext ==
  ASSUME UpHolds, Busy, Whose, [UpdateNext]_updateVars
  PROVE  Whose'
<1> USE DEF UpHolds, Busy, Whose, UpAt, Main, Quiet, Becomes, files, myself, past, Idle,
        Goes, Ends, GoesOff, MainGoes, Stays, Outside, WhatNow
<1>1. CASE (\E c \in {"any", "upgrade"} : Start(c))
  BY <1>1
  DEF Start
<1>2. CASE \/ SweepOld \/ SweepNew
  BY <1>2
  DEF SweepOld, SweepNew
<1>3. CASE \/ CheckForUpdate \/ CmdUpgrade \/ Poll \/ Button
  BY <1>3
  DEF CheckForUpdate, CmdUpgrade, Poll, Button
<1>4. CASE \/ LookCourtesy \/ LookCommand \/ LookWindow
  BY <1>4
  DEF LookCourtesy, LookCommand, LookWindow
<1>5. CASE \/ Upgrade \/ Accept
  BY <1>5
  DEF Upgrade, Accept
<1>6. CASE Decline
  BY <1>6
  DEF Decline
<1>7. CASE \/ Refused \/ OpenNew \/ WriteNew \/ WriteNewFails
  BY <1>7
  DEF Refused, OpenNew, WriteNew, WriteNewFails
<1>8. CASE \/ MoveAside \/ AsideFails \/ SwapIn \/ SwapFails
  BY <1>8
  DEF MoveAside, AsideFails, SwapIn, SwapFails
<1>9. CASE Kept
  BY <1>9
  DEF Kept
<1>10. CASE \/ CheckFails \/ RemoveNew \/ MoveBack
  BY <1>10
  DEF CheckFails, RemoveNew, MoveBack
<1>11. CASE \/ SaveHeld \/ RunsAgain \/ Command
  BY <1>11
  DEF SaveHeld, RunsAgain, Command
<1>12. CASE \/ RecordApplied \/ Spawn \/ SpawnFails \/ Leave
  BY <1>12
  DEF RecordApplied, Spawn, SpawnFails, Leave
<1>13. CASE \/ Announce \/ Close \/ Killed
  BY <1>13
  DEF Announce, Close, Killed
<1>14. CASE \/ Tick \/ SetClock \/ (\E r \in Releases : Release(r))
            \/ (\E p \in Policies : ChoosePolicy(p)) \/ UNCHANGED updateVars
  BY <1>14
  DEF Tick, SetClock, Release, ChoosePolicy, updateVars
<1> QED
  BY <1>1, <1>2, <1>3, <1>4, <1>5, <1>6, <1>7, <1>8, <1>9, <1>10, <1>11, <1>12,
    <1>13, <1>14
  DEF UpdateNext

(* The state file stays one, and so does the copy of it a terminal holds.   *)
LEMMA FilesNext ==
  ASSUME UpHolds, Busy, Whose, Whose', clock \in Int, FileOK(file), Holding => FileOK(held),
         [UpdateNext]_updateVars
  PROVE  clock' \in Int /\ FileOK(file)' /\ (Holding => FileOK(held))'
<1> USE UpdateAssumption
    DEF UpHolds, Busy, Whose, FileOK, Holding, UpAt, Main, Quiet, Becomes, files, myself,
        past, Idle, Goes, Ends, GoesOff, MainGoes, Stays, Outside, WhatNow, Save, SaveLook,
        LookFor, Looked, Applied, Announced
<1>1. CASE (\E c \in {"any", "upgrade"} : Start(c))
  BY <1>1
  DEF Start
<1>2. CASE \/ SweepOld \/ SweepNew
  BY <1>2
  DEF SweepOld, SweepNew
<1>3. CASE \/ CheckForUpdate \/ CmdUpgrade \/ Poll \/ Button
  BY <1>3
  DEF CheckForUpdate, CmdUpgrade, Poll, Button
<1>4. CASE \/ LookCourtesy \/ LookCommand \/ LookWindow
  BY <1>4
  DEF LookCourtesy, LookCommand, LookWindow
<1>5. CASE \/ Upgrade \/ Accept
  BY <1>5
  DEF Upgrade, Accept
<1>6. CASE Decline
  BY <1>6
  DEF Decline
<1>7. CASE \/ Refused \/ OpenNew \/ WriteNew \/ WriteNewFails
  BY <1>7
  DEF Refused, OpenNew, WriteNew, WriteNewFails
<1>8. CASE \/ MoveAside \/ AsideFails \/ SwapIn \/ SwapFails
  BY <1>8
  DEF MoveAside, AsideFails, SwapIn, SwapFails
<1>9. CASE Kept
  BY <1>9
  DEF Kept
<1>10. CASE \/ CheckFails \/ RemoveNew \/ MoveBack
  BY <1>10
  DEF CheckFails, RemoveNew, MoveBack
<1>11. CASE \/ SaveHeld \/ RunsAgain \/ Command
  BY <1>11
  DEF SaveHeld, RunsAgain, Command
<1>12. CASE \/ RecordApplied \/ Spawn \/ SpawnFails \/ Leave
  BY <1>12
  DEF RecordApplied, Spawn, SpawnFails, Leave
<1>13. CASE \/ Announce \/ Close \/ Killed
  BY <1>13
  DEF Announce, Close, Killed
<1>14. CASE \/ Tick \/ SetClock \/ (\E r \in Releases : Release(r))
            \/ (\E p \in Policies : ChoosePolicy(p)) \/ UNCHANGED updateVars
  BY <1>14
  DEF Tick, SetClock, Release, ChoosePolicy, updateVars
<1> QED
  BY <1>1, <1>2, <1>3, <1>4, <1>5, <1>6, <1>7, <1>8, <1>9, <1>10, <1>11, <1>12,
    <1>13, <1>14
  DEF UpdateNext

(* The version turned down, where it is remembered.                         *)
LEMMA RememberedNext ==
  ASSUME LooksInv, Whose', [UpdateNext]_updateVars
  PROVE  Remembered'
<1> USE DEF LooksInv, UpHolds, Busy, Whose, FileOK, Holding, Remembered, UpAt, Main, Quiet,
        Becomes, files, myself, past, Idle, Goes, Ends, GoesOff, MainGoes, Stays, Outside,
        WhatNow, Save, SaveLook, LookFor, Looked, Applied, Announced, Offers
<1>1. CASE (\E c \in {"any", "upgrade"} : Start(c))
  BY <1>1
  DEF Start
<1>2. CASE \/ SweepOld \/ SweepNew
  BY <1>2
  DEF SweepOld, SweepNew
<1>3. CASE \/ CheckForUpdate \/ CmdUpgrade \/ Poll \/ Button
  BY <1>3
  DEF CheckForUpdate, CmdUpgrade, Poll, Button
<1>4. CASE \/ LookCourtesy \/ LookCommand \/ LookWindow
  BY <1>4
  DEF LookCourtesy, LookCommand, LookWindow
<1>5. CASE \/ Upgrade \/ Accept
  BY <1>5
  DEF Upgrade, Accept
<1>6. CASE Decline
  BY <1>6 DEF Decline, Asking
<1>7. CASE \/ Refused \/ OpenNew \/ WriteNew \/ WriteNewFails
  BY <1>7
  DEF Refused, OpenNew, WriteNew, WriteNewFails
<1>8. CASE \/ MoveAside \/ AsideFails \/ SwapIn \/ SwapFails
  BY <1>8
  DEF MoveAside, AsideFails, SwapIn, SwapFails
<1>9. CASE Kept
  BY <1>9
  DEF Kept
<1>10. CASE \/ CheckFails \/ RemoveNew \/ MoveBack
  BY <1>10
  DEF CheckFails, RemoveNew, MoveBack
<1>11. CASE \/ SaveHeld \/ RunsAgain \/ Command
  BY <1>11
  DEF SaveHeld, RunsAgain, Command
<1>12. CASE \/ RecordApplied \/ Spawn \/ SpawnFails \/ Leave
  BY <1>12
  DEF RecordApplied, Spawn, SpawnFails, Leave
<1>13. CASE \/ Announce \/ Close \/ Killed
  BY <1>13
  DEF Announce, Close, Killed
<1>14. CASE \/ Tick \/ SetClock \/ (\E r \in Releases : Release(r))
            \/ (\E p \in Policies : ChoosePolicy(p)) \/ UNCHANGED updateVars
  BY <1>14
  DEF Tick, SetClock, Release, ChoosePolicy, updateVars
<1> QED
  BY <1>1, <1>2, <1>3, <1>4, <1>5, <1>6, <1>7, <1>8, <1>9, <1>10, <1>11, <1>12,
    <1>13, <1>14
  DEF UpdateNext

(* What is asked about.                                                     *)
LEMMA AskingNext ==
  ASSUME LooksInv, Whose', [UpdateNext]_updateVars
  PROVE  Asking'
<1> USE DEF LooksInv, UpHolds, Busy, Whose, Holding, Remembered, Asking, UpAt, Main, Quiet,
        Becomes, files, myself, past, Idle, Goes, Ends, GoesOff, MainGoes, Stays, Outside,
        WhatNow, LookFor, Offers, Installs
<1>1. CASE (\E c \in {"any", "upgrade"} : Start(c))
  BY <1>1
  DEF Start
<1>2. CASE \/ SweepOld \/ SweepNew
  BY <1>2
  DEF SweepOld, SweepNew
<1>3. CASE \/ CheckForUpdate \/ CmdUpgrade \/ Poll \/ Button
  BY <1>3
  DEF CheckForUpdate, CmdUpgrade, Poll, Button
<1>4. CASE \/ LookCourtesy \/ LookCommand \/ LookWindow
  BY <1>4
  DEF LookCourtesy, LookCommand, LookWindow
<1>5. CASE \/ Upgrade \/ Accept
  BY <1>5
  DEF Upgrade, Accept
<1>6. CASE Decline
  BY <1>6
  DEF Decline
<1>7. CASE \/ Refused \/ OpenNew \/ WriteNew \/ WriteNewFails
  BY <1>7
  DEF Refused, OpenNew, WriteNew, WriteNewFails
<1>8. CASE \/ MoveAside \/ AsideFails \/ SwapIn \/ SwapFails
  BY <1>8
  DEF MoveAside, AsideFails, SwapIn, SwapFails
<1>9. CASE Kept
  BY <1>9
  DEF Kept
<1>10. CASE \/ CheckFails \/ RemoveNew \/ MoveBack
  BY <1>10
  DEF CheckFails, RemoveNew, MoveBack
<1>11. CASE \/ SaveHeld \/ RunsAgain \/ Command
  BY <1>11
  DEF SaveHeld, RunsAgain, Command
<1>12. CASE \/ RecordApplied \/ Spawn \/ SpawnFails \/ Leave
  BY <1>12
  DEF RecordApplied, Spawn, SpawnFails, Leave
<1>13. CASE \/ Announce \/ Close \/ Killed
  BY <1>13
  DEF Announce, Close, Killed
<1>14. CASE \/ Tick \/ SetClock \/ (\E r \in Releases : Release(r))
            \/ (\E p \in Policies : ChoosePolicy(p)) \/ UNCHANGED updateVars
  BY <1>14
  DEF Tick, SetClock, Release, ChoosePolicy, updateVars
<1> QED
  BY <1>1, <1>2, <1>3, <1>4, <1>5, <1>6, <1>7, <1>8, <1>9, <1>10, <1>11, <1>12,
    <1>13, <1>14
  DEF UpdateNext

(* The hour of the last look, where it is recorded.                         *)
LEMMA StampedNext ==
  ASSUME LooksInv, Whose', [UpdateNext]_updateVars
  PROVE  Stamped'
<1> USE UpdateAssumption
    DEF LooksInv, UpHolds, Busy, Whose, FileOK, Holding, Stamped, UpAt, Main, Quiet,
        Becomes, files, myself, past, Idle, Goes, Ends, GoesOff, MainGoes, Stays, Outside,
        WhatNow, Save, SaveLook, LookFor, Looked, Applied, Announced
<1>1. CASE (\E c \in {"any", "upgrade"} : Start(c))
  BY <1>1
  DEF Start
<1>2. CASE \/ SweepOld \/ SweepNew
  BY <1>2
  DEF SweepOld, SweepNew
<1>3. CASE \/ CheckForUpdate \/ CmdUpgrade \/ Poll \/ Button
  BY <1>3
  DEF CheckForUpdate, CmdUpgrade, Poll, Button
<1>4. CASE \/ LookCourtesy \/ LookCommand \/ LookWindow
  BY <1>4
  DEF LookCourtesy, LookCommand, LookWindow
<1>5. CASE \/ Upgrade \/ Accept
  BY <1>5
  DEF Upgrade, Accept
<1>6. CASE Decline
  BY <1>6
  DEF Decline
<1>7. CASE \/ Refused \/ OpenNew \/ WriteNew \/ WriteNewFails
  BY <1>7
  DEF Refused, OpenNew, WriteNew, WriteNewFails
<1>8. CASE \/ MoveAside \/ AsideFails \/ SwapIn \/ SwapFails
  BY <1>8
  DEF MoveAside, AsideFails, SwapIn, SwapFails
<1>9. CASE Kept
  BY <1>9
  DEF Kept
<1>10. CASE \/ CheckFails \/ RemoveNew \/ MoveBack
  BY <1>10
  DEF CheckFails, RemoveNew, MoveBack
<1>11. CASE \/ SaveHeld \/ RunsAgain \/ Command
  BY <1>11
  DEF SaveHeld, RunsAgain, Command
<1>12. CASE \/ RecordApplied \/ Spawn \/ SpawnFails \/ Leave
  BY <1>12
  DEF RecordApplied, Spawn, SpawnFails, Leave
<1>13. CASE \/ Announce \/ Close \/ Killed
  BY <1>13
  DEF Announce, Close, Killed
<1>14. CASE \/ Tick \/ SetClock \/ (\E r \in Releases : Release(r))
            \/ (\E p \in Policies : ChoosePolicy(p)) \/ UNCHANGED updateVars
  BY <1>14
  DEF Tick, SetClock, Release, ChoosePolicy, updateVars
<1> QED
  BY <1>1, <1>2, <1>3, <1>4, <1>5, <1>6, <1>7, <1>8, <1>9, <1>10, <1>11, <1>12,
    <1>13, <1>14
  DEF UpdateNext

(* What is remembered between looks is kept by every step.                  *)
LEMMA LooksNext == ASSUME LooksInv, [UpdateNext]_updateVars PROVE LooksInv'
<1>1. UpHolds' /\ Busy'  BY UpNext, BusyNext DEF LooksInv
<1>2. Whose'  BY WhoseNext DEF LooksInv
<1>3. clock' \in Int /\ FileOK(file)' /\ (Holding => FileOK(held))'
  BY <1>2, FilesNext DEF LooksInv
<1> QED  BY <1>1, <1>2, <1>3, RememberedNext, AskingNext, StampedNext DEF LooksInv

(* A version that was turned down, with that saved, is not put up again     *)
(* until another one is or it is asked for (check_for_update of             *)
(* src/src/main.c, look_for_update of src/gui/main.cpp): for any releases   *)
(* and settings, through failed looks, files that cannot be written and     *)
(* processes that end at any step.                                          *)
THEOREM TurnedDownIsRemembered == UpdateSpec => []TurnedDownOnce
<1>1. UpdateInit => LooksInv  BY LooksInit
<1>2. LooksInv /\ [UpdateNext]_updateVars => LooksInv'  BY LooksNext
<1>3. LooksInv => TurnedDownOnce  BY DEF LooksInv, Asking, TurnedDownOnce
<1> QED  BY <1>1, <1>2, <1>3, PTL DEF UpdateSpec

(* What makes a look of its own accord due.                                 *)
LEMMA DueIsApart ==
  ASSUME LooksInv, up.step = "idle", lastLook # -1, Due(file)
  PROVE  /\ clock - lastLook >= IntervalMin
         /\ clock - lastLook >= file.interval \/ clock - lastLook >= IntervalMax
BY UpdateAssumption DEF LooksInv, Stamped, Holding, FileOK, Due, Interval

(* Only a terminal before a command and the poll of a window look unasked.  *)
LEMMA UnaskedIsDue ==
  ASSUME LooksInv, [UpdateNext]_updateVars, up.step = "idle", up'.step = "look", ~up'.asked
  PROVE  Due(file)
<1> USE DEF LooksInv, UpHolds, UpAt, Main, Quiet, files, myself, past, Idle, Goes, Ends,
        GoesOff, Stays, Outside
<1>1. CASE (\E c \in {"any", "upgrade"} : Start(c))
  BY <1>1
  DEF Start
<1>2. CASE \/ SweepOld \/ SweepNew
  BY <1>2
  DEF SweepOld, SweepNew
<1>3. CASE \/ CheckForUpdate \/ CmdUpgrade \/ Poll \/ Button
  BY <1>3
  DEF CheckForUpdate, CmdUpgrade, Poll, Button
<1>4. CASE \/ LookCourtesy \/ LookCommand \/ LookWindow
  BY <1>4
  DEF LookCourtesy, LookCommand, LookWindow
<1>5. CASE \/ Upgrade \/ Accept \/ Decline
  BY <1>5
  DEF Upgrade, Accept, Decline
<1>6. CASE \/ Refused \/ OpenNew \/ WriteNew \/ WriteNewFails
  BY <1>6
  DEF Refused, OpenNew, WriteNew, WriteNewFails
<1>7. CASE \/ MoveAside \/ AsideFails \/ SwapIn \/ SwapFails
  BY <1>7
  DEF MoveAside, AsideFails, SwapIn, SwapFails
<1>8. CASE \/ Kept \/ CheckFails \/ RemoveNew \/ MoveBack
  BY <1>8
  DEF Kept, CheckFails, RemoveNew, MoveBack
<1>9. CASE \/ SaveHeld \/ RunsAgain \/ Command
  BY <1>9
  DEF SaveHeld, RunsAgain, Command
<1>10. CASE \/ RecordApplied \/ Spawn \/ SpawnFails \/ Leave
  BY <1>10
  DEF RecordApplied, Spawn, SpawnFails, Leave
<1>11. CASE \/ Announce \/ Close \/ Killed
  BY <1>11
  DEF Announce, Close, Killed
<1>12. CASE \/ Tick \/ SetClock \/ (\E r \in Releases : Release(r))
            \/ (\E p \in Policies : ChoosePolicy(p)) \/ UNCHANGED updateVars
  BY <1>12
  DEF Tick, SetClock, Release, ChoosePolicy, updateVars
<1> QED
  BY <1>1, <1>2, <1>3, <1>4, <1>5, <1>6, <1>7, <1>8, <1>9, <1>10, <1>11, <1>12
  DEF UpdateNext

(* Two looks that nobody asked for, or one of them after one that was, are  *)
(* the interval of the settings apart, clamped to its bounds                *)
(* (config_update_due of src/src/config.c): for any interval, however small *)
(* or negative the state file has it, any clock and any restarts.           *)
THEOREM LooksAreApart == UpdateSpec => LooksApart
<1>1. UpdateInit => LooksInv  BY LooksInit
<1>2. LooksInv /\ [UpdateNext]_updateVars => LooksInv'  BY LooksNext
<1>3. LooksInv /\ [UpdateNext]_updateVars
        => [up.step = "idle" /\ up'.step = "look" /\ ~up'.asked /\ lastLook # -1
             => /\ clock - lastLook >= IntervalMin
                /\ clock - lastLook >= file.interval
                   \/ clock - lastLook >= IntervalMax]_updateVars
  BY UnaskedIsDue, DueIsApart
<1> QED  BY <1>1, <1>2, <1>3, PTL DEF UpdateSpec, LooksApart

(***************************************************************************)
(* Why an update never goes back: what the process knows of is later than   *)
(* what it is, what is on disk is no later than either, and only what says  *)
(* that it is the release is kept.                                          *)
(***************************************************************************)
Flavours == {"", "-gui"}
Versions ==
  {Mine.is} \cup {r.version : r \in Releases}
  \cup UNION {{BuildFor(r, f).is : f \in {g \in Flavours : BuildFor(r, g) # NoFile}} :
             r \in Releases}

(* Rank is the order in which the versions are compared, and no release     *)
(* lists a offer of a later version than its own.                           *)
Meant ==
  /\ \A v \in Versions : Rank[v] \in Int
  /\ \A v, w \in Versions : Compare(v, w) > 0 <=> Rank[v] > Rank[w]
NoneLater ==
  \A r \in Releases, f \in Flavours :
    BuildFor(r, f) # NoFile => Rank[BuildFor(r, f).is] <= Rank[r.version]

(* The builds of a window say what they are.                                *)
Honest ==
  \A r \in Releases : BuildFor(r, "-gui") # NoFile => BuildFor(r, "-gui").is = r.version

(* A version before another, or that very one; of a terminal's builds, and  *)
(* of a window's that do not say what they are, also one of the same rank.  *)
Earlier(v, w) == v = w \/ Rank[v] < Rank[w]
UpTo(v, w) == Rank[v] <= Rank[w] /\ (Honest /\ world.window => Earlier(v, w))

(* The release in hand was the manifest's, then or now, and its offer is no *)
(* later than it says.                                                      *)
KnownNews ==
  /\ manifest \in Releases
  /\ info # NoInfo =>
       /\ info.version \in Versions /\ Earlier(info.version, manifest.version)
       /\ info.build # NoFile =>
            /\ info.build.is \in Versions /\ UpTo(info.build.is, info.version)
            /\ Honest /\ world.window => info.build.is = info.version
  /\ \A c \in {exe, new, old, image, was} : c # NoFile => c.is \in Versions

(* What is on offer is later than what runs, in a window at any time and in *)
(* a terminal from its look to the end of its update.                       *)
Ahead ==
  Offers(info) /\ (world.window \/ up.step \notin {"idle", "look"})
    => Rank[info.version] > Rank[image.is]

(* Nothing on disk is later than both what runs and the release in hand.    *)
Behind(content) ==
  content # NoFile /\ image # NoFile =>
    \/ Rank[content.is] <= Rank[image.is]
    \/ info # NoInfo /\ UpTo(content.is, info.version)

(* Until an update touches it the binary is the one that runs.              *)
Same ==
  thread \in {"sweepOld", "sweepNew", "announce", "check", "upgrade"}
    \/ (up.step = "look" /\ up.by # "window")
    => exe = image

(* An update under way, and what it has in hand.                            *)
InHand ==
  /\ up.step \in {"stage", "write", "aside", "swap", "check"} => Installs(info)
  /\ up.step = "ask" => Offers(info)
  /\ up.step \in {"write", "aside", "swap"} => new = NoFile \/ new.is = info.build.is
  /\ up.kept => up.step \in {"applied", "spawn", "save", "done"}
  /\ UnderWay => was # NoFile /\ Behind(was) /\ old \in {NoFile, was}

OlderInv == UpHolds /\ Busy /\ Whose /\ KnownNews /\ Ahead /\ Behind(exe) /\ Same /\ InHand

(* What is on record as applied is the binary, or earlier: and was, for as  *)
(* long as there is a way back to it.                                       *)
Applies(content) ==
  /\ \A v \in recorded : v = content.is \/ Rank[v] < Rank[content.is]
  /\ \A v \in recorded \ said : v = file.applied \/ Rank[v] < Rank[content.is]

SaidInv ==
  /\ recorded \subseteq Versions /\ said \subseteq recorded
  /\ file.applied # NoInfo => file.applied \in recorded \ said
  /\ image # NoFile => \A v \in said : Rank[v] <= Rank[image.is]
  /\ ~world.window => recorded = {}
  /\ Holding => held.applied = NoInfo
  /\ exe # NoFile => Applies(exe)
  /\ UnderWay => Applies(was)
  /\ up.step = "applied" => exe # NoFile /\ Offers(info) /\ exe.is = info.version

(* Nothing is known of, and the binary is the one there is.                 *)
LEMMA OlderInit == ASSUME UpdateInit PROVE OlderInv
BY UpdateAssumption
DEF UpdateInit, OlderInv, UpHolds, Busy, Whose, KnownNews, Ahead, Behind, Same, InHand,
    UnderWay, Offers, Idle, Versions

(* What a look finds is the release of the manifest, with a offer of it.    *)
LEMMA FoundIsKnown ==
  ASSUME Meant, NoneLater, manifest \in Releases,
         NEW found \in Found, found # NoInfo
  PROVE  /\ found.version = manifest.version /\ found.version \in Versions
         /\ found.newer = (Compare(manifest.version, image.is) > 0)
         /\ found.build # NoFile =>
              /\ found.build.is \in Versions /\ UpTo(found.build.is, found.version)
              /\ Honest /\ world.window => found.build.is = found.version
<1> DEFINE flavour == IF world.window THEN "-gui" ELSE ""
           offer == BuildFor(manifest, flavour)
<1>1. found = InfoOf(manifest)  BY DEF Found
<1>2. found = [version |-> manifest.version, build |-> offer,
               newer |-> Compare(manifest.version, image.is) > 0]
  BY <1>1 DEF InfoOf
<1>3. flavour \in Flavours  BY DEF Flavours
<1>4. found.version \in Versions  BY <1>2 DEF Versions
<1>5. offer # NoFile => offer.is \in Versions
  <2>1. SUFFICES ASSUME offer # NoFile PROVE offer.is \in Versions
    OBVIOUS
  <2>2. offer.is \in {BuildFor(manifest, f).is :
                      f \in {g \in Flavours : BuildFor(manifest, g) # NoFile}}
    BY <1>3, <2>1
  <2> QED  BY <2>2 DEF Versions
<1>6. offer # NoFile => Rank[offer.is] <= Rank[manifest.version]  BY <1>3 DEF NoneLater
<1>7. offer # NoFile /\ Honest /\ world.window => offer.is = manifest.version
  BY DEF Honest
<1> HIDE DEF offer
<1> QED  BY <1>2, <1>4, <1>5, <1>6, <1>7 DEF UpTo, Earlier

(* What is known of the release in hand and of the binaries.                *)
LEMMA KnownNext ==
  ASSUME Meant, NoneLater, OlderInv, [UpdateNext]_updateVars
  PROVE  KnownNews'
<1> USE DEF OlderInv, UpHolds, KnownNews, UpAt, UpTo, Earlier, Becomes, files, myself, past,
        Idle, Goes, Ends, GoesOff, MainGoes, Stays, Outside
<1>f. \A found \in Found : found # NoInfo =>
        /\ found.version = manifest.version /\ found.version \in Versions
        /\ found.build # NoFile =>
             /\ found.build.is \in Versions /\ UpTo(found.build.is, found.version)
             /\ Honest /\ world.window => found.build.is = found.version
  BY FoundIsKnown
<1>r. \A r \in Releases : r.version \in Versions  BY DEF Versions
<1>1. CASE (\E c \in {"any", "upgrade"} : Start(c))
  BY <1>1
  DEF Start
<1>2. CASE \/ SweepOld \/ SweepNew
  BY <1>2
  DEF SweepOld, SweepNew
<1>3. CASE \/ CheckForUpdate \/ CmdUpgrade \/ Poll \/ Button
  BY <1>3
  DEF CheckForUpdate, CmdUpgrade, Poll, Button
<1>4. CASE \/ LookCourtesy \/ LookCommand
  BY <1>4, <1>f
  DEF LookCourtesy, LookCommand
<1>5. CASE LookWindow
  BY <1>5, <1>f
  DEF LookWindow, LookFor
<1>6. CASE Upgrade
  BY <1>6, <1>f
  DEF Upgrade, LookFor
<1>7. CASE \/ Accept \/ Decline
  BY <1>7
  DEF Accept, Decline
<1>8. CASE \/ Refused \/ WriteNewFails
  BY <1>8
  DEF Refused, WriteNewFails
<1>9. CASE OpenNew
  BY <1>9
  DEF OpenNew, InHand, Installs, Offers, Built
<1>10. CASE WriteNew
  BY <1>10
  DEF WriteNew, InHand, Installs, Offers, Built
<1>11. CASE \/ MoveAside \/ AsideFails \/ SwapIn \/ SwapFails
  BY <1>11
  DEF MoveAside, AsideFails, SwapIn, SwapFails
<1>12. CASE Kept
  BY <1>12
  DEF Kept
<1>13. CASE \/ CheckFails \/ RemoveNew \/ MoveBack
  BY <1>13
  DEF CheckFails, RemoveNew, MoveBack
<1>14. CASE \/ SaveHeld \/ RunsAgain \/ Command
  BY <1>14
  DEF SaveHeld, RunsAgain, Command
<1>15. CASE \/ RecordApplied \/ Spawn \/ SpawnFails \/ Leave
  BY <1>15
  DEF RecordApplied, Spawn, SpawnFails, Leave
<1>16. CASE \/ Announce \/ Close \/ Killed
  BY <1>16
  DEF Announce, Close, Killed
<1>17. CASE (\E r \in Releases : Release(r))
  BY <1>17, <1>r
  DEF Release, Meant
<1>18. CASE \/ Tick \/ SetClock \/ (\E p \in Policies : ChoosePolicy(p))
            \/ UNCHANGED updateVars
  BY <1>18
  DEF Tick, SetClock, ChoosePolicy, updateVars
<1> QED
  BY <1>1, <1>2, <1>3, <1>4, <1>5, <1>6, <1>7, <1>8, <1>9, <1>10, <1>11, <1>12,
    <1>13, <1>14, <1>15, <1>16, <1>17, <1>18
  DEF UpdateNext

(* The binary that runs is the one on disk until an update comes to it.     *)
LEMMA SameNext ==
  ASSUME OlderInv, [UpdateNext]_updateVars
  PROVE  Same'
<1> USE DEF OlderInv, UpHolds, Busy, Whose, Same, UpAt, Main, Quiet, WhatNow, Becomes, files,
        myself, past, Idle, Goes, Ends, GoesOff, MainGoes, Stays, Outside
<1>1. CASE (\E c \in {"any", "upgrade"} : Start(c))
  BY <1>1
  DEF Start
<1>2. CASE \/ SweepOld \/ SweepNew
  BY <1>2
  DEF SweepOld, SweepNew
<1>3. CASE \/ CheckForUpdate \/ CmdUpgrade \/ Poll \/ Button
  BY <1>3
  DEF CheckForUpdate, CmdUpgrade, Poll, Button
<1>4. CASE \/ LookCourtesy \/ LookCommand
  BY <1>4
  DEF LookCourtesy, LookCommand
<1>5. CASE LookWindow
  BY <1>5
  DEF LookWindow
<1>6. CASE Upgrade
  BY <1>6
  DEF Upgrade
<1>7. CASE \/ Accept \/ Decline
  BY <1>7
  DEF Accept, Decline
<1>8. CASE \/ Refused \/ OpenNew \/ WriteNew \/ WriteNewFails
  BY <1>8
  DEF Refused, OpenNew, WriteNew, WriteNewFails
<1>9. CASE \/ MoveAside \/ AsideFails \/ SwapIn \/ SwapFails
  BY <1>9
  DEF MoveAside, AsideFails, SwapIn, SwapFails
<1>10. CASE Kept
  BY <1>10
  DEF Kept
<1>11. CASE \/ CheckFails \/ RemoveNew \/ MoveBack
  BY <1>11
  DEF CheckFails, RemoveNew, MoveBack
<1>12. CASE \/ SaveHeld \/ RunsAgain \/ Command
  BY <1>12
  DEF SaveHeld, RunsAgain, Command
<1>13. CASE \/ RecordApplied \/ Spawn \/ SpawnFails \/ Leave
  BY <1>13
  DEF RecordApplied, Spawn, SpawnFails, Leave
<1>14. CASE \/ Announce \/ Close \/ Killed
  BY <1>14
  DEF Announce, Close, Killed
<1>15. CASE \/ Tick \/ SetClock \/ (\E r \in Releases : Release(r))
            \/ (\E p \in Policies : ChoosePolicy(p)) \/ UNCHANGED updateVars
  BY <1>15
  DEF Tick, SetClock, Release, ChoosePolicy, updateVars
<1> QED
  BY <1>1, <1>2, <1>3, <1>4, <1>5, <1>6, <1>7, <1>8, <1>9, <1>10, <1>11, <1>12,
    <1>13, <1>14, <1>15
  DEF UpdateNext

(* What the process knows of stays later than what it is.                   *)
LEMMA AheadNext ==
  ASSUME Meant, NoneLater, OlderInv, Whose', [UpdateNext]_updateVars
  PROVE  Ahead'
<1> USE DEF OlderInv, UpHolds, Busy, Whose, Ahead, Offers, UpAt, Main, Quiet, files, myself, past,
        Idle, Goes, Ends, GoesOff, MainGoes, Stays, Outside
<1>f. image # NoFile => \A found \in Found : found # NoInfo /\ found.newer =>
        Rank[found.version] > Rank[image.is]
  <2>1. SUFFICES ASSUME image # NoFile, NEW found \in Found, found # NoInfo, found.newer
                 PROVE  Rank[found.version] > Rank[image.is]
    OBVIOUS
  <2>2. image.is \in Versions /\ manifest \in Releases  BY <2>1 DEF KnownNews
  <2>3. found.version = manifest.version /\ Compare(manifest.version, image.is) > 0
    BY <2>1, <2>2, FoundIsKnown
  <2>4. manifest.version \in Versions  BY <2>2 DEF Versions
  <2> QED  BY <2>2, <2>3, <2>4 DEF Meant
<1>1. CASE (\E c \in {"any", "upgrade"} : Start(c))
  BY <1>1
  DEF Start
<1>2. CASE \/ SweepOld \/ SweepNew
  BY <1>2
  DEF SweepOld, SweepNew
<1>3. CASE \/ CheckForUpdate \/ CmdUpgrade \/ Poll \/ Button
  BY <1>3
  DEF CheckForUpdate, CmdUpgrade, Poll, Button
<1>4. CASE LookCourtesy
  BY <1>4, <1>f
  DEF LookCourtesy, Installs
<1>5. CASE LookCommand
  BY <1>5, <1>f
  DEF LookCommand, Installs
<1>6. CASE LookWindow
  BY <1>6, <1>f
  DEF LookWindow, LookFor, WhatNow
<1>7. CASE Upgrade
  BY <1>7, <1>f
  DEF Upgrade, LookFor, Installs
<1>8. CASE \/ Accept \/ Decline
  BY <1>8
  DEF Accept, Decline
<1>9. CASE \/ Refused \/ OpenNew \/ WriteNew \/ WriteNewFails
  BY <1>9
  DEF Refused, OpenNew, WriteNew, WriteNewFails
<1>10. CASE \/ MoveAside \/ AsideFails \/ SwapFails
  BY <1>10
  DEF MoveAside, AsideFails, SwapFails
<1>11. CASE SwapIn
  BY <1>11
  DEF SwapIn
<1>12. CASE Kept
  BY <1>12
  DEF Kept
<1>13. CASE \/ CheckFails \/ RemoveNew
  BY <1>13
  DEF CheckFails, RemoveNew
<1>14. CASE MoveBack
  BY <1>14
  DEF MoveBack
<1>15. CASE SaveHeld
  BY <1>15
  DEF SaveHeld, Becomes
<1>16. CASE \/ RunsAgain \/ Command
  BY <1>16
  DEF RunsAgain, Command
<1>17. CASE Spawn
  BY <1>17
  DEF Spawn, Becomes
<1>18. CASE \/ RecordApplied \/ SpawnFails \/ Leave
  BY <1>18
  DEF RecordApplied, SpawnFails, Leave
<1>19. CASE \/ Announce \/ Close \/ Killed
  BY <1>19
  DEF Announce, Close, Killed
<1>20. CASE \/ Tick \/ SetClock \/ (\E r \in Releases : Release(r))
            \/ (\E p \in Policies : ChoosePolicy(p)) \/ UNCHANGED updateVars
  BY <1>20
  DEF Tick, SetClock, Release, ChoosePolicy, updateVars
<1> QED
  BY <1>1, <1>2, <1>3, <1>4, <1>5, <1>6, <1>7, <1>8, <1>9, <1>10, <1>11, <1>12,
    <1>13, <1>14, <1>15, <1>16, <1>17, <1>18, <1>19, <1>20
  DEF UpdateNext

(* The world it runs in does not change.                                    *)
LEMMA WorldNext == ASSUME [UpdateNext]_updateVars PROVE world' = world
BY DEF UpdateNext, updateVars, files, myself, past, Stays, Outside,
       Start, SweepOld, SweepNew, CheckForUpdate, CmdUpgrade, Poll, Button, LookCourtesy,
       LookCommand, LookWindow, Upgrade, Accept, Decline, Refused, OpenNew, WriteNew,
       WriteNewFails, MoveAside, AsideFails, SwapIn, SwapFails, Kept, CheckFails,
       RemoveNew, MoveBack, SaveHeld, RunsAgain, Command, RecordApplied, Spawn,
       SpawnFails, Leave, Announce, Close, Killed, Tick, SetClock, Release, ChoosePolicy

(* A version no later than the release in hand stays so: the next one in    *)
(* hand is later, or is none because the process itself is.                 *)
LEMMA StillBehind ==
  ASSUME Meant, NoneLater, KnownNews, world' = world, image' = image, image # NoFile,
         NEW c, c # NoFile, c.is \in Versions, Behind(c),
         \/ info' = info
         \/ \E found \in Found :
              found # NoInfo /\ info' = IF found.newer THEN found ELSE NoInfo
  PROVE  Behind(c)'
<1> image.is \in Versions  BY DEF KnownNews
<1>1. CASE info' = info
  BY <1>1 DEF Behind, UpTo, Earlier
<1>2. ASSUME NEW found \in Found, found # NoInfo,
             info' = IF found.newer THEN found ELSE NoInfo
      PROVE  Behind(c)'
  <2>1. /\ found.version = manifest.version /\ found.version \in Versions
        /\ found.newer = (Compare(manifest.version, image.is) > 0)
    BY <1>2, FoundIsKnown DEF KnownNews
  <2>2. found.newer <=> Rank[manifest.version] > Rank[image.is]  BY <2>1 DEF Meant
  <2> QED  BY <1>2, <2>1, <2>2 DEF Behind, UpTo, Earlier, KnownNews, Meant
<1> QED  BY <1>1, <1>2

(* The binary stays no later than what runs or what is known of.            *)
LEMMA BehindNext ==
  ASSUME Meant, NoneLater, OlderInv, Whose', KnownNews', [UpdateNext]_updateVars
  PROVE  Behind(exe)'
<1>w. world' = world  BY WorldNext
<1>r. exe # NoFile => exe.is \in Versions /\ Rank[exe.is] \in Int  BY DEF OlderInv, KnownNews, Meant
<1>k. KnownNews  BY DEF OlderInv
<1>b. Behind(exe)  BY DEF OlderInv
<1>1. CASE UNCHANGED <<exe, image, info>>
  BY <1>1, <1>w, <1>b DEF Behind, UpTo, Earlier
<1>2. CASE exe' = NoFile \/ image' = NoFile
  BY <1>2 DEF Behind
<1>3. CASE exe' = exe /\ image' = exe
  BY <1>3, <1>r DEF Behind
<1> USE DEF OlderInv, UpHolds, Busy, Whose, UpAt, Main, Quiet, files, myself, past,
        Idle, Goes, Ends, GoesOff, MainGoes, Stays, Outside
<1>4. CASE (\E c \in {"any", "upgrade"} : Start(c))
  BY <1>4, <1>1, <1>2, <1>3
  DEF Start
<1>5. CASE \/ SweepOld \/ SweepNew
  BY <1>5, <1>1, <1>2, <1>3
  DEF SweepOld, SweepNew
<1>6. CASE \/ CheckForUpdate \/ CmdUpgrade \/ Poll \/ Button
  BY <1>6, <1>1, <1>2, <1>3
  DEF CheckForUpdate, CmdUpgrade, Poll, Button
<1>7. CASE LookCourtesy
  BY <1>7, <1>r
  DEF LookCourtesy, Behind, Same
<1>8. CASE LookCommand
  BY <1>8, <1>r
  DEF LookCommand, Behind, Same
<1>9. CASE LookWindow
  BY <1>9, <1>1, <1>2, <1>k, <1>r, <1>b, <1>w, StillBehind
  DEF LookWindow, LookFor
<1>10. CASE Upgrade
  BY <1>10, <1>1, <1>2, <1>k, <1>r, <1>b, <1>w, StillBehind
  DEF Upgrade, LookFor
<1>11. CASE \/ Accept \/ Decline
  BY <1>11, <1>1, <1>2, <1>3
  DEF Accept, Decline
<1>12. CASE \/ Refused \/ OpenNew \/ WriteNew \/ WriteNewFails
  BY <1>12, <1>1, <1>2, <1>3
  DEF Refused, OpenNew, WriteNew, WriteNewFails
<1>13. CASE \/ MoveAside \/ AsideFails \/ SwapFails
  BY <1>13, <1>1, <1>2, <1>3
  DEF MoveAside, AsideFails, SwapFails
<1>14. CASE SwapIn
  BY <1>14, <1>w
  DEF SwapIn, InHand, Installs, Offers, KnownNews, Behind, UpTo, Earlier
<1>15. CASE Kept
  BY <1>15, <1>1, <1>2, <1>3
  DEF Kept
<1>16. CASE \/ CheckFails \/ RemoveNew
  BY <1>16, <1>1, <1>2, <1>3
  DEF CheckFails, RemoveNew
<1>17. CASE MoveBack
  BY <1>17, <1>1, <1>w
  DEF MoveBack, InHand, UnderWay, Behind, UpTo, Earlier
<1>18. CASE SaveHeld
  BY <1>18, <1>1, <1>2, <1>3
  DEF SaveHeld, Becomes
<1>19. CASE \/ RunsAgain \/ Command
  BY <1>19, <1>1, <1>2, <1>3
  DEF RunsAgain, Command
<1>20. CASE Spawn
  BY <1>20, <1>1, <1>2, <1>3
  DEF Spawn, Becomes
<1>21. CASE \/ RecordApplied \/ SpawnFails \/ Leave
  BY <1>21, <1>1, <1>2, <1>3
  DEF RecordApplied, SpawnFails, Leave
<1>22. CASE \/ Announce \/ Close \/ Killed
  BY <1>22, <1>1, <1>2, <1>3
  DEF Announce, Close, Killed
<1>23. CASE \/ Tick \/ SetClock \/ (\E r \in Releases : Release(r))
            \/ (\E p \in Policies : ChoosePolicy(p)) \/ UNCHANGED updateVars
  BY <1>23, <1>1, <1>2, <1>3
  DEF Tick, SetClock, Release, ChoosePolicy, updateVars
<1> QED
  BY <1>4, <1>5, <1>6, <1>7, <1>8, <1>9, <1>10, <1>11, <1>12, <1>13, <1>14,
    <1>15, <1>16, <1>17, <1>18, <1>19, <1>20, <1>21, <1>22, <1>23
  DEF UpdateNext

(* An update under way keeps its release, its offer and its way back.       *)
LEMMA InHandNext ==
  ASSUME Meant, NoneLater, OlderInv, Busy', Whose', [UpdateNext]_updateVars
  PROVE  InHand'
<1>w. world' = world  BY WorldNext
<1> USE <1>w DEF OlderInv, UpHolds, InHand, UnderWay, Behind, UpTo, Earlier, Installs, Offers,
        Busy, Whose, UpAt, Main, Quiet, files, myself, past, Idle, Goes, Ends, GoesOff,
        MainGoes, Stays, Outside
<1>1. CASE (\E c \in {"any", "upgrade"} : Start(c))
  BY <1>1
  DEF Start
<1>2. CASE SweepOld
  BY <1>2
  DEF SweepOld
<1>3. CASE SweepNew
  BY <1>3
  DEF SweepNew, Main
<1>4. CASE \/ CheckForUpdate \/ CmdUpgrade \/ Poll \/ Button
  BY <1>4
  DEF CheckForUpdate, CmdUpgrade, Poll, Button
<1>5. CASE \/ LookCourtesy \/ LookCommand
  BY <1>5
  DEF LookCourtesy, LookCommand
<1>6. CASE LookWindow
  BY <1>6
  DEF LookWindow, LookFor, WhatNow
<1>7. CASE Upgrade
  BY <1>7
  DEF Upgrade, LookFor
<1>8. CASE \/ Accept \/ Decline
  BY <1>8
  DEF Accept, Decline
<1>9. CASE \/ Refused \/ WriteNewFails \/ OpenNew \/ WriteNew
  BY <1>9
  DEF Refused, WriteNewFails, OpenNew, WriteNew, Built
<1>10. CASE \/ AsideFails \/ SwapFails
  BY <1>10
  DEF AsideFails, SwapFails
<1>11. CASE MoveAside
  BY <1>11
  DEF MoveAside, KnownNews
<1>12. CASE SwapIn
  BY <1>12
  DEF SwapIn
<1>13. CASE Kept
  BY <1>13
  DEF Kept
<1>14. CASE \/ CheckFails \/ RemoveNew
  BY <1>14
  DEF CheckFails, RemoveNew
<1>15. CASE MoveBack
  BY <1>15
  DEF MoveBack
<1>16. CASE SaveHeld
  BY <1>16
  DEF SaveHeld
<1>17. CASE \/ RunsAgain \/ Command
  BY <1>17
  DEF RunsAgain, Command
<1>18. CASE Spawn
  BY <1>18
  DEF Spawn
<1>19. CASE \/ RecordApplied \/ SpawnFails \/ Leave
  BY <1>19
  DEF RecordApplied, SpawnFails, Leave
<1>20. CASE \/ Announce \/ Close \/ Killed
  BY <1>20
  DEF Announce, Close, Killed
<1>21. CASE \/ Tick \/ SetClock \/ (\E r \in Releases : Release(r))
            \/ (\E p \in Policies : ChoosePolicy(p)) \/ UNCHANGED updateVars
  BY <1>21
  DEF Tick, SetClock, Release, ChoosePolicy, updateVars
<1> QED
  BY <1>1, <1>2, <1>3, <1>4, <1>5, <1>6, <1>7, <1>8, <1>9, <1>10, <1>11, <1>12,
    <1>13, <1>14, <1>15, <1>16, <1>17, <1>18, <1>19, <1>20, <1>21
  DEF UpdateNext

(* None of this is disturbed by a step.                                     *)
LEMMA OlderNext ==
  ASSUME Meant, NoneLater, OlderInv, [UpdateNext]_updateVars
  PROVE  OlderInv'
<1>1. UpHolds' /\ Busy'  BY UpNext, BusyNext DEF OlderInv
<1>2. Whose'  BY WhoseNext DEF OlderInv
<1>3. KnownNews'  BY KnownNext
<1> QED
  BY <1>1, <1>2, <1>3, AheadNext, BehindNext, SameNext, InHandNext DEF OlderInv

(* What is kept is seen to be the release in hand.                          *)
LEMMA KeptIsLater ==
  ASSUME Meant, OlderInv, [UpdateNext]_updateVars, up.step = "check", up'.kept
  PROVE  Rank[exe.is] > Rank[image.is] /\ Rank[exe.is] >= Rank[was.is]
<1> USE DEF OlderInv, UpHolds, InHand, Busy, Whose, UpAt, Main, Quiet, files, myself, past,
        Idle, Goes, Ends, GoesOff, MainGoes, Stays, Outside
<1>c. Kept
  BY DEF UpdateNext, updateVars,
       Start, SweepOld, SweepNew, CheckForUpdate, CmdUpgrade, Poll, Button, LookCourtesy,
       LookCommand, LookWindow, Upgrade, Accept, Decline, Refused, OpenNew, WriteNew,
       WriteNewFails, MoveAside, AsideFails, SwapIn, SwapFails, CheckFails,
       RemoveNew, MoveBack, SaveHeld, RunsAgain, Command, RecordApplied, Spawn,
       SpawnFails, Leave, Announce, Close, Killed, Tick, SetClock, Release, ChoosePolicy
<1>1. exe.is = info.version /\ image # NoFile /\ exe # NoFile
  BY <1>c DEF Kept, SelfCheck, Starts
<1>2. Rank[info.version] > Rank[image.is]  BY <1>1 DEF Ahead, Installs
<1>3. was # NoFile /\ Behind(was)  BY DEF UnderWay
<1>4. {info.version, image.is, was.is} \subseteq Versions
  BY <1>1, <1>3 DEF KnownNews, Installs, Offers
<1> QED  BY <1>1, <1>2, <1>3, <1>4 DEF Behind, UpTo, Meant

(* What an update puts in place and keeps is a later version than the one   *)
(* that asked for it, and no earlier than the one it takes the place of     *)
(* (update_check, update_plan_apply of src/src/update.c): for any releases  *)
(* whose versions compare as they are meant to and that list no later offer *)
(* than they say, builds that are not what they say they are included.      *)
THEOREM UpdatesNeverGoBack == ASSUME Meant, NoneLater PROVE UpdateSpec => NeverOlder
<1>1. UpdateInit => OlderInv  BY OlderInit
<1>2. OlderInv /\ [UpdateNext]_updateVars => OlderInv'  BY OlderNext
<1>3. OlderInv /\ [UpdateNext]_updateVars
        => [up.step = "check" /\ up'.kept
             => Rank[exe.is] > Rank[image.is] /\ Rank[exe.is] >= Rank[was.is]]_updateVars
  BY KeptIsLater
<1> QED  BY <1>1, <1>2, <1>3, PTL DEF UpdateSpec, NeverOlder

(* Nothing is on record and nothing was said.                               *)
LEMMA SaidInit == ASSUME UpdateInit PROVE SaidInv
BY DEF UpdateInit, SaidInv, Applies, UnderWay, Holding, Idle

(* What was recorded as applied and not yet said.                           *)
LEMMA SaidNext ==
  ASSUME Meant, Honest, LooksInv, OlderInv, SaidInv, Whose', [UpdateNext]_updateVars
  PROVE  SaidInv'
<1>w. world' = world  BY WorldNext
<1> USE <1>w DEF LooksInv, FileOK, OlderInv, SaidInv, Applies, UpHolds, InHand, UnderWay,
        Holding, Busy, Whose, UpAt, Main, Quiet, files, myself, past, Idle, Goes, Ends,
        GoesOff, MainGoes, Stays, Outside
<1>i. \A v \in recorded : v \in Versions /\ Rank[v] \in Int  BY DEF Meant
<1>e. exe # NoFile => /\ Rank[exe.is] \in Int
                      /\ \A v \in recorded : Rank[v] <= Rank[exe.is]
  BY <1>i DEF KnownNews, Meant
<1>b. up.step = "swap" /\ world.window /\ new # NoFile =>
        /\ new.is = info.version /\ Rank[info.version] \in Int
        /\ was.is = info.version \/ Rank[was.is] < Rank[info.version]
        /\ Rank[was.is] \in Int
  <2>1. SUFFICES ASSUME up.step = "swap", world.window, new # NoFile
                 PROVE  /\ new.is = info.version /\ Rank[info.version] \in Int
                        /\ was.is = info.version \/ Rank[was.is] < Rank[info.version]
                        /\ Rank[was.is] \in Int
    OBVIOUS
  <2>2. was # NoFile /\ Behind(was) /\ Offers(info) /\ new.is = info.version
    BY <2>1 DEF Installs, Offers, KnownNews
  <2>3. {info.version, image.is, was.is} \subseteq Versions
    BY <2>1, <2>2 DEF KnownNews, Offers
  <2>4. Rank[info.version] > Rank[image.is]  BY <2>1, <2>2 DEF Ahead
  <2> QED  BY <2>1, <2>2, <2>3, <2>4 DEF Behind, UpTo, Earlier, Meant
<1>a. up.step = "applied" => /\ info.version \in Versions /\ info.version \notin said
                             /\ info.version = exe.is
  <2>1. SUFFICES ASSUME up.step = "applied"
                 PROVE  /\ info.version \in Versions /\ info.version \notin said
                        /\ info.version = exe.is
    OBVIOUS
  <2>2. info.version \in Versions /\ image # NoFile /\ image.is \in Versions
    BY <2>1 DEF KnownNews, Offers
  <2>3. Rank[info.version] > Rank[image.is]  BY <2>1 DEF Ahead
  <2>4. \A v \in said : Rank[v] <= Rank[image.is]  BY <2>2
  <2> QED  BY <2>1, <2>2, <2>3, <2>4 DEF Meant
<1>1. CASE (\E c \in {"any", "upgrade"} : Start(c))
  BY <1>1, <1>e
  DEF Start
<1>2. CASE \/ SweepOld \/ SweepNew
  BY <1>2
  DEF SweepOld, SweepNew
<1>3. CASE \/ CheckForUpdate \/ CmdUpgrade \/ Poll \/ Button
  BY <1>3
  DEF CheckForUpdate, CmdUpgrade, Poll, Button
<1>4. CASE \/ LookCourtesy \/ LookCommand \/ LookWindow
  BY <1>4
  DEF LookCourtesy, LookCommand, LookWindow, LookFor, SaveLook, Looked, WhatNow, Installs, Offers
<1>5. CASE \/ Upgrade \/ Accept
  BY <1>5
  DEF Upgrade, Accept, LookFor, SaveLook, Looked
<1>6. CASE Decline
  BY <1>6
  DEF Decline, Save
<1>7. CASE \/ Refused \/ OpenNew \/ WriteNew \/ WriteNewFails
  BY <1>7
  DEF Refused, OpenNew, WriteNew, WriteNewFails
<1>8. CASE \/ AsideFails \/ SwapFails
  BY <1>8
  DEF AsideFails, SwapFails
<1>9. CASE MoveAside
  BY <1>9
  DEF MoveAside
<1>10. CASE SwapIn
  BY <1>10, <1>b, <1>i
  DEF SwapIn
<1>11. CASE Kept
  BY <1>11
  DEF Kept, SelfCheck, Starts, Installs
<1>12. CASE \/ CheckFails \/ RemoveNew
  BY <1>12
  DEF CheckFails, RemoveNew
<1>13. CASE MoveBack
  BY <1>13
  DEF MoveBack
<1>14. CASE SaveHeld
  BY <1>14
  DEF SaveHeld, Save
<1>15. CASE \/ RunsAgain \/ Command
  BY <1>15
  DEF RunsAgain, Command
<1>16. CASE RecordApplied
  BY <1>16, <1>i, <1>a
  DEF RecordApplied, Save, Applied
<1>17. CASE Spawn
  BY <1>17, <1>e
  DEF Spawn, Becomes
<1>18. CASE \/ SpawnFails \/ Leave
  BY <1>18
  DEF SpawnFails, Leave
<1>19. CASE Announce
  BY <1>19, <1>e
  DEF Announce, Announced, Says, Same
<1>20. CASE \/ Close \/ Killed
  BY <1>20
  DEF Close, Killed
<1>21. CASE \/ Tick \/ SetClock \/ (\E r \in Releases : Release(r))
            \/ (\E p \in Policies : ChoosePolicy(p)) \/ UNCHANGED updateVars
  BY <1>21
  DEF Tick, SetClock, Release, ChoosePolicy, updateVars
<1> QED
  BY <1>1, <1>2, <1>3, <1>4, <1>5, <1>6, <1>7, <1>8, <1>9, <1>10, <1>11, <1>12,
    <1>13, <1>14, <1>15, <1>16, <1>17, <1>18, <1>19, <1>20, <1>21
  DEF UpdateNext

(* A window announces what it is if that is on record and was not said.     *)
LEMMA SaysWhatIsRecorded ==
  ASSUME Meant, NoInfo \notin Versions, OlderInv, SaidInv,
         [UpdateNext]_updateVars, thread = "announce", thread' = "open"
  PROVE  Says <=> image.is \in recorded \ said
<1> USE DEF OlderInv, Busy, Whose
<1>1. exe = image /\ image # NoFile
  BY DEF Same, Main, UpdateNext, updateVars, files, myself, past, Stays, Outside, UpAt, Quiet,
       MainGoes, GoesOff, Becomes, Start, SweepOld, SweepNew, CheckForUpdate, CmdUpgrade,
       Poll, Button, LookCourtesy,
       LookCommand, LookWindow, Upgrade, Accept, Decline, Refused, OpenNew, WriteNew,
       WriteNewFails, MoveAside, AsideFails, SwapIn, SwapFails, Kept, CheckFails,
       RemoveNew, MoveBack, SaveHeld, RunsAgain, Command, RecordApplied, Spawn,
       SpawnFails, Leave, Announce, Close, Killed, Tick, SetClock, Release, ChoosePolicy
<1>2. image.is \in Versions /\ Rank[image.is] \in Int  BY <1>1 DEF KnownNews, Meant
<1> QED  BY <1>1, <1>2 DEF SaidInv, Applies, Says

(* A window says that it has been updated exactly when the version it is    *)
(* was recorded as applied and has not been announced (work_upgrade and     *)
(* announce_update of src/gui/main.cpp): for any such releases whose builds *)
(* for windows say what they are, through restarts, updates that fail,      *)
(* windows that do not open and processes that end at any step.             *)
THEOREM UpdatesAreSaidOnce ==
  ASSUME Meant, NoneLater, Honest, NoInfo \notin Versions
  PROVE  UpdateSpec => SaidOnce
<1> DEFINE Inv == LooksInv /\ OlderInv /\ SaidInv
<1>1. UpdateInit => Inv  BY LooksInit, OlderInit, SaidInit
<1>2. Inv /\ [UpdateNext]_updateVars => Inv'
  BY LooksNext, OlderNext, SaidNext DEF OlderInv
<1>3. Inv /\ [UpdateNext]_updateVars
        => [thread = "announce" /\ thread' = "open"
             => (Says <=> image.is \in recorded \ said)]_updateVars
  BY SaysWhatIsRecorded
<1> QED  BY <1>1, <1>2, <1>3, PTL DEF UpdateSpec, SaidOnce

(***************************************************************************)
(* What tabber keeps for itself stays whole. The state file: a writer that  *)
(* no other has overtaken puts back all it did not come to change, and a    *)
(* window shows what the next one opens on. The tabs: the cached digest and *)
(* the record are swapped in whole, a directory is claimed as a download only*)
(* once all of it is there, and the move from beside the binary takes one   *)
(* thing at a time.                                                         *)
(***************************************************************************)

(* ---------------------------- the state file ----------------------------- *)
Writers == Windows \cup {Task}

(* A copy that is still fresh differs from the file in what its writer came *)
(* to change, and in nothing else.                                          *)
CopiesFresh ==
  \A x \in Writers : writing[x] # Absent =>
    /\ DOMAIN writing[x].cfg = Fields
    /\ x \notin stale => \A f \in Fields \ writing[x].fields : writing[x].cfg[f] = disk[f]

CopiesInv == DOMAIN disk = Fields /\ DOMAIN writing = Writers /\ CopiesFresh

(* Taking a copy, whatever is changed in it.                                *)
LEMMA Taken ==
  ASSUME CopiesInv, NEW x \in Writers, NEW cfg, NEW fields, Takes(x, cfg, fields),
         DOMAIN cfg = Fields, \A f \in Fields \ fields : cfg[f] = disk[f],
         UNCHANGED <<disk, stale>>
  PROVE  CopiesInv'
<1>1. DOMAIN writing' = Writers BY DEF CopiesInv, Takes
<1>2. ASSUME NEW y \in Writers, y # x PROVE writing'[y] = writing[y]
  BY <1>2 DEF CopiesInv, Takes
<1>3. writing'[x] = [cfg |-> cfg, fields |-> fields] BY DEF CopiesInv, Takes
<1> QED BY <1>1, <1>2, <1>3 DEF CopiesInv, CopiesFresh

(* Giving one up.                                                           *)
LEMMA GivenUp ==
  ASSUME CopiesInv, NEW x \in Writers, writing' = [writing EXCEPT ![x] = Absent],
         stale' = stale \ {x}, UNCHANGED disk
  PROVE  CopiesInv'
<1>1. DOMAIN writing' = Writers BY DEF CopiesInv
<1>2. ASSUME NEW y \in Writers, y # x PROVE writing'[y] = writing[y]
  BY <1>2 DEF CopiesInv
<1>3. writing'[x] = Absent BY DEF CopiesInv
<1> QED BY <1>1, <1>2, <1>3 DEF CopiesInv, CopiesFresh

(* What the settings make of the file.                                      *)
LEMMA KeptSettings ==
  ASSUME CopiesInv, NEW w \in Windows, NEW fields, NEW now, KeepSettings(w, fields, now),
         UNCHANGED <<disk, stale>>
  PROVE  CopiesInv'
<1>1. CASE UNCHANGED writing BY <1>1 DEF CopiesInv, CopiesFresh
<1>2. CASE Takes(w, WrittenOver(disk, fields, now), fields)
  <2>1. /\ DOMAIN WrittenOver(disk, fields, now) = Fields
        /\ \A f \in Fields \ fields : WrittenOver(disk, fields, now)[f] = disk[f]
    BY DEF WrittenOver
  <2> QED BY <1>2, <2>1, Taken DEF Writers
<1> QED BY <1>1, <1>2 DEF KeepSettings

(* Swapping one in, which overtakes all the others.                         *)
LEMMA Swapped == ASSUME CopiesInv, NEW x \in Writers, Swap(x) PROVE CopiesInv'
<1>1. DOMAIN writing' = Writers BY DEF CopiesInv, Swap
<1>2. DOMAIN disk' = Fields BY DEF CopiesInv, CopiesFresh, Swap
<1>3. ASSUME NEW y \in Writers, writing'[y] # Absent
      PROVE  y \in stale' /\ writing'[y] = writing[y]
  BY <1>3 DEF CopiesInv, Swap
<1> QED BY <1>1, <1>2, <1>3 DEF CopiesInv, CopiesFresh

(* No window has read anything yet.                                         *)
LEMMA CopiesInit == SettingsInit => CopiesInv
BY DEF SettingsInit, CopiesInv, CopiesFresh, Writers, Fields, KeptFields

(* A copy in a window is as fresh as it is taken for, at every step.        *)
LEMMA CopiesNext == CopiesInv /\ [SettingsNext]_settingsVars => CopiesInv'
<1> SUFFICES ASSUME CopiesInv, [SettingsNext]_settingsVars PROVE CopiesInv'
  OBVIOUS
<1>1. CASE UNCHANGED <<disk, writing, stale>>
  BY <1>1 DEF CopiesInv, CopiesFresh
<1>2. ASSUME NEW w \in Windows, ChooseTheme(w) \/ KeepChanges(w) PROVE CopiesInv'
  BY <1>2, KeptSettings DEF ChooseTheme, KeepChanges
<1>3. ASSUME NEW w \in Windows, CloseWindow(w) PROVE CopiesInv'
  BY <1>3, GivenUp DEF CloseWindow, Writers
<1>4. CASE TakeRecord
  <2>1. /\ DOMAIN [disk EXCEPT !.tabs = ~@] = Fields
        /\ \A f \in Fields \ {"tabs"} : [disk EXCEPT !.tabs = ~@][f] = disk[f]
    BY DEF CopiesInv
  <2> QED BY <1>4, <2>1, Taken DEF TakeRecord, Writers
<1>5. ASSUME NEW x \in Writers, Swap(x) \/ SwapNothing(x) PROVE CopiesInv'
  BY <1>5, Swapped, GivenUp DEF SwapNothing
<1>6. \/ UNCHANGED <<disk, writing, stale>>
      \/ \E w \in Windows : ChooseTheme(w) \/ KeepChanges(w) \/ CloseWindow(w)
      \/ TakeRecord
      \/ \E x \in Writers : Swap(x) \/ SwapNothing(x)
  BY DEF SettingsNext, settingsVars, OpenWindow, OpenBox, Switch, ChoosePolicies,
         ChooseInterval, CancelChanges, Writers
<1> QED BY <1>1, <1>2, <1>3, <1>4, <1>5, <1>6

(* A writer that nobody overtook changes what it came to change and nothing *)
(* else in the file (config_load, the setters, config_save), however many   *)
(* windows and whatever they are made to show.                              *)
THEOREM OthersAlwaysStand == SettingsSpec => OthersStand
<1> DEFINE Stands ==
      \A x \in DOMAIN writing :
        /\ writing[x] # Absent /\ writing'[x] = Absent /\ disk' # disk /\ x \notin stale
        => \A f \in Fields \ writing[x].fields : disk'[f] = disk[f]
<1>1. CopiesInv /\ [SettingsNext]_settingsVars => Stands
  <2> SUFFICES ASSUME CopiesInv, [SettingsNext]_settingsVars, disk' # disk,
                      NEW x \in Writers, writing[x] # Absent, writing'[x] = Absent,
                      x \notin stale, NEW f \in Fields \ writing[x].fields
               PROVE  disk'[f] = disk[f]
    BY DEF CopiesInv
  <2>1. PICK y \in Writers : Swap(y)
    BY DEF SettingsNext, settingsVars, OpenWindow, OpenBox, ChooseTheme, Switch,
           ChoosePolicies, ChooseInterval, KeepChanges, CancelChanges, CloseWindow,
           TakeRecord, SwapNothing, Writers
  <2>2. y = x BY <2>1 DEF Swap, CopiesInv
  <2> QED BY <2>1, <2>2 DEF Swap, CopiesInv, CopiesFresh
<1>2. CopiesInv /\ [SettingsNext]_settingsVars => [Stands]_settingsVars
  BY <1>1
<1> QED BY <1>2, CopiesInit, CopiesNext, PTL DEF SettingsSpec, OthersStand

(***************************************************************************)
(* What a window shows is what the next one opens on.                       *)
(***************************************************************************)
(* What stands for a window that is closed, and for no write, is neither a  *)
(* window's settings nor a copy of the file.                                *)
PlainAbsent == Absent # [y \in DOMAIN Absent |-> Absent[y]]

(* What the box offers to go back to, or what is shown; and what is being   *)
(* written of it.                                                           *)
Base(w) == IF editing[w] THEN before[w] ELSE shown[w]
Pending(w) == IF writing[w] = Absent THEN {} ELSE writing[w].fields

(* A window says of a setting what the file would have it say.              *)
SaysOf(s, d, f) == IF f = "hours" THEN Span(s) = Span(Reading(d)) ELSE s[f] = d[f]

(* An interval the box can show.                                            *)
Controls == {"light", "bar", "logs", "policy", "every", "days"}
Sensible(s) ==
  /\ DOMAIN s = Controls /\ s.every \in Int /\ s.days \in BOOLEAN
  /\ HoursMin <= Span(s) /\ Span(s) <= EveryMax * Day

WindowHolds(w) ==
  IF shown[w] = Absent THEN writing[w] = Absent /\ ~editing[w]
  ELSE /\ Sensible(shown[w])
       /\ editing[w] => writing[w] = Absent /\ Sensible(before[w])
       /\ Pending(w) \subseteq KeptFields
       /\ \A f \in KeptFields \ (apart[w] \cup Pending(w)) : SaysOf(Base(w), disk, f)
       /\ \A f \in Pending(w) : SaysOf(shown[w], writing[w].cfg, f)
LogsHold(w) ==
  \/ shown[w] = Absent
  \/ saving[w] = (shown[w].logs /\ HasRoot)
  \/ /\ "logs" \in apart[w] /\ "logs" \notin Pending(w)
     /\ editing[w] => shown[w].logs = before[w].logs

AlikeTypes ==
  /\ DOMAIN shown = Windows /\ DOMAIN saving = Windows /\ DOMAIN editing = Windows
  /\ DOMAIN before = Windows /\ DOMAIN apart = Windows
  /\ disk.hours \in Int
  /\ \A x \in Writers : writing[x] # Absent => writing[x].cfg.hours \in Int
AlikeInv ==
  CopiesInv /\ AlikeTypes /\ \A w \in Windows : WindowHolds(w) /\ LogsHold(w)

(* An interval in days is as many hours.                                    *)
LEMMA SplitSpans ==
  ASSUME NEW h \in Int
  PROVE  /\ Span(Split(h)) = h /\ Split(h).every \in Int /\ Split(h).days \in BOOLEAN
<1>1. CASE h >= Day /\ (h % Day) = 0
  <2>1. (h \div Day) * Day = h /\ h \div Day \in Int  BY <1>1, SettingsAssumption
  <2> QED  BY <1>1, <2>1 DEF Split, Span
<1>2. CASE ~(h >= Day /\ (h % Day) = 0)
  BY <1>2 DEF Split, Span
<1> QED  BY <1>1, <1>2

(* The interval is kept within its bounds, which holding it to again leaves  *)
(* alone.                                                                   *)
LEMMA ClampBounds ==
  ASSUME NEW h \in Int
  PROVE  /\ Clamp(h) \in Int /\ HoursMin <= Clamp(h) /\ Clamp(h) <= EveryMax * Day
         /\ HoursMin <= h /\ h <= EveryMax * Day => Clamp(h) = h
<1>1. EveryMax * Day \in Int /\ HoursMin <= EveryMax * Day  BY SettingsAssumption
<1> QED  BY <1>1, SettingsAssumption DEF Clamp

(* What a window that opens reads of the file.                              *)
LEMMA ReadingOf ==
  ASSUME NEW d, d.hours \in Int
  PROVE  /\ Sensible(Reading(d)) /\ Span(Reading(d)) = Clamp(d.hours)
         /\ \A f \in KeptFields : SaysOf(Reading(d), d, f)
<1>1. Clamp(d.hours) \in Int  BY ClampBounds
<1>2. /\ Reading(d).every = Split(Clamp(d.hours)).every
      /\ Reading(d).days = Split(Clamp(d.hours)).days
  BY DEF Reading
<1>3. Span(Reading(d)) = Span(Split(Clamp(d.hours)))  BY <1>2 DEF Span
<1>4. Span(Reading(d)) = Clamp(d.hours)  BY <1>1, <1>3, SplitSpans
<1>5. Sensible(Reading(d))
  BY <1>1, <1>2, <1>4, SplitSpans, ClampBounds DEF Sensible, Controls, Reading
<1>6. \A f \in KeptFields : SaysOf(Reading(d), d, f)
  BY DEF KeptFields, SaysOf, Reading
<1> QED  BY <1>4, <1>5, <1>6

(* What is written of a setting is what the next window will read of it.    *)
LEMMA WrittenSays ==
  ASSUME NEW s, Sensible(s), NEW d, NEW fields \in SUBSET KeptFields, NEW f \in fields
  PROVE  SaysOf(s, WrittenOver(d, fields, s), f)
<1>1. WrittenOver(d, fields, s)[f] = Said(s, f)  BY DEF WrittenOver, Fields
<1>2. CASE f = "hours"
  <2>1. Span(s) \in Int  BY SettingsAssumption DEF Sensible, Span
  <2>2. WrittenOver(d, fields, s).hours = Clamp(Span(s))  BY <1>1, <1>2 DEF Said
  <2>3. Clamp(Span(s)) = Span(s)  BY <2>1, ClampBounds DEF Sensible
  <2>4. Span(Reading(WrittenOver(d, fields, s))) = Clamp(Span(s))
    BY <2>1, <2>2, <2>3, ReadingOf
  <2> QED  BY <1>2, <2>3, <2>4 DEF SaysOf
<1>3. CASE f # "hours"  BY <1>1, <1>3 DEF SaysOf, Said
<1> QED  BY <1>2, <1>3

(* The interval that the box can choose.                                    *)
LEMMA EveryBounds ==
  ASSUME NEW n \in Int, NEW s, s.every = Every(n), s.days \in BOOLEAN, DOMAIN s = Controls
  PROVE  Sensible(s)
<1>1. Every(n) \in Int /\ HoursMin <= Every(n) /\ Every(n) <= EveryMax
  BY SettingsAssumption DEF Every
<1>2. \A k \in Nat : k <= EveryMax => k <= k * Day /\ k * Day <= EveryMax * Day
  BY SettingsAssumption
<1>3. Every(n) \in Nat /\ EveryMax <= EveryMax * Day  BY <1>1, <1>2, SettingsAssumption
<1>4. CASE s.days
  BY <1>1, <1>2, <1>3, <1>4, SettingsAssumption DEF Sensible, Span
<1>5. CASE ~s.days
  BY <1>1, <1>3, <1>5, SettingsAssumption DEF Sensible, Span
<1> QED  BY <1>4, <1>5

(* A window that a step does not touch.                                     *)
LEMMA TreesUntouched ==
  ASSUME NEW v \in Windows, WindowHolds(v), LogsHold(v), UNCHANGED disk,
         shown'[v] = shown[v], saving'[v] = saving[v], editing'[v] = editing[v],
         before'[v] = before[v], writing'[v] = writing[v], apart'[v] = apart[v]
  PROVE  (WindowHolds(v) /\ LogsHold(v))'
BY DEF WindowHolds, LogsHold, Base, Pending

(* A box that opens, and a setting chosen in one that is open.              *)
LEMMA BoxKeeps ==
  ASSUME AlikeInv, PlainAbsent, NEW w \in Windows,
         \/ OpenBox(w) \/ \E f \in {"light", "bar", "logs"} : Switch(w, f)
         \/ \E choice \in Offered : ChoosePolicies(w, choice)
         \/ \E n \in Typed \cup {s.every : s \in {shown[w]} \ {Absent}}, days \in BOOLEAN :
              ChooseInterval(w, n, days)
  PROVE  (WindowHolds(w) /\ LogsHold(w))'
<1> USE DEF AlikeInv, AlikeTypes, AtRest
<1>1. CASE OpenBox(w)
  <2>1. /\ shown'[w] = shown[w] /\ saving'[w] = saving[w] /\ writing'[w] = writing[w]
        /\ apart'[w] = apart[w] /\ editing'[w] /\ before'[w] = shown[w] /\ disk' = disk
        /\ ~editing[w] /\ writing[w] = Absent /\ shown[w] # Absent
    BY <1>1 DEF OpenBox
  <2> QED  BY <2>1 DEF WindowHolds, LogsHold, Base, Pending
<1>b. ASSUME shown[w] # Absent, writing[w] = Absent, editing[w],
             shown'[w] # Absent, Sensible(shown'[w]), editing'[w] = editing[w], before'[w] = before[w], writing'[w] = writing[w],
             apart'[w] = apart[w], disk' = disk
      PROVE  WindowHolds(w)'
  BY <1>b DEF WindowHolds, Base, Pending
<1>2. ASSUME NEW f \in {"light", "bar", "logs"}, Switch(w, f)
      PROVE  (WindowHolds(w) /\ LogsHold(w))'
  <2>1. /\ shown'[w] = [shown[w] EXCEPT ![f] = ~@]
        /\ editing'[w] = editing[w] /\ before'[w] = before[w] /\ writing'[w] = writing[w]
        /\ apart'[w] = apart[w] /\ editing[w] /\ disk' = disk
        /\ writing[w] = Absent /\ shown[w] # Absent
    BY <1>2 DEF Switch
  <2>2. Sensible(shown[w])  BY <2>1 DEF WindowHolds
  <2>3. Sensible(shown'[w]) /\ shown'[w] # Absent
    BY <2>1, <2>2 DEF Sensible, Controls, Span, PlainAbsent
  <2>4. WindowHolds(w)'  BY <2>1, <2>3, <1>b
  <2>5. LogsHold(w)'
    <3>1. CASE f = "logs"
      <4>1. saving'[w] = (~shown[w].logs /\ HasRoot)  BY <1>2, <3>1 DEF Switch, Logs
      <4>2. shown'[w].logs = ~shown[w].logs  BY <2>1, <2>2, <3>1 DEF Sensible, Controls
      <4> QED  BY <4>1, <4>2 DEF LogsHold
    <3>2. CASE f # "logs"
      <4>1. saving'[w] = saving[w]  BY <1>2, <3>2 DEF Switch
      <4>2. shown'[w].logs = shown[w].logs  BY <2>1, <2>2, <3>2 DEF Sensible, Controls
      <4> QED  BY <2>1, <4>1, <4>2 DEF LogsHold, Pending
    <3> QED  BY <3>1, <3>2
  <2> QED  BY <2>4, <2>5
<1>3. ASSUME NEW choice \in Offered, ChoosePolicies(w, choice)
      PROVE  (WindowHolds(w) /\ LogsHold(w))'
  <2>1. /\ shown'[w] = [shown[w] EXCEPT !.policy = choice] /\ saving'[w] = saving[w]
        /\ editing'[w] = editing[w] /\ before'[w] = before[w] /\ writing'[w] = writing[w]
        /\ apart'[w] = apart[w] /\ editing[w] /\ disk' = disk
        /\ writing[w] = Absent /\ shown[w] # Absent
    BY <1>3 DEF ChoosePolicies
  <2>2. Sensible(shown[w])  BY <2>1 DEF WindowHolds
  <2>3. /\ Sensible(shown'[w]) /\ shown'[w].logs = shown[w].logs
        /\ shown'[w] # Absent
    BY <2>1, <2>2 DEF Sensible, Controls, Span, PlainAbsent
  <2>4. WindowHolds(w)'  BY <2>1, <2>3, <1>b
  <2>5. LogsHold(w)'  BY <2>1, <2>3 DEF LogsHold, Pending
  <2> QED  BY <2>4, <2>5
<1>4. ASSUME NEW n \in Typed \cup {s.every : s \in {shown[w]} \ {Absent}},
             NEW days \in BOOLEAN, ChooseInterval(w, n, days)
      PROVE  (WindowHolds(w) /\ LogsHold(w))'
  <2>1. /\ shown'[w] = [shown[w] EXCEPT !.every = Every(n), !.days = days]
        /\ saving'[w] = saving[w]
        /\ editing'[w] = editing[w] /\ before'[w] = before[w] /\ writing'[w] = writing[w]
        /\ apart'[w] = apart[w] /\ editing[w] /\ disk' = disk
        /\ writing[w] = Absent /\ shown[w] # Absent
    BY <1>4 DEF ChooseInterval
  <2>2. Sensible(shown[w])  BY <2>1 DEF WindowHolds
  <2>3. n \in Int  BY <2>1, <2>2, SettingsAssumption DEF Sensible
  <2>4. /\ DOMAIN shown'[w] = Controls /\ shown'[w].every = Every(n)
        /\ shown'[w].days = days /\ shown'[w].logs = shown[w].logs
    BY <2>1, <2>2 DEF Sensible, Controls
  <2>5. Sensible(shown'[w]) /\ shown'[w] # Absent
    BY <2>1, <2>3, <2>4, EveryBounds DEF PlainAbsent
  <2>6. WindowHolds(w)'  BY <2>1, <2>5, <1>b
  <2>7. LogsHold(w)'  BY <2>1, <2>4 DEF LogsHold, Pending
  <2> QED  BY <2>6, <2>7
<1> QED  BY <1>1, <1>2, <1>3, <1>4

(* What a window is to keep of its settings is what it writes, or what it   *)
(* could not.                                                               *)
LEMMA KeepsWhat ==
  ASSUME AlikeInv, PlainAbsent, NEW w \in Windows, NEW fields \in SUBSET KeptFields, NEW now,
         Sensible(now), KeepSettings(w, fields, now), UNCHANGED disk, writing[w] = Absent,
         shown'[w] = now, shown'[w] # Absent, ~editing'[w],
         \A f \in KeptFields \ (fields \cup apart[w]) : SaysOf(now, disk, f)
  PROVE  /\ WindowHolds(w)'
         /\ apart'[w] \subseteq apart[w] \cup fields
         /\ "logs" \in apart[w] => "logs" \in apart'[w]
         /\ Pending(w)' \subseteq fields
         /\ "logs" \in fields => "logs" \in apart'[w] \cup Pending(w)'
<1> USE DEF AlikeInv, AlikeTypes
<1>1. CASE fields = {} /\ UNCHANGED <<writing, apart>>
  BY <1>1 DEF WindowHolds, Base, Pending
<1>2. CASE Takes(w, WrittenOver(disk, fields, now), fields) /\ UNCHANGED apart
  <2>1. writing'[w] = [cfg |-> WrittenOver(disk, fields, now), fields |-> fields]
    BY <1>2 DEF Takes, CopiesInv, Writers
  <2>2. writing'[w] # Absent  BY <2>1 DEF PlainAbsent
  <2>3. Pending(w)' = fields  BY <2>1, <2>2 DEF Pending
  <2>4. \A f \in fields : SaysOf(now, WrittenOver(disk, fields, now), f)  BY WrittenSays
  <2>5. writing'[w].cfg = WrittenOver(disk, fields, now)  BY <2>1
  <2> QED  BY <1>2, <2>2, <2>3, <2>4, <2>5 DEF WindowHolds, Base
<1>3. CASE Differs(w, fields) /\ UNCHANGED writing
  <2>1. apart'[w] = apart[w] \cup fields  BY <1>3 DEF Differs
  <2> QED  BY <1>3, <2>1 DEF WindowHolds, Base, Pending
<1> QED  BY <1>1, <1>2, <1>3 DEF KeepSettings

(* A theme chosen from the strip, and the OK of the box.                    *)
LEMMA KeepsHold ==
  ASSUME AlikeInv, PlainAbsent, NEW w \in Windows, ChooseTheme(w) \/ KeepChanges(w)
  PROVE  (WindowHolds(w) /\ LogsHold(w))'
<1> USE DEF AlikeInv, AlikeTypes, AtRest
<1>1. CASE ChooseTheme(w)
  <2>1. /\ shown'[w] = [shown[w] EXCEPT !.light = ~@] /\ saving'[w] = saving[w]
        /\ editing'[w] = editing[w] /\ ~editing[w] /\ disk' = disk
        /\ writing[w] = Absent /\ shown[w] # Absent
        /\ KeepSettings(w, {"light"}, shown'[w])
    BY <1>1 DEF ChooseTheme
  <2>2. Sensible(shown[w])  BY <2>1 DEF WindowHolds
  <2>3. /\ Sensible(shown'[w])
        /\ \A f \in KeptFields \ {"light", "hours"} : shown'[w][f] = shown[w][f]
        /\ Span(shown'[w]) = Span(shown[w]) /\ shown'[w].logs = shown[w].logs
    BY <2>1, <2>2 DEF Sensible, Controls, Span, KeptFields
  <2>4. \A f \in KeptFields \ ({"light"} \cup apart[w]) : SaysOf(shown'[w], disk, f)
    <3>1. \A f \in KeptFields \ ({"light"} \cup apart[w]) : SaysOf(shown[w], disk, f)
      BY <2>1 DEF WindowHolds, Base, Pending
    <3> QED  BY <2>3, <3>1 DEF SaysOf
  <2>5. shown'[w] # Absent  BY <2>1, <2>2 DEF PlainAbsent, Sensible
  <2>6. {"light"} \in SUBSET KeptFields  BY DEF KeptFields
  <2>7. /\ WindowHolds(w)' /\ ("logs" \in apart[w] => "logs" \in apart'[w])
        /\ Pending(w)' \subseteq {"light"}
    BY <2>1, <2>3, <2>4, <2>5, <2>6, KeepsWhat
  <2>8. LogsHold(w)'  BY <2>1, <2>3, <2>7 DEF LogsHold, Pending
  <2> QED  BY <2>7, <2>8
<1>2. CASE KeepChanges(w)
  <2> DEFINE fields == Moved(before[w], shown[w])
  <2>1. /\ shown'[w] = shown[w] /\ saving'[w] = saving[w] /\ ~editing'[w] /\ editing[w]
        /\ disk' = disk /\ writing[w] = Absent /\ shown[w] # Absent
        /\ KeepSettings(w, fields, shown[w])
    BY <1>2 DEF KeepChanges
  <2>2. Sensible(shown[w])  BY <2>1 DEF WindowHolds
  <2>3. /\ fields \in SUBSET KeptFields
        /\ \A f \in KeptFields \ {"hours"} : f \notin fields => shown[w][f] = before[w][f]
        /\ "hours" \notin fields => Span(shown[w]) = Span(before[w])
    BY DEF Moved, Span, KeptFields
  <2> HIDE DEF fields
  <2>4. \A f \in KeptFields \ (fields \cup apart[w]) : SaysOf(shown[w], disk, f)
    <3>1. \A f \in KeptFields \ apart[w] : SaysOf(before[w], disk, f)
      BY <2>1 DEF WindowHolds, Base, Pending
    <3> QED  BY <2>3, <3>1 DEF SaysOf
  <2>5. /\ WindowHolds(w)' /\ ("logs" \in apart[w] => "logs" \in apart'[w])
        /\ Pending(w)' \subseteq fields
    BY <2>1, <2>2, <2>3, <2>4, KeepsWhat
  <2>6. LogsHold(w)'
    <3>1. CASE "logs" \in fields
      <4>1. shown[w].logs # before[w].logs  BY <3>1 DEF fields, Moved
      <4> QED  BY <2>1, <4>1 DEF LogsHold
    <3>2. CASE "logs" \notin fields  BY <2>1, <2>5, <3>2 DEF LogsHold
    <3> QED  BY <3>1, <3>2
  <2> QED  BY <2>5, <2>6
<1> QED  BY <1>1, <1>2

(* A window that opens or closes, and a box that is left.                   *)
LEMMA ComesAndGoes ==
  ASSUME AlikeInv, NEW w \in Windows, OpenWindow(w) \/ CloseWindow(w) \/ CancelChanges(w)
  PROVE  (WindowHolds(w) /\ LogsHold(w))'
<1> USE DEF AlikeInv, AlikeTypes, AtRest
<1>1. CASE OpenWindow(w)
  <2>1. /\ shown[w] = Absent /\ writing'[w] = writing[w] /\ editing'[w] = editing[w]
        /\ disk' = disk
    BY <1>1 DEF OpenWindow
  <2>2. writing[w] = Absent /\ ~editing[w]  BY <2>1 DEF WindowHolds
  <2>3. CASE /\ shown'[w] = Reading(disk) /\ saving'[w] = (disk.logs /\ HasRoot)
             /\ apart'[w] = {}
    <3>1. Reading(disk).logs = disk.logs  BY DEF Reading
    <3> QED  BY <2>1, <2>2, <2>3, <3>1, ReadingOf DEF WindowHolds, LogsHold, Base, Pending
  <2>4. CASE shown'[w] = Unread /\ apart'[w] = KeptFields
    <3>1. Sensible(Unread)
      BY SettingsAssumption DEF Sensible, Unread, Controls, Span
    <3> QED  BY <2>1, <2>2, <2>4, <3>1
             DEF WindowHolds, LogsHold, Base, Pending, KeptFields
  <2> QED  BY <1>1, <2>3, <2>4 DEF OpenWindow, Logs
<1>2. CASE CloseWindow(w)
  BY <1>2 DEF CloseWindow, WindowHolds, LogsHold, CopiesInv, Writers
<1>3. CASE CancelChanges(w)
  <2>1. /\ shown'[w] = before[w] /\ ~editing'[w] /\ editing[w] /\ writing'[w] = writing[w]
        /\ apart'[w] = apart[w] /\ disk' = disk
        /\ writing[w] = Absent /\ shown[w] # Absent
        /\ \/ before[w].logs # shown[w].logs /\ saving'[w] = (before[w].logs /\ HasRoot)
           \/ before[w].logs = shown[w].logs /\ saving'[w] = saving[w]
    BY <1>3 DEF CancelChanges, Restores, Logs
  <2>2. WindowHolds(w)'  BY <2>1 DEF WindowHolds, Base, Pending
  <2>3. LogsHold(w)'  BY <2>1 DEF LogsHold, Pending
  <2> QED  BY <2>2, <2>3
<1> QED  BY <1>1, <1>2, <1>3

(* A copy that is swapped in makes the file say what its window shows, and  *)
(* may set any other apart from it.                                         *)
LEMMA SwapKeeps ==
  ASSUME AlikeInv, NEW x \in Writers, Swap(x), NEW w \in Windows
  PROVE  (WindowHolds(w) /\ LogsHold(w))'
<1> USE DEF AlikeInv, AlikeTypes
<1> DEFINE own == IF w = x THEN writing[x].fields ELSE {}
           others == IF x \in stale THEN KeptFields ELSE IF w = x THEN {} ELSE writing[x].fields
<1>1. /\ shown'[w] = shown[w] /\ saving'[w] = saving[w] /\ editing'[w] = editing[w]
      /\ before'[w] = before[w] /\ disk' = writing[x].cfg /\ writing[x] # Absent
      /\ writing'[w] = IF w = x THEN Absent ELSE writing[w]
      /\ apart'[w] = (apart[w] \cup others) \ own
  BY DEF Swap, CopiesInv, Writers
<1>2. \A f \in Fields \ writing[x].fields : x \notin stale => disk'[f] = disk[f]
  BY <1>1 DEF CopiesInv, CopiesFresh
<1>3. ASSUME NEW s, NEW f \in KeptFields, disk'[f] = disk[f], SaysOf(s, disk, f)
      PROVE  SaysOf(s, disk', f)
  <2>1. f = "hours" => Span(Reading(disk')) = Span(Reading(disk))
    BY <1>3 DEF Span, Reading
  <2> QED  BY <1>3, <2>1 DEF SaysOf
<1>4. CASE shown[w] = Absent
  BY <1>1, <1>4 DEF WindowHolds, LogsHold
<1>5. CASE shown[w] # Absent /\ w = x
  <2>1. /\ Pending(w) = writing[w].fields /\ Pending(w)' = {} /\ own = Pending(w)
        /\ ~editing[w] /\ Base(w) = shown[w] /\ Base(w)' = shown[w]
    BY <1>1, <1>5 DEF Pending, WindowHolds, Base
  <2>2. ASSUME NEW f \in KeptFields \ apart'[w] PROVE SaysOf(shown[w], disk', f)
    <3>1. CASE f \in Pending(w)  BY <1>1, <1>5, <2>1, <3>1 DEF WindowHolds
    <3>2. CASE f \notin Pending(w)
      <4>1. f \notin apart[w] /\ x \notin stale  BY <1>1, <2>1, <2>2, <3>2
      <4>2. SaysOf(shown[w], disk, f)  BY <1>5, <2>1, <3>2, <4>1 DEF WindowHolds
      <4>3. disk'[f] = disk[f]  BY <1>2, <1>5, <2>1, <3>2, <4>1 DEF Fields
      <4> QED  BY <1>3, <4>2, <4>3
    <3> QED  BY <3>1, <3>2
  <2>3. WindowHolds(w)'  BY <1>1, <1>5, <2>1, <2>2 DEF WindowHolds
  <2>4. LogsHold(w)'  BY <1>1, <1>5, <2>1 DEF LogsHold
  <2> QED  BY <2>3, <2>4
<1>6. CASE shown[w] # Absent /\ w # x
  <2>1. /\ Pending(w)' = Pending(w) /\ Base(w)' = Base(w)
        /\ apart'[w] = apart[w] \cup others
    BY <1>1, <1>6 DEF Pending, Base
  <2>2. ASSUME NEW f \in KeptFields \ (apart'[w] \cup Pending(w))
        PROVE  SaysOf(Base(w), disk', f)
    <3>1. f \notin apart[w] /\ x \notin stale /\ f \notin writing[x].fields
      BY <1>6, <2>1, <2>2
    <3>2. SaysOf(Base(w), disk, f)  BY <1>6, <2>2, <3>1 DEF WindowHolds
    <3>3. disk'[f] = disk[f]  BY <1>2, <3>1 DEF Fields
    <3> QED  BY <1>3, <3>2, <3>3
  <2>3. WindowHolds(w)'  BY <1>1, <1>6, <2>1, <2>2 DEF WindowHolds
  <2>4. LogsHold(w)'  BY <1>1, <1>6, <2>1 DEF LogsHold
  <2> QED  BY <2>3, <2>4
<1> QED  BY <1>4, <1>5, <1>6

(* One that could not be.                                                   *)
LEMMA SwapNothingKeeps ==
  ASSUME AlikeInv, NEW x \in Writers, SwapNothing(x), NEW w \in Windows
  PROVE  (WindowHolds(w) /\ LogsHold(w))'
<1> USE DEF AlikeInv, AlikeTypes
<1>1. /\ shown'[w] = shown[w] /\ saving'[w] = saving[w] /\ editing'[w] = editing[w]
      /\ before'[w] = before[w] /\ disk' = disk /\ writing[x] # Absent
      /\ writing'[w] = IF w = x THEN Absent ELSE writing[w]
      /\ apart'[w] = IF w = x THEN apart[w] \cup writing[x].fields ELSE apart[w]
  BY SettingsAssumption DEF SwapNothing, Differs, CopiesInv, Writers
<1>2. CASE w # x  BY <1>1, <1>2, TreesUntouched
<1>3. CASE w = x /\ shown[w] = Absent  BY <1>1, <1>3 DEF WindowHolds, LogsHold
<1>4. CASE w = x /\ shown[w] # Absent
  <2>1. /\ Pending(w) = writing[w].fields /\ Pending(w)' = {}
        /\ apart'[w] = apart[w] \cup Pending(w)
        /\ ~editing[w] /\ Base(w) = shown[w] /\ Base(w)' = shown[w]
    BY <1>1, <1>4 DEF Pending, WindowHolds, Base
  <2>2. WindowHolds(w)'  BY <1>1, <1>4, <2>1 DEF WindowHolds
  <2>3. LogsHold(w)'  BY <1>1, <1>4, <2>1 DEF LogsHold
  <2> QED  BY <2>2, <2>3
<1> QED  BY <1>2, <1>3, <1>4

(* Hours stay hours.                                                        *)
LEMMA TypesNext ==
  ASSUME AlikeInv, [SettingsNext]_settingsVars PROVE AlikeTypes'
<1> USE DEF AlikeInv, CopiesInv
<1>1. ASSUME NEW w \in Windows, ChooseTheme(w) \/ KeepChanges(w) PROVE AlikeTypes'
  <2>1. /\ DOMAIN shown' = Windows /\ DOMAIN saving' = Windows /\ DOMAIN editing' = Windows
        /\ DOMAIN before' = Windows /\ DOMAIN apart' = Windows /\ disk' = disk
    BY <1>1 DEF ChooseTheme, KeepChanges, KeepSettings, Differs, Takes, AlikeTypes
  <2>2. PICK fields \in SUBSET KeptFields, now \in {shown[w], shown'[w]} :
          KeepSettings(w, fields, now) /\ now.every \in Int /\ now.days \in BOOLEAN
    <3>0. shown[w] # Absent  BY <1>1 DEF ChooseTheme, KeepChanges, AtRest
    <3>1. Sensible(shown[w])  BY <3>0 DEF WindowHolds
    <3>2. CASE ChooseTheme(w)
      <4>1. shown'[w] = [shown[w] EXCEPT !.light = ~@]
        BY <3>2 DEF ChooseTheme, AlikeTypes
      <4>2. shown'[w].every = shown[w].every /\ shown'[w].days = shown[w].days
        BY <3>1, <4>1 DEF Sensible, Controls
      <4>3. {"light"} \in SUBSET KeptFields  BY DEF KeptFields
      <4> QED  BY <3>1, <3>2, <4>2, <4>3 DEF ChooseTheme, Sensible
    <3>3. CASE KeepChanges(w)
      <4>1. Moved(before[w], shown[w]) \in SUBSET KeptFields  BY DEF Moved, KeptFields
      <4> QED  BY <3>1, <3>3, <4>1 DEF KeepChanges, Sensible
    <3> QED  BY <1>1, <3>2, <3>3
  <2>3. Span(now) \in Int  BY <2>2, SettingsAssumption DEF Span
  <2>4. WrittenOver(disk, fields, now).hours \in Int
    BY <2>3, ClampBounds DEF WrittenOver, Said, Fields, KeptFields, AlikeTypes
  <2>5. ASSUME NEW x \in Writers, writing'[x] # Absent PROVE writing'[x].cfg.hours \in Int
    <3>1. CASE writing' = writing  BY <2>5, <3>1 DEF AlikeTypes
    <3>2. CASE Takes(w, WrittenOver(disk, fields, now), fields)
      BY <2>4, <2>5, <3>2 DEF AlikeTypes, Takes, Writers
    <3> QED  BY <2>2, <3>1, <3>2 DEF KeepSettings
  <2> QED  BY <2>1, <2>5 DEF AlikeTypes
<1>2. ASSUME NEW w \in Windows,
             \/ OpenWindow(w) \/ OpenBox(w) \/ CloseWindow(w) \/ CancelChanges(w)
             \/ \E f \in {"light", "bar", "logs"} : Switch(w, f)
             \/ \E choice \in Offered : ChoosePolicies(w, choice)
             \/ \E n \in Typed \cup {s.every : s \in {shown[w]} \ {Absent}}, days \in BOOLEAN :
                  ChooseInterval(w, n, days)
      PROVE  AlikeTypes'
  BY <1>2
  DEF AlikeTypes, OpenWindow, OpenBox, CloseWindow, CancelChanges, Restores, Switch,
      ChoosePolicies, ChooseInterval, Logs
<1>3. CASE TakeRecord
  <2>1. [disk EXCEPT !.tabs = ~@].hours = disk.hours  BY DEF Fields, KeptFields
  <2> QED  BY <1>3, <2>1 DEF TakeRecord, Takes, AlikeTypes, Writers
<1>4. ASSUME NEW x \in Writers, Swap(x) \/ SwapNothing(x) PROVE AlikeTypes'
  BY <1>4 DEF Swap, SwapNothing, Differs, AlikeTypes
<1>5. CASE UNCHANGED settingsVars  BY <1>5 DEF settingsVars, AlikeTypes
<1> QED  BY <1>1, <1>2, <1>3, <1>4, <1>5 DEF SettingsNext, Writers

(* No window is open.                                                       *)
LEMMA AlikeInit == SettingsInit => AlikeInv
BY SettingsAssumption, CopiesInit
DEF SettingsInit, AlikeInv, AlikeTypes, WindowHolds, LogsHold, Writers

(* Every window shows what it is to show, at every step of any.             *)
LEMMA AlikeNext ==
  ASSUME PlainAbsent, AlikeInv, [SettingsNext]_settingsVars PROVE AlikeInv'
<1>1. CopiesInv' /\ AlikeTypes'  BY CopiesNext, TypesNext DEF AlikeInv
<1> SUFFICES ASSUME NEW v \in Windows PROVE (WindowHolds(v) /\ LogsHold(v))'
  BY <1>1 DEF AlikeInv
<1>h. WindowHolds(v) /\ LogsHold(v)  BY DEF AlikeInv
<1>t. /\ DOMAIN shown = Windows /\ DOMAIN saving = Windows /\ DOMAIN editing = Windows
      /\ DOMAIN before = Windows /\ DOMAIN apart = Windows /\ DOMAIN writing = Writers
      /\ v \in Writers
  BY DEF AlikeInv, AlikeTypes, CopiesInv, Writers
<1>2. ASSUME NEW w \in Windows,
             \/ OpenWindow(w) \/ CloseWindow(w) \/ CancelChanges(w)
             \/ ChooseTheme(w) \/ KeepChanges(w) \/ OpenBox(w)
             \/ \E f \in {"light", "bar", "logs"} : Switch(w, f)
             \/ \E choice \in Offered : ChoosePolicies(w, choice)
             \/ \E n \in Typed \cup {s.every : s \in {shown[w]} \ {Absent}}, days \in BOOLEAN :
                  ChooseInterval(w, n, days)
      PROVE  (WindowHolds(v) /\ LogsHold(v))'
  <2>1. CASE v = w
    BY <1>2, <2>1, ComesAndGoes, KeepsHold, BoxKeeps
  <2>2. CASE v # w
    <3>1. /\ disk' = disk /\ shown'[v] = shown[v] /\ saving'[v] = saving[v]
          /\ editing'[v] = editing[v] /\ before'[v] = before[v]
          /\ writing'[v] = writing[v] /\ apart'[v] = apart[v]
      BY <1>2, <2>2, <1>t
      DEF OpenWindow, CloseWindow, CancelChanges, Restores, ChooseTheme, KeepChanges, OpenBox,
          Switch, ChoosePolicies, ChooseInterval, KeepSettings, Takes, Differs, Logs
    <3> QED  BY <3>1, <1>h, TreesUntouched
  <2> QED  BY <2>1, <2>2
<1>3. CASE TakeRecord
  <2>1. /\ disk' = disk /\ shown' = shown /\ saving' = saving /\ editing' = editing
        /\ before' = before /\ writing'[v] = writing[v] /\ apart' = apart
    BY <1>3, <1>t, SettingsAssumption DEF TakeRecord, Takes
  <2> QED  BY <2>1, <1>h, TreesUntouched
<1>4. ASSUME NEW x \in Writers, Swap(x) \/ SwapNothing(x)
      PROVE  (WindowHolds(v) /\ LogsHold(v))'
  BY <1>4, SwapKeeps, SwapNothingKeeps
<1>5. CASE UNCHANGED settingsVars
  BY <1>5, <1>h, TreesUntouched DEF settingsVars
<1> QED  BY <1>2, <1>3, <1>4, <1>5 DEF SettingsNext, Writers

(* A window that is not editing shows what the next one will open on, the    *)
(* interval in as many hours whichever unit says it, and writes a logfile    *)
(* exactly when it shows that it does (src/gui/main.cpp, settings_write,     *)
(* settings_cancel, read_settings): for any number of windows, any interval  *)
(* the file may hold and any typed in the box, but for what could not be     *)
(* read or written and what other writers have put in the file since.        *)
THEOREM TheNextWindowIsAlike == ASSUME PlainAbsent PROVE SettingsSpec => []NextWindowAlike
<1>1. AlikeInv => NextWindowAlike
  <2> SUFFICES ASSUME AlikeInv, NEW w \in Windows, AtRest(w), ~editing[w]
               PROVE  /\ \A f \in KeptFields \ apart[w] : SaysOf(shown[w], disk, f)
                      /\ "logs" \notin apart[w] => saving[w] = (shown[w].logs /\ HasRoot)
    BY DEF NextWindowAlike, SaysOf
  <2> QED  BY DEF AlikeInv, WindowHolds, LogsHold, Base, Pending, AtRest
<1> QED  BY <1>1, AlikeInit, AlikeNext, PTL DEF SettingsSpec

(* -------------------------------- the tabs ------------------------------- *)
(* What stands for nothing, and for what cannot be read, is no function:    *)
(* neither a record nor a digest, nor a command that runs.                  *)
NotAFunction(x) == x # [y \in DOMAIN x |-> x[y]]
Plain == NotAFunction(Missing) /\ NotAFunction(Broken)

(* What may sit beside the binary can be read; and a digest, there or from  *)
(* the server, promises something of each tab it lists.                     *)
Readable == \A b \in Besides : b.record # Broken /\ b.digest # Broken
Promising(dig) == Loads(dig) => \A t \in DOMAIN dig : dig[t] # Missing
Promised == \A dig \in Catalogues \cup {b.digest : b \in Besides} : Promising(dig)

(* What the old place records is what it has.                               *)
KnownOf(record) == IF record = Missing THEN Blank ELSE record
Consistent ==
  \A b \in Besides, t \in Shelves :
    Claimed(KnownOf(b.record), t) <=> b.tabs # Missing /\ t \in DOMAIN b.tabs

(***************************************************************************)
(* A command and the step it is at.                                         *)
(***************************************************************************)
Places == {"record", "digest", "tabs"}
Remaining == {<<"record", "digest", "tabs">>, <<"digest", "tabs">>, <<"tabs">>, <<>>}

(* The places, and the command.                                             *)
Shape ==
  /\ DOMAIN root = Places /\ DOMAIN beside = Places /\ DOMAIN vetted = Shelves
  /\ beside.tabs # Missing => DOMAIN beside.tabs \subseteq Shelves
  /\ job # Missing =>
       /\ DOMAIN job = {"kind", "tab", "step", "todo", "dig", "pack", "offline"}
       /\ job.kind \in Kinds /\ job.todo \in Remaining
       /\ job.kind \in OfTab => job.tab \in Shelves
       /\ job.step \in {"install", "detect", "download", "clear", "make", "fill", "record",
                        "remove", "unrecord", "uninstall"} => job.kind \in OfTab
       /\ job.step = "install" => job.kind = "install"

(* Things are moved in their order, before anything else is done; what is   *)
(* being copied is there in part.                                           *)
Moving ==
  job # Missing =>
    /\ job.step \notin {"adopt", "copy"} => job.todo = <<>>
    /\ job.step = "copy" =>
         job.todo # <<>> /\ LET e == Head(job.todo)
                           IN root[e] = Torn(e) /\ beside[e] # Missing

AdoptInv == Shape /\ Moving

(* Nothing has been moved yet, and nothing runs.                            *)
LEMMA AdoptInit == ASSUME StoreInit PROVE AdoptInv
BY StoreAssumption DEF StoreInit, AdoptInv, Shape, Moving, Places

(* What remains to be moved, one thing after another.                       *)
LEMMA TailRemains ==
  ASSUME NEW todo \in Remaining, todo # <<>>
  PROVE  /\ Tail(todo) \in Remaining /\ Head(todo) \in Places
         /\ Head(todo) = "record" => todo = Entries
         /\ Head(todo) = "digest" => todo = <<"digest", "tabs">>
         /\ Head(todo) = "tabs" => Tail(todo) = <<>>
<1>1. CASE todo = <<"record", "digest", "tabs">>
  BY <1>1, Tail(todo) = <<"digest", "tabs">>, Head(todo) = "record"
  DEF Remaining, Places, Entries
<1>2. CASE todo = <<"digest", "tabs">>
  BY <1>2, Tail(todo) = <<"tabs">>, Head(todo) = "digest" DEF Remaining, Places
<1>3. CASE todo = <<"tabs">>
  BY <1>3, Tail(todo) = <<>>, Head(todo) = "tabs" DEF Remaining, Places
<1> QED  BY <1>1, <1>2, <1>3 DEF Remaining

(* The places keep their shape, and so does the command.                    *)
LEMMA ShapeNext ==
  ASSUME Shape, Moving, [StoreNext]_storeVars
  PROVE  Shape'
<1>t. job # Missing /\ job.step = "copy" => job.todo # <<>>  BY DEF Moving
<1> USE DEF Shape, Places, Doing, Step, Exit, Steady, history
<1>1. CASE (\E kind \in Kinds, t \in Shelves, o \in BOOLEAN : Run(kind, t, o))
  BY <1>1
  DEF Run, Remaining, Entries, OfTab
<1>2. CASE AdoptDone
  BY <1>2
  DEF AdoptDone, Refreshes, OfTab
<1>3. CASE AdoptOne
  BY <1>3, TailRemains
  DEF AdoptOne, Moves
<1>4. CASE \/ AdoptCopied \/ AdoptFails
  BY <1>4, TailRemains, <1>t
  DEF AdoptCopied, AdoptFails
<1>5. CASE \/ Refresh \/ StageDigest \/ SwapDigest \/ RefreshFails
  BY <1>5
  DEF Refresh, StageDigest, SwapDigest, RefreshFails
<1>6. CASE Load
  BY <1>6, StoreAssumption
  DEF Load, OfTab
<1>7. CASE \/ Inspect \/ FetchOriginals \/ EnsureDownloaded \/ InstallTab
  BY <1>7
  DEF Inspect, FetchOriginals, EnsureDownloaded, InstallTab
<1>8. CASE \/ Download \/ Clear \/ ClearFails \/ MakeDir \/ MakeFails
  BY <1>8
  DEF Download, Clear, ClearFails, MakeDir, MakeFails
<1>9. CASE \/ WriteOne \/ WriteOneFails \/ Filled \/ RecordDownload
  BY <1>9
  DEF WriteOne, WriteOneFails, Filled, RecordDownload
<1>10. CASE \/ RemoveTab \/ Unrecord \/ Cut \/ WindowSaves
  BY <1>10
  DEF RemoveTab, Unrecord, Cut, WindowSaves
<1>11. CASE UNCHANGED storeVars
  BY <1>11
  DEF storeVars
<1> QED
  BY <1>1, <1>2, <1>3, <1>4, <1>5, <1>6, <1>7, <1>8, <1>9, <1>10, <1>11
  DEF StoreNext

(* The order of the move.                                                   *)
LEMMA MovingNext ==
  ASSUME Shape, Moving, [StoreNext]_storeVars
  PROVE  Moving'
<1> USE DEF Shape, Moving, Places, Doing, Step, Exit, Steady, history
<1>1. CASE (\E kind \in Kinds, t \in Shelves, o \in BOOLEAN : Run(kind, t, o))
  BY <1>1
  DEF Run, Remaining, Entries
<1>2. CASE AdoptDone
  BY <1>2
  DEF AdoptDone, Refreshes
<1>3. CASE AdoptOne
  BY <1>3, TailRemains
  DEF AdoptOne, Moves, Torn, StillBeside
<1>4. CASE \/ AdoptCopied \/ AdoptFails
  BY <1>4
  DEF AdoptCopied, AdoptFails
<1>5. CASE \/ Refresh \/ StageDigest \/ SwapDigest \/ RefreshFails
  BY <1>5
  DEF Refresh, StageDigest, SwapDigest, RefreshFails
<1>6. CASE Load
  BY <1>6, StoreAssumption
  DEF Load
<1>7. CASE \/ Inspect \/ FetchOriginals \/ EnsureDownloaded \/ InstallTab
  BY <1>7
  DEF Inspect, FetchOriginals, EnsureDownloaded, InstallTab
<1>8. CASE \/ Download \/ Clear \/ ClearFails \/ MakeDir \/ MakeFails
  BY <1>8
  DEF Download, Clear, ClearFails, MakeDir, MakeFails
<1>9. CASE \/ WriteOne \/ WriteOneFails \/ Filled \/ RecordDownload
  BY <1>9
  DEF WriteOne, WriteOneFails, Filled, RecordDownload
<1>10. CASE \/ RemoveTab \/ Unrecord \/ Cut \/ WindowSaves
  BY <1>10
  DEF RemoveTab, Unrecord, Cut, WindowSaves
<1>11. CASE UNCHANGED storeVars
  BY <1>11
  DEF storeVars, Torn, StillBeside
<1> QED
  BY <1>1, <1>2, <1>3, <1>4, <1>5, <1>6, <1>7, <1>8, <1>9, <1>10, <1>11
  DEF StoreNext

(* The move goes in its order at every step.                                *)
LEMMA AdoptNext == ASSUME AdoptInv, [StoreNext]_storeVars PROVE AdoptInv'
BY ShapeNext, MovingNext DEF AdoptInv

(* Whatever step it is at, the move leaves what is whole in one of the two  *)
(* places.                                                                  *)
LEMMA NothingIsLost ==
  ASSUME AdoptInv, [StoreNext]_storeVars, job # Missing, job.step \in {"adopt", "copy"},
         NEW e \in Places
  PROVE  {root[e], beside[e]} \ {Missing, Broken, Torn(e)} \subseteq {root'[e], beside'[e]}
<1> USE DEF AdoptInv, Shape, Moving, Places, Doing
<1>1. CASE AdoptOne
  BY <1>1, TailRemains
  DEF AdoptOne, Moves
<1>2. CASE AdoptCopied
  BY <1>2, TailRemains
  DEF AdoptCopied
<1>3. CASE \/ AdoptDone \/ AdoptFails \/ Refresh \/ StageDigest \/ SwapDigest
           \/ RefreshFails \/ Load \/ Inspect \/ FetchOriginals \/ EnsureDownloaded
           \/ InstallTab \/ Download \/ Clear \/ ClearFails \/ MakeDir \/ MakeFails
           \/ WriteOne \/ WriteOneFails \/ Filled \/ RecordDownload \/ RemoveTab
           \/ Unrecord \/ Cut \/ WindowSaves \/ UNCHANGED storeVars
           \/ (\E kind \in Kinds, t \in Shelves, o \in BOOLEAN : Run(kind, t, o))
  BY <1>3
  DEF AdoptDone, AdoptFails, Refresh, StageDigest, SwapDigest, RefreshFails,
      Load, Inspect, FetchOriginals, EnsureDownloaded, InstallTab, Download, Clear,
      ClearFails, MakeDir, MakeFails, WriteOne, WriteOneFails, Filled, RecordDownload,
      RemoveTab, Unrecord, Cut, WindowSaves, storeVars, Run
<1> QED
  BY <1>1, <1>2, <1>3
  DEF StoreNext

(* What the move to the new place finds whole, at either place, it leaves   *)
(* whole in one of them, and it writes over nothing (adopt_old_root of      *)
(* src/src/main.c, plat_move_entries): on one volume or two, for whatever   *)
(* lies in either place, cut short or not.                                  *)
THEOREM TheMoveLosesNothing == StoreSpec => AdoptLosesNothing
<1> DEFINE Keeps ==
      job # Missing /\ job.step \in {"adopt", "copy"}
      => \A e \in {"record", "digest", "tabs"} :
           {root[e], beside[e]} \ {Missing, Broken, Torn(e)} \subseteq {root'[e], beside'[e]}
<1>1. StoreInit => AdoptInv  BY AdoptInit
<1>2. AdoptInv /\ [StoreNext]_storeVars => AdoptInv'  BY AdoptNext
<1>3. AdoptInv /\ [StoreNext]_storeVars => [Keeps]_storeVars  BY NothingIsLost DEF Places
<1> QED  BY <1>1, <1>2, <1>3, PTL DEF StoreSpec, AdoptLosesNothing

(***************************************************************************)
(* The cached digest and the record can be read.                            *)
(***************************************************************************)
(* Nothing beside the binary is broken, nor is a digest on its way in.      *)
ReadInv ==
  /\ beside.record # Broken /\ beside.digest # Broken
  /\ job # Missing /\ job.step = "stage" => job.dig # Broken
  /\ job # Missing /\ job.step = "swap" => cacheTmp # Broken
  /\ KeptReadable

(* Nothing is in place yet, and what is beside the binary can be read.      *)
LEMMA ReadInit == ASSUME Readable, StoreInit PROVE ReadInv
BY StoreAssumption DEF Readable, StoreInit, ReadInv, KeptReadable

(* A record that is written is one, and so are the tabs that are kept.      *)
LEMMA Written ==
  ASSUME Plain, NEW rec, NEW t, NEW given, NEW listed
  PROVE  /\ Downloaded(rec, t) \notin {Missing, Broken}
         /\ Shelved(t, given) # Missing /\ Without(t) # Missing
         /\ Blank \notin {Missing, Broken}
         /\ rec \notin {Missing, Broken} => Removed(rec, t, listed) \notin {Missing, Broken}
<1> USE DEF Plain, NotAFunction
<1>1. Downloaded(rec, t) \notin {Missing, Broken}  BY DEF Downloaded
<1>2. Shelved(t, given) # Missing  BY DEF Shelved
<1>3. Without(t) # Missing  BY DEF Without
<1>4. Blank \notin {Missing, Broken}  BY DEF Blank
<1>5. rec \notin {Missing, Broken} => Removed(rec, t, listed) \notin {Missing, Broken}
  BY DEF Removed
<1> QED  BY <1>1, <1>2, <1>3, <1>4, <1>5

(* Every write is of a whole record or digest, but for the copies of the    *)
(* move.                                                                    *)
LEMMA ReadNext ==
  ASSUME Plain, AdoptInv, ReadInv, [StoreNext]_storeVars
  PROVE  ReadInv'
<1>k. /\ KeptReadable <=>
           /\ root.record = Broken => beside.record # Missing
           /\ root.digest = Broken => beside.digest # Missing
      /\ KeptReadable' <=>
           /\ root'.record = Broken => beside'.record # Missing
           /\ root'.digest = Broken => beside'.digest # Missing
  BY DEF KeptReadable
<1>d. Downloaded(Known, job.tab) # Broken  BY Written
<1>v. root.record # Broken => Known \notin {Missing, Broken}  BY Written DEF Known
<1> USE <1>k DEF AdoptInv, Shape, Moving, Places, ReadInv, Doing, Step, Exit, Steady,
        history
<1>h. job # Missing /\ job.step = "copy" => Head(job.todo) \in Places
  BY TailRemains
<1>c. ASSUME AdoptCopied PROVE ReadInv'
  <2> DEFINE e == Head(job.todo)
  <2>1. /\ e \in Places /\ job'.step = "adopt"
        /\ root' = [root EXCEPT ![e] = beside[e]] /\ beside' = [beside EXCEPT ![e] = Missing]
        /\ sameVolume' = sameVolume
    BY <1>c, <1>h DEF AdoptCopied
  <2> HIDE DEF e
  <2>2. CASE e = "record"  BY <2>1, <2>2, StoreAssumption
  <2>3. CASE e = "digest"  BY <2>1, <2>3, StoreAssumption
  <2>4. CASE e = "tabs"  BY <2>1, <2>4
  <2> QED  BY <2>1, <2>2, <2>3, <2>4
<1>1. CASE \/ (\E kind \in Kinds, t \in Shelves, o \in BOOLEAN : Run(kind, t, o))
           \/ AdoptDone
  BY <1>1
  DEF Run, AdoptDone
<1>2. CASE AdoptOne
  <2> DEFINE e == Head(job.todo)
  <2>1. /\ job # Missing /\ e \in Places /\ job'.step \in {"adopt", "copy"}
        /\ beside[e] = Missing => root' = root
        /\ \/ root' = root /\ beside' = beside
           \/ root' = [root EXCEPT ![e] = Torn(e)] /\ beside' = beside
           \/ root' = [root EXCEPT ![e] = beside[e]] /\ beside' = [beside EXCEPT ![e] = Missing]
    BY <1>2, TailRemains DEF AdoptOne, Moves
  <2> HIDE DEF e
  <2>2. CASE e = "record"  BY <2>1, <2>2, StoreAssumption DEF Torn
  <2>3. CASE e = "digest"  BY <2>1, <2>3, StoreAssumption DEF Torn
  <2>4. CASE e = "tabs"  BY <2>1, <2>4 DEF Torn
  <2> QED  BY <2>1, <2>2, <2>3, <2>4
<1>3. CASE AdoptCopied
  BY <1>3, <1>c
  DEF AdoptCopied
<1>4. CASE AdoptFails
  BY <1>4
  DEF AdoptFails
<1>5. CASE \/ Refresh \/ StageDigest \/ SwapDigest \/ RefreshFails
  BY <1>5
  DEF Refresh, StageDigest, SwapDigest, RefreshFails, LooksValid
<1>6. CASE Load
  BY <1>6, StoreAssumption
  DEF Load
<1>7. CASE \/ Inspect \/ FetchOriginals \/ EnsureDownloaded
  BY <1>7
  DEF Inspect, FetchOriginals, EnsureDownloaded
<1>8. CASE InstallTab
  BY <1>8, <1>d
  DEF InstallTab
<1>9. CASE \/ Download \/ Clear \/ ClearFails \/ MakeDir \/ MakeFails
  BY <1>9
  DEF Download, Clear, ClearFails, MakeDir, MakeFails
<1>10. CASE \/ WriteOne \/ WriteOneFails \/ Filled
  BY <1>10
  DEF WriteOne, WriteOneFails, Filled
<1>11. CASE RecordDownload
  BY <1>11, <1>d
  DEF RecordDownload
<1>12. CASE RemoveTab
  BY <1>12
  DEF RemoveTab
<1>13. CASE Unrecord
  BY <1>13, Written, <1>v
  DEF Unrecord, Records, Removal
<1>14. CASE Cut
  BY <1>14
  DEF Cut
<1>15. CASE WindowSaves
  BY <1>15, Written
  DEF WindowSaves
<1>16. CASE UNCHANGED storeVars
  BY <1>16
  DEF storeVars
<1> QED
  BY <1>1, <1>2, <1>3, <1>4, <1>5, <1>6, <1>7, <1>8, <1>9, <1>10, <1>11, <1>12,
    <1>13, <1>14, <1>15, <1>16
  DEF StoreNext

(* Neither the cached digest nor the record is ever one that cannot be      *)
(* read, wherever a command is cut short and whatever the server sends,     *)
(* unless it is the unfinished copy of one that is still beside the binary  *)
(* (digest_ensure_fresh of src/src/digest.c, config_save of                 *)
(* src/src/config.c): if both could be read beside the binary.              *)
THEOREM WhatIsKeptIsReadable == ASSUME Plain, Readable PROVE StoreSpec => []KeptReadable
<1> DEFINE Inv == AdoptInv /\ ReadInv
<1>1. StoreInit => Inv  BY AdoptInit, ReadInit
<1>2. Inv /\ [StoreNext]_storeVars => Inv'  BY AdoptNext, ReadNext
<1>3. Inv => KeptReadable  BY DEF ReadInv
<1> QED  BY <1>1, <1>2, <1>3, PTL DEF StoreSpec

(***************************************************************************)
(* A downloaded tab is whole.                                               *)
(***************************************************************************)
(* What is to be moved whole meets what it was fetched by.                  *)
Met(t, given) == vetted[t] # Missing /\ vetted[t].files \subseteq given
Adoptable ==
  /\ beside.tabs # Missing
  /\ \/ root.tabs = Missing
     \/ job # Missing /\ job.step = "copy" /\ Head(job.todo) = "tabs"
  => \A t \in DOMAIN beside.tabs : Met(t, beside.tabs[t])

(* The digests at hand, and what a download by one of them has in hand.     *)
Promises ==
  /\ Promising(root.digest) /\ Promising(beside.digest) /\ Promising(cacheTmp)
  /\ job # Missing =>
       /\ Promising(job.dig)
       /\ job.step \in {"install", "download", "clear", "make", "fill"}
            => InDigest(job.dig, job.tab)
       /\ job.step \in {"clear", "make", "fill"} => HasFiles(job.pack, job.dig[job.tab])
       /\ job.step = "fill" => HasDir(job.tab)

WholeInv == Promises /\ Adoptable /\ DownloadsWhole

(* A command changes the directory of its own tab, and no other.            *)
OnlyItsTab ==
  /\ root'.record = root.record /\ root'.digest = root.digest
  /\ root.tabs # Missing => root'.tabs # Missing
  /\ \A u : u # job.tab =>
       /\ u \in DOMAIN Dirs' <=> u \in DOMAIN Dirs
       /\ u \in DOMAIN Dirs => Dirs'[u] = Dirs[u]

(* What a command's tab holds once its directory was written.               *)
LEMMA Fills ==
  ASSUME Plain, Shape, Shape', NEW given,
         root' = [root EXCEPT !.tabs = Shelved(job.tab, given)]
  PROVE  /\ OnlyItsTab /\ root'.tabs # Missing
         /\ job.tab \in DOMAIN Dirs' /\ Dirs'[job.tab] = given
<1>s. DOMAIN root = Places /\ DOMAIN root' = Places  BY DEF Shape
<1>1. /\ root'.tabs = Shelved(job.tab, given)
      /\ root'.record = root.record /\ root'.digest = root.digest
  BY <1>s DEF Places
<1>2. root'.tabs # Missing  BY <1>1, Written
<1>3. Dirs' = Shelved(job.tab, given)  BY <1>1, <1>2 DEF Dirs
<1>4. /\ DOMAIN Dirs' = DOMAIN Dirs \cup {job.tab}
      /\ \A u \in DOMAIN Dirs' : Dirs'[u] = IF u = job.tab THEN given ELSE Dirs[u]
  BY <1>3 DEF Shelved
<1> QED  BY <1>1, <1>2, <1>4 DEF OnlyItsTab

(* What there is once a command took its tab's directory away.              *)
LEMMA Removes ==
  ASSUME Plain, Shape, Shape', root' = [root EXCEPT !.tabs = Without(job.tab)]
  PROVE  OnlyItsTab /\ job.tab \notin DOMAIN Dirs'
<1>s. DOMAIN root = Places /\ DOMAIN root' = Places  BY DEF Shape
<1>1. /\ root'.tabs = Without(job.tab)
      /\ root'.record = root.record /\ root'.digest = root.digest
  BY <1>s DEF Places
<1>2. root'.tabs # Missing  BY <1>1, Written
<1>3. Dirs' = Without(job.tab)  BY <1>1, <1>2 DEF Dirs
<1>4. /\ DOMAIN Dirs' = DOMAIN Dirs \ {job.tab}
      /\ \A u \in DOMAIN Dirs' : Dirs'[u] = Dirs[u]
  BY <1>3 DEF Without
<1> QED  BY <1>1, <1>2, <1>4 DEF OnlyItsTab

(* The same if it took it away only where it was.                           *)
LEMMA Empties ==
  ASSUME Plain, Shape, Shape',
         root' = [root EXCEPT !.tabs = IF HasDir(job.tab) THEN Without(job.tab) ELSE @]
  PROVE  OnlyItsTab /\ job.tab \notin DOMAIN Dirs'
<1>s. DOMAIN root = Places /\ DOMAIN root' = Places  BY DEF Shape
<1>1. CASE HasDir(job.tab)  BY <1>1, Removes
<1>2. CASE ~HasDir(job.tab)
  BY <1>s, <1>2 DEF OnlyItsTab, Places, HasDir, Dirs
<1> QED  BY <1>1, <1>2

(* What is beside the binary is what it was downloaded as.                  *)
LEMMA WholeInit == ASSUME Plain, Promised, StoreInit PROVE WholeInv
<1>1. DownloadsWhole
  BY DEF StoreInit, DownloadsWhole, Dirs, NoTabs
<1>2. Promises
  BY StoreAssumption DEF StoreInit, Promises, Promised, Promising, Loads
<1>3. Adoptable
  <2> SUFFICES ASSUME beside.tabs # Missing, NEW t \in DOMAIN beside.tabs
               PROVE  Met(t, beside.tabs[t])
    BY DEF Adoptable
  <2>1. t \in Shelves  BY StoreAssumption DEF StoreInit
  <2>2. vetted[t] = [files |-> beside.tabs[t]]  BY <2>1 DEF StoreInit
  <2>3. [files |-> beside.tabs[t]] # Missing  BY DEF Plain, NotAFunction
  <2> QED  BY <2>2, <2>3 DEF Met
<1> QED  BY <1>1, <1>2, <1>3 DEF WholeInv

(* A command has the promise it goes by.                                    *)
LEMMA PromisesNext ==
  ASSUME Plain, Promised, AdoptInv, Promises, [StoreNext]_storeVars
  PROVE  Promises'
<1>s. DOMAIN root = Places /\ DOMAIN root' = Places  BY AdoptNext DEF AdoptInv, Shape
<1>h. job # Missing /\ job.step = "copy" => Head(job.todo) \in Places
  BY TailRemains DEF AdoptInv, Shape, Moving
<1>p. \A dig \in Catalogues \cup {b.digest : b \in Besides} : Promising(dig)  BY DEF Promised
<1>x. Shape /\ Shape'  BY AdoptNext DEF AdoptInv
<1>b. Promising(Broken) /\ Promising(Missing)  BY DEF Promising, Loads
<1>l. \A dig, t : InDigest(dig, t) => Loads(dig)  BY DEF InDigest
<1> USE <1>s DEF AdoptInv, Shape, Moving, Places, Promises, Doing, Step, Exit, Steady,
        history, HasDir
<1>1. CASE (\E kind \in Kinds, t \in Shelves, o \in BOOLEAN : Run(kind, t, o))
  BY <1>1, <1>b
  DEF Run
<1>2. CASE AdoptDone
  BY <1>2
  DEF AdoptDone
<1>3. CASE AdoptOne
  BY <1>3, TailRemains, <1>b
  DEF AdoptOne, Moves, Torn
<1>4. CASE \/ AdoptCopied \/ AdoptFails
  BY <1>4, <1>h, <1>b
  DEF AdoptCopied, AdoptFails
<1>5. CASE \/ Refresh \/ StageDigest \/ SwapDigest \/ RefreshFails
  BY <1>5, <1>p, <1>b
  DEF Refresh, StageDigest, SwapDigest, RefreshFails
<1>6. CASE Load
  BY <1>6, StoreAssumption
  DEF Load
<1>7. CASE \/ Inspect \/ FetchOriginals \/ EnsureDownloaded
  BY <1>7
  DEF Inspect, FetchOriginals, EnsureDownloaded
<1>8. CASE InstallTab
  BY <1>8
  DEF InstallTab
<1>9. CASE Download
  BY <1>9
  DEF Download, MeetsPromise
<1>10. CASE \/ Clear \/ ClearFails \/ MakeFails
  BY <1>10
  DEF Clear, ClearFails, MakeFails
<1>11. CASE MakeDir
  BY <1>11, Fills, <1>x
  DEF MakeDir
<1>12. CASE WriteOne
  BY <1>12, Fills, <1>x
  DEF WriteOne
<1>13. CASE \/ WriteOneFails \/ Filled
  BY <1>13
  DEF WriteOneFails, Filled
<1>14. CASE RecordDownload
  BY <1>14
  DEF RecordDownload
<1>15. CASE RemoveTab
  BY <1>15
  DEF RemoveTab
<1>16. CASE Unrecord
  BY <1>16
  DEF Unrecord
<1>17. CASE Cut
  BY <1>17
  DEF Cut
<1>18. CASE WindowSaves
  BY <1>18
  DEF WindowSaves
<1>19. CASE UNCHANGED storeVars
  BY <1>19
  DEF storeVars, Dirs
<1> QED
  BY <1>1, <1>2, <1>3, <1>4, <1>5, <1>6, <1>7, <1>8, <1>9, <1>10, <1>11, <1>12,
    <1>13, <1>14, <1>15, <1>16, <1>17, <1>18, <1>19
  DEF StoreNext

(* What may still be moved is what it was, and is looked at by no command.  *)
LEMMA AdoptableNext ==
  ASSUME Plain, AdoptInv, Promises, Adoptable, [StoreNext]_storeVars
  PROVE  Adoptable'
<1>s. DOMAIN root = Places /\ DOMAIN root' = Places  BY AdoptNext DEF AdoptInv, Shape
<1>h. job # Missing /\ job.step = "copy" => Head(job.todo) \in Places
  BY TailRemains DEF AdoptInv, Shape, Moving
<1>x. Shape /\ Shape'  BY AdoptNext DEF AdoptInv
<1>n. job # Missing /\ job.step = "fill" => root.tabs # Missing
  BY DEF Promises, HasDir, Dirs, NoTabs
<1> USE <1>s DEF AdoptInv, Shape, Moving, Places, Adoptable, Met, Doing, Step, Exit, Steady,
        history
<1>1. CASE (\E kind \in Kinds, t \in Shelves, o \in BOOLEAN : Run(kind, t, o))
  BY <1>1
  DEF Run
<1>2. CASE AdoptDone
  BY <1>2
  DEF AdoptDone
<1>3. CASE AdoptOne
  BY <1>3, TailRemains
  DEF AdoptOne, Moves
<1>4. CASE AdoptCopied
  BY <1>4, <1>h
  DEF AdoptCopied
<1>5. CASE AdoptFails
  BY <1>5, <1>h
  DEF AdoptFails
<1>6. CASE \/ Refresh \/ StageDigest \/ SwapDigest \/ RefreshFails
  BY <1>6
  DEF Refresh, StageDigest, SwapDigest, RefreshFails
<1>7. CASE Load
  BY <1>7, StoreAssumption
  DEF Load
<1>8. CASE \/ Inspect \/ FetchOriginals \/ EnsureDownloaded
  BY <1>8
  DEF Inspect, FetchOriginals, EnsureDownloaded
<1>9. CASE InstallTab
  BY <1>9
  DEF InstallTab
<1>10. CASE Download
  BY <1>10
  DEF Download
<1>11. CASE Clear
  BY <1>11, Empties, <1>x
  DEF Clear, OnlyItsTab
<1>12. CASE ClearFails
  BY <1>12, Fills, <1>x
  DEF ClearFails, OnlyItsTab
<1>13. CASE MakeFails
  BY <1>13
  DEF MakeFails
<1>14. CASE MakeDir
  BY <1>14, Fills, <1>x
  DEF MakeDir, OnlyItsTab
<1>15. CASE WriteOne
  BY <1>15, Fills, <1>x
  DEF WriteOne, OnlyItsTab
<1>16. CASE WriteOneFails
  BY <1>16, Removes, <1>x
  DEF WriteOneFails, OnlyItsTab
<1>17. CASE Filled
  BY <1>17, <1>n
  DEF Filled
<1>18. CASE RecordDownload
  BY <1>18
  DEF RecordDownload
<1>19. CASE RemoveTab
  BY <1>19, Empties, <1>x
  DEF RemoveTab, OnlyItsTab
<1>20. CASE Unrecord
  BY <1>20
  DEF Unrecord
<1>21. CASE Cut
  BY <1>21, Fills, <1>x
  DEF Cut, OnlyItsTab
<1>22. CASE WindowSaves
  BY <1>22
  DEF WindowSaves
<1>23. CASE UNCHANGED storeVars
  BY <1>23
  DEF storeVars
<1> QED
  BY <1>1, <1>2, <1>3, <1>4, <1>5, <1>6, <1>7, <1>8, <1>9, <1>10, <1>11, <1>12,
    <1>13, <1>14, <1>15, <1>16, <1>17, <1>18, <1>19, <1>20, <1>21, <1>22, <1>23
  DEF StoreNext

(* A directory counts as a download once all of it is there.                *)
LEMMA WholeNext ==
  ASSUME Plain, AdoptInv, Promises, Promises', Adoptable, DownloadsWhole,
         [StoreNext]_storeVars
  PROVE  DownloadsWhole'
<1>x. Shape /\ Shape'  BY AdoptNext DEF AdoptInv
<1>m. Moving  BY DEF AdoptInv
<1>h. job # Missing /\ job.step = "copy" => Head(job.todo) \in Places
  BY TailRemains DEF AdoptInv, Shape, Moving
<1>d. DOMAIN NoTabs = {}  BY DEF NoTabs
<1>n. job # Missing /\ job.step \in {"clear", "make", "fill"} => job.dig[job.tab] # Missing
  BY DEF Promises, InDigest, Promising
<1> USE DEF DownloadsWhole, Doing, Step, Exit, Steady, history
<1>j. [job EXCEPT !.step = "fill"] # Missing  BY DEF Plain, NotAFunction
<1>s. ASSUME UNCHANGED <<root, vetted>>, unfinished \subseteq unfinished',
             ~(job # Missing /\ job.step = "fill")
      PROVE  DownloadsWhole'
  BY <1>s DEF Dirs
<1>1. CASE \/ (\E kind \in Kinds, t \in Shelves, o \in BOOLEAN : Run(kind, t, o))
           \/ AdoptDone \/ AdoptFails \/ Refresh \/ StageDigest \/ RefreshFails
           \/ Inspect \/ FetchOriginals \/ EnsureDownloaded \/ Download \/ MakeFails
  BY <1>1, <1>s
  DEF Run, AdoptDone, AdoptFails, Refresh, StageDigest, RefreshFails,
      Inspect, FetchOriginals, EnsureDownloaded, Download, MakeFails
<1>2. CASE Load
  BY <1>2, <1>s
  DEF Load
<1>a. ASSUME AdoptOne PROVE DownloadsWhole'
  BY <1>a, <1>x, <1>d, TailRemains
  DEF AdoptOne, Shape, Places, Moves, Torn, Adoptable, Met, Dirs, StillBeside
<1>c. ASSUME AdoptCopied PROVE DownloadsWhole'
  BY <1>c, <1>x, <1>d, <1>h, <1>m
  DEF AdoptCopied, Shape, Places, Adoptable, Met, Dirs, StillBeside, Moving
<1>3. CASE AdoptOne
  BY <1>3, <1>a
  DEF AdoptOne
<1>4. CASE AdoptCopied
  BY <1>4, <1>c
  DEF AdoptCopied
<1>5. CASE \/ SwapDigest \/ InstallTab \/ RecordDownload \/ Unrecord \/ WindowSaves
  BY <1>5, <1>x
  DEF SwapDigest, InstallTab, RecordDownload, Unrecord, WindowSaves,
      Shape, Places, Dirs
<1>6. CASE Clear
  BY <1>6, Empties, <1>x
  DEF Clear, OnlyItsTab
<1>7. CASE ClearFails
  BY <1>7, Fills, <1>x
  DEF ClearFails, OnlyItsTab
<1>8. CASE MakeDir
  BY <1>8, Fills, <1>x, <1>j
  DEF MakeDir, OnlyItsTab, Shape
<1>9. CASE WriteOne
  BY <1>9, Fills, <1>x
  DEF WriteOne, OnlyItsTab
<1>10. CASE WriteOneFails
  BY <1>10, Removes, <1>x
  DEF WriteOneFails, OnlyItsTab, Dirs
<1>11. CASE Filled
  BY <1>11, <1>n, <1>x
  DEF Filled, Promises, HasFiles, Dirs, Shape
<1>12. CASE RemoveTab
  BY <1>12, Empties, <1>x
  DEF RemoveTab, OnlyItsTab
<1>13. CASE Cut
  BY <1>13, Fills, <1>x
  DEF Cut, OnlyItsTab, Dirs
<1>14. CASE UNCHANGED storeVars
  BY <1>14
  DEF storeVars, Dirs
<1> QED
  BY <1>1, <1>2, <1>3, <1>4, <1>5, <1>6, <1>7, <1>8, <1>9, <1>10, <1>11, <1>12,
    <1>13, <1>14
  DEF StoreNext

(* What downloads are, at every step.                                       *)
LEMMA WholeInvNext ==
  ASSUME Plain, Promised, AdoptInv, WholeInv, [StoreNext]_storeVars
  PROVE  WholeInv'
BY PromisesNext, AdoptableNext, WholeNext DEF WholeInv

(* A downloaded tab that no failure and no cut left unfinished has every    *)
(* file that the digest it was fetched by promised (tab_fetch of            *)
(* src/src/tabs.c): for any tabs and packs, whatever the server serves      *)
(* later and whichever fetches of it failed since.                          *)
THEOREM WhatIsDownloadedIsWhole ==
  ASSUME Plain, Promised PROVE StoreSpec => []DownloadsWhole
<1> DEFINE Inv == AdoptInv /\ WholeInv
<1>1. StoreInit => Inv  BY AdoptInit, WholeInit
<1>2. Inv /\ [StoreNext]_storeVars => Inv'  BY AdoptNext, WholeInvNext
<1>3. Inv => DownloadsWhole  BY DEF WholeInv
<1> QED  BY <1>1, <1>2, <1>3, PTL DEF StoreSpec

(***************************************************************************)
(* The record claims what there is.                                         *)
(***************************************************************************)
(* A record is moved before the tabs it speaks of, and both before anything *)
(* else is done.                                                            *)
Copying(e) == job # Missing /\ job.step = "copy" /\ Head(job.todo) = e
InOrder ==
  job # Missing =>
    /\ job.todo = Entries \/ beside.record = Missing \/ root.record # Missing
    /\ job.todo = <<>> => beside.tabs = Missing \/ root.tabs # Missing

(* A record that is still to be moved speaks of the tabs that are; once it  *)
(* has been, what is in place speaks of them.                               *)
OldRecord ==
  beside.record # Missing /\ (root.record = Missing \/ Copying("record"))
  => /\ root.tabs = Missing
     /\ \A t \in Shelves : Claimed(beside.record, t) <=> t \in StillBeside
OldTabs ==
  /\ beside.tabs # Missing /\ (root.tabs = Missing \/ Copying("tabs"))
  /\ root.record # Broken /\ (beside.record = Missing \/ root.record # Missing)
  => \A t \in StillBeside \ doubt : Claimed(Known, t)

(* Where a command is between its change of a directory and its record.     *)
Between ==
  job # Missing =>
    /\ job.step \in {"make", "fill"} => job.tab \in doubt
    /\ job.step \in {"fill", "record", "detect"} => HasDir(job.tab)
    /\ job.step = "unrecord" => ~HasDir(job.tab)

(* RecordHonest, and while a command runs too.                              *)
Claims ==
  root.record # Broken =>
    \A t \in Shelves \ (doubt \cup StillBeside) : Claimed(Known, t) <=> HasDir(t)

ClaimInv == InOrder /\ OldRecord /\ OldTabs /\ Between /\ Claims

(* What the record claims once an entry of it has changed.                  *)
LEMMA ClaimedAre ==
  ASSUME NEW rec, NEW t, NEW u, NEW listed
  PROVE  /\ Claimed(Downloaded(rec, t), u) <=> u = t \/ Claimed(rec, u)
         /\ t \in DOMAIN Removed(rec, t, listed) =>
              (Claimed(Removed(rec, t, listed), u) <=> u # t /\ Claimed(rec, u))
         /\ ~Claimed(Blank, u)
<1>1. Claimed(Downloaded(rec, t), u) <=> u = t \/ Claimed(rec, u)
  BY DEF Claimed, Downloaded
<1>2. t \in DOMAIN Removed(rec, t, listed) =>
        (Claimed(Removed(rec, t, listed), u) <=> u # t /\ Claimed(rec, u))
  BY DEF Claimed, Removed
<1>3. ~Claimed(Blank, u)  BY DEF Claimed, Blank
<1> QED  BY <1>1, <1>2, <1>3

(* What is beside the binary is what its record says.                       *)
LEMMA ClaimInit == ASSUME Plain, Consistent, StoreInit PROVE ClaimInv
<1>0. /\ root.record = Missing /\ root.tabs = Missing /\ beside \in Besides /\ job = Missing
      /\ doubt = {} /\ StillBeside \subseteq Shelves
  BY StoreAssumption DEF StoreInit, StillBeside
<1>1. \A t \in Shelves : Claimed(KnownOf(beside.record), t) <=> t \in StillBeside
  BY <1>0 DEF Consistent, StillBeside
<1>2. \A t : ~Claimed(Blank, t)  BY ClaimedAre
<1>3. InOrder /\ Between  BY <1>0 DEF InOrder, Between
<1>4. OldRecord  BY <1>0, <1>1 DEF OldRecord, Copying, KnownOf
<1>5. OldTabs  BY <1>0, <1>1, <1>2 DEF OldTabs, Copying, KnownOf
<1>6. Claims  BY <1>0, <1>2 DEF Claims, Known, HasDir, Dirs, NoTabs
<1> QED  BY <1>3, <1>4, <1>5, <1>6 DEF ClaimInv

(* Both are moved before anything else is done.                             *)
LEMMA InOrderNext ==
  ASSUME Plain, AdoptInv, InOrder, [StoreNext]_storeVars
  PROVE  InOrder'
<1>x. Shape /\ Shape' /\ Moving  BY AdoptNext DEF AdoptInv
<1>e. Tail(Entries) # Entries /\ Entries # <<>> BY DEF Entries
<1>h. job # Missing /\ job.step = "copy" => Head(job.todo) \in Places
  BY TailRemains DEF AdoptInv, Shape, Moving
<1>d. Downloaded(Known, job.tab) # Missing  BY Written
<1>v. root.record # Broken => Known \notin {Missing, Broken}  BY Written DEF Known
<1>l. /\ Tail(<<"record", "digest", "tabs">>) # <<>> /\ Tail(<<"digest", "tabs">>) # <<>>
      /\ <<"digest", "tabs">> # <<>> /\ <<"digest", "tabs">> # Entries
      /\ \A todo \in Remaining : todo # <<>> /\ Tail(todo) = <<>> => Head(todo) = "tabs"
      /\ Head(Entries) = "record"
  BY DEF Remaining, Entries
<1>b. [u \in StillBeside |-> {}] # Missing  BY DEF Plain, NotAFunction
<1> USE <1>x, StoreAssumption DEF Shape, Moving, Places, InOrder, Doing, Step, Exit, Steady, history
<1>1. CASE (\E kind \in Kinds, t \in Shelves, o \in BOOLEAN : Run(kind, t, o))
  BY <1>1
  DEF Run, Entries
<1>2. CASE AdoptDone
  BY <1>2
  DEF AdoptDone
<1>3. CASE AdoptOne
  <2> DEFINE e == Head(job.todo)
  <2>1. /\ job # Missing /\ job.todo # <<>> /\ job.todo \in Remaining /\ e \in Places
        /\ e = "record" => job.todo = Entries
        /\ e = "digest" => job.todo = <<"digest", "tabs">>
        /\ e = "tabs" => job.todo # Entries
        /\ e = "tabs" => Tail(job.todo) = <<>>
        /\ Tail(job.todo) = <<>> => e = "tabs"
    BY <1>3, TailRemains, <1>l DEF AdoptOne
  <2>2. \/ /\ beside[e] # Missing /\ root[e] = Missing
           /\ job' = [job EXCEPT !.step = "copy"] /\ root' = [root EXCEPT ![e] = Torn(e)]
           /\ beside' = beside
        \/ /\ beside[e] # Missing /\ root[e] = Missing /\ job' = [job EXCEPT !.todo = Tail(@)]
           /\ root' = [root EXCEPT ![e] = beside[e]] /\ beside' = [beside EXCEPT ![e] = Missing]
        \/ /\ ~(beside[e] # Missing /\ root[e] = Missing)
           /\ job' = [job EXCEPT !.todo = Tail(@)] /\ root' = root /\ beside' = beside
    BY <1>3 DEF AdoptOne, Moves
  <2> HIDE DEF e
  <2>3. CASE e = "record"  BY <2>1, <2>2, <2>3, <1>e DEF Torn
  <2>4. CASE e = "digest"  BY <2>1, <2>2, <2>4, <1>e, <1>l DEF Torn
  <2>5. CASE e = "tabs"  BY <2>1, <2>2, <2>5, <1>e, <1>b DEF Torn
  <2> QED  BY <2>1, <2>3, <2>4, <2>5
<1>4. CASE AdoptCopied
  <2> DEFINE e == Head(job.todo)
  <2>1. /\ job # Missing /\ job.todo # <<>> /\ job.todo \in Remaining /\ e \in Places
        /\ e = "record" => job.todo = Entries
        /\ e = "digest" => job.todo = <<"digest", "tabs">>
        /\ e = "tabs" => job.todo # Entries
        /\ Tail(job.todo) = <<>> => e = "tabs"
    BY <1>4, TailRemains, <1>l DEF AdoptCopied
  <2>2. /\ job' = [job EXCEPT !.step = "adopt", !.todo = Tail(@)]
        /\ root' = [root EXCEPT ![e] = beside[e]] /\ beside' = [beside EXCEPT ![e] = Missing]
    BY <1>4 DEF AdoptCopied
  <2> HIDE DEF e
  <2>3. CASE e = "record"  BY <2>1, <2>2, <2>3, <1>e
  <2>4. CASE e = "digest"  BY <2>1, <2>2, <2>4, <1>e, <1>l
  <2>5. CASE e = "tabs"  BY <2>1, <2>2, <2>5, <1>e
  <2> QED  BY <2>1, <2>3, <2>4, <2>5
<1>5. CASE AdoptFails
  <2> DEFINE e == Head(job.todo)
  <2>1. /\ job # Missing /\ job.todo # <<>> /\ job.todo \in Remaining /\ e \in Places
        /\ root[e] = Torn(e)
        /\ e = "record" => job.todo = Entries
        /\ e = "digest" => job.todo = <<"digest", "tabs">>
        /\ e = "tabs" => job.todo # Entries
        /\ Tail(job.todo) = <<>> => e = "tabs"
    BY <1>5, TailRemains, <1>l DEF AdoptFails
  <2>2. /\ job' = [job EXCEPT !.step = "adopt", !.todo = Tail(@)] /\ UNCHANGED <<root, beside>>
    BY <1>5 DEF AdoptFails
  <2> HIDE DEF e
  <2>3. CASE e = "record"  BY <2>1, <2>2, <2>3, <1>e DEF Torn
  <2>4. CASE e = "digest"  BY <2>1, <2>2, <2>4, <1>e, <1>l
  <2>5. CASE e = "tabs"  BY <2>1, <2>2, <2>5, <1>e, <1>b DEF Torn
  <2> QED  BY <2>1, <2>3, <2>4, <2>5
<1>6. CASE \/ Refresh \/ StageDigest \/ SwapDigest \/ RefreshFails
  BY <1>6
  DEF Refresh, StageDigest, SwapDigest, RefreshFails
<1>7. CASE Load
  BY <1>7
  DEF Load
<1>8. CASE \/ Inspect \/ FetchOriginals \/ EnsureDownloaded
  BY <1>8
  DEF Inspect, FetchOriginals, EnsureDownloaded
<1>9. CASE InstallTab
  BY <1>9, <1>d
  DEF InstallTab
<1>10. CASE \/ Download \/ MakeFails \/ Filled
  BY <1>10
  DEF Download, MakeFails, Filled
<1>11. CASE Clear
  BY <1>11, Empties
  DEF Clear, OnlyItsTab
<1>12. CASE ClearFails
  BY <1>12
  DEF ClearFails
<1>13. CASE MakeDir
  BY <1>13, Fills
  DEF MakeDir, OnlyItsTab
<1>14. CASE WriteOne
  BY <1>14, Fills
  DEF WriteOne, OnlyItsTab
<1>15. CASE WriteOneFails
  BY <1>15
  DEF WriteOneFails
<1>16. CASE RecordDownload
  BY <1>16, <1>d
  DEF RecordDownload
<1>17. CASE RemoveTab
  BY <1>17, Empties
  DEF RemoveTab, OnlyItsTab
<1>18. CASE Unrecord
  BY <1>18, Written, <1>v
  DEF Unrecord, Records, Removal
<1>19. CASE Cut
  BY <1>19
  DEF Cut
<1>20. CASE WindowSaves
  BY <1>20, Written
  DEF WindowSaves
<1>21. CASE UNCHANGED storeVars
  BY <1>21
  DEF storeVars
<1> QED
  BY <1>1, <1>2, <1>3, <1>4, <1>5, <1>6, <1>7, <1>8, <1>9, <1>10, <1>11, <1>12,
    <1>13, <1>14, <1>15, <1>16, <1>17, <1>18, <1>19, <1>20, <1>21
  DEF StoreNext

(* A step of a command and its tab's directory.                             *)
LEMMA BetweenNext ==
  ASSUME Plain, AdoptInv, Between, [StoreNext]_storeVars
  PROVE  Between'
<1>x. Shape /\ Shape' /\ Moving  BY AdoptNext DEF AdoptInv
<1> USE <1>x DEF Between, Doing, Step, Exit, Steady, history, HasDir
<1>0. CASE (\E kind \in Kinds, t \in Shelves, o \in BOOLEAN : Run(kind, t, o))
  BY <1>0 DEF Run
<1>1. CASE \/ AdoptDone \/ AdoptFails
  <2>1. job' = Missing \/ job'.step \in {"refresh", "load", "adopt"}
    BY <1>1 DEF AdoptDone, AdoptFails, Shape
  <2> QED  BY <2>1
<1>2. CASE AdoptOne
  BY <1>2
  DEF AdoptOne, Shape
<1>3. CASE AdoptCopied
  BY <1>3
  DEF AdoptCopied, Shape
<1>4. CASE \/ Refresh \/ StageDigest \/ SwapDigest \/ RefreshFails
  BY <1>4
  DEF Refresh, StageDigest, SwapDigest, RefreshFails, Shape
<1>5. CASE Load
  BY <1>5, StoreAssumption
  DEF Load, Shape, Dirs
<1>6. CASE \/ Inspect \/ FetchOriginals \/ EnsureDownloaded
  BY <1>6
  DEF Inspect, FetchOriginals, EnsureDownloaded, Shape, Dirs
<1>7. CASE InstallTab
  BY <1>7
  DEF InstallTab
<1>8. CASE \/ Download \/ MakeFails \/ Filled
  BY <1>8
  DEF Download, MakeFails, Filled, Shape, Dirs
<1>9. CASE Clear
  BY <1>9, Empties
  DEF Clear, OnlyItsTab, Shape
<1>10. CASE ClearFails
  BY <1>10
  DEF ClearFails
<1>11. CASE MakeDir
  BY <1>11, Fills
  DEF MakeDir, OnlyItsTab, Shape
<1>12. CASE WriteOne
  BY <1>12, Fills
  DEF WriteOne, OnlyItsTab
<1>13. CASE WriteOneFails
  BY <1>13
  DEF WriteOneFails
<1>14. CASE RecordDownload
  BY <1>14
  DEF RecordDownload, Shape, Dirs, Places
<1>15. CASE RemoveTab
  BY <1>15, Empties
  DEF RemoveTab, OnlyItsTab, Shape
<1>16. CASE Unrecord
  BY <1>16
  DEF Unrecord
<1>17. CASE Cut
  BY <1>17
  DEF Cut
<1>18. CASE WindowSaves
  BY <1>18
  DEF WindowSaves
<1>19. CASE UNCHANGED storeVars
  BY <1>19
  DEF storeVars, Dirs
<1> QED
  BY <1>0, <1>1, <1>2, <1>3, <1>4, <1>5, <1>6, <1>7, <1>8, <1>9, <1>10, <1>11, <1>12,
    <1>13, <1>14, <1>15, <1>16, <1>17, <1>18, <1>19
  DEF StoreNext

(* Once everything has been moved, a step takes nothing from the old place,  *)
(* and what it writes is there.                                             *)
LEMMA LaterSteps ==
  ASSUME Plain, AdoptInv, [StoreNext]_storeVars, job # Missing,
         job.step \notin {"adopt", "copy"}
  PROVE  /\ beside' = beside
         /\ root.record # Missing => root'.record # Missing
         /\ root.tabs # Missing => root'.tabs # Missing
         /\ ~Copying("record")' /\ ~Copying("tabs")'
<1>x. Shape /\ Shape'  BY AdoptNext DEF AdoptInv
<1>d. Downloaded(Known, job.tab) # Missing  BY Written
<1>v. root.record # Broken => Known \notin {Missing, Broken}  BY Written DEF Known
<1>0. CASE \/ AdoptDone \/ AdoptOne \/ AdoptCopied \/ AdoptFails \/ WindowSaves
           \/ (\E kind \in Kinds, t \in Shelves, o \in BOOLEAN : Run(kind, t, o))
  BY <1>0 DEF AdoptDone, AdoptOne, AdoptCopied, AdoptFails, WindowSaves, Run, Doing
<1> USE <1>x DEF Shape, Places, Doing, Step, Exit, history, Copying
<1>1. CASE \/ Refresh \/ StageDigest \/ SwapDigest \/ RefreshFails
  BY <1>1
  DEF Refresh, StageDigest, SwapDigest, RefreshFails
<1>2. CASE Load
  BY <1>2, StoreAssumption
  DEF Load
<1>3. CASE \/ Inspect \/ FetchOriginals \/ EnsureDownloaded
  BY <1>3
  DEF Inspect, FetchOriginals, EnsureDownloaded
<1>4. CASE InstallTab
  BY <1>4, <1>d
  DEF InstallTab
<1>5. CASE \/ Download \/ MakeFails \/ Filled
  BY <1>5
  DEF Download, MakeFails, Filled
<1>6. CASE Clear
  BY <1>6, Empties
  DEF Clear, OnlyItsTab
<1>7. CASE ClearFails
  BY <1>7, Fills
  DEF ClearFails, OnlyItsTab
<1>8. CASE MakeDir
  BY <1>8, Fills
  DEF MakeDir, OnlyItsTab
<1>9. CASE WriteOne
  BY <1>9, Fills
  DEF WriteOne, OnlyItsTab
<1>10. CASE WriteOneFails
  BY <1>10, Removes
  DEF WriteOneFails, OnlyItsTab
<1>11. CASE RecordDownload
  BY <1>11, <1>d
  DEF RecordDownload
<1>12. CASE RemoveTab
  BY <1>12, Empties
  DEF RemoveTab, OnlyItsTab
<1>13. CASE Unrecord
  BY <1>13, Written, <1>v
  DEF Unrecord, Records, Removal
<1>14. CASE Cut
  BY <1>14, Fills
  DEF Cut, OnlyItsTab
<1>15. CASE UNCHANGED storeVars
  BY <1>15
  DEF storeVars
<1> QED
  BY <1>0, <1>1, <1>2, <1>3, <1>4, <1>5, <1>6, <1>7, <1>8, <1>9, <1>10, <1>11, <1>12,
    <1>13, <1>14, <1>15
  DEF StoreNext

(* A command that changes a directory has the record doubted until it says  *)
(* the same.                                                                *)
LEMMA ClaimsLater ==
  ASSUME Plain, AdoptInv, Between, Claims, [StoreNext]_storeVars, job # Missing,
         job.step \notin {"adopt", "copy"}
  PROVE  Claims'
<1>x. Shape /\ Shape'  BY AdoptNext DEF AdoptInv
<1>b. beside' = beside /\ StillBeside' = StillBeside  BY LaterSteps DEF StillBeside
<1>d. Downloaded(Known, job.tab) # Missing  BY Written
<1>v. root.record # Broken => Known \notin {Missing, Broken}  BY Written DEF Known
<1>k. ASSUME root'.record = root.record, \A u \in Shelves : HasDir(u)' <=> HasDir(u),
             doubt \subseteq doubt'
      PROVE  Claims'
  BY <1>b, <1>k DEF Claims, Known
<1>o. ASSUME OnlyItsTab, job.tab \in doubt', doubt \subseteq doubt' PROVE Claims'
  BY <1>b, <1>o DEF Claims, OnlyItsTab, Known, HasDir
<1>t. ASSUME root.record # Broken, doubt' = doubt \ {job.tab}, HasDir(job.tab),
             root' = [root EXCEPT !.record = Downloaded(Known, job.tab)]
      PROVE  Claims'
  <2>1. Known' = Downloaded(Known, job.tab) /\ Dirs' = Dirs
    BY <1>t, <1>x, <1>d DEF Shape, Places, Known, Dirs
  <2>2. \A u : Claimed(Known, u)' <=> u = job.tab \/ Claimed(Known, u)
    <3> TAKE u
    <3>1. Claimed(Known, u)' <=> Claimed(Downloaded(Known, job.tab), u)
      BY <2>1 DEF Claimed
    <3> QED  BY <3>1, ClaimedAre
  <2> QED  BY <2>1, <2>2, <1>b, <1>t DEF Claims, HasDir
<1>u. ASSUME Records, doubt' = doubt \ {job.tab}, ~HasDir(job.tab),
             root' = [root EXCEPT !.record = Removal]
      PROVE  Claims'
  <2>1. Removal \notin {Missing, Broken}  BY <1>u, <1>v, Written DEF Records, Removal
  <2>2. Known' = Removal /\ Dirs' = Dirs
    BY <1>u, <1>x, <2>1 DEF Shape, Places, Known, Dirs
  <2>3. \A u : Claimed(Known, u)' <=> u # job.tab /\ Claimed(Known, u)
    <3> TAKE u
    <3>1. Claimed(Known, u)' <=> Claimed(Removal, u)
      BY <2>2 DEF Claimed
    <3>2. job.tab \in DOMAIN Removal  BY <1>u DEF Records
    <3> QED  BY <3>1, <3>2, ClaimedAre DEF Removal
  <2> QED  BY <2>2, <2>3, <1>b, <1>u DEF Claims, HasDir, Records
<1>0. CASE \/ AdoptDone \/ AdoptOne \/ AdoptCopied \/ AdoptFails \/ WindowSaves
           \/ (\E kind \in Kinds, t \in Shelves, o \in BOOLEAN : Run(kind, t, o))
  BY <1>0 DEF AdoptDone, AdoptOne, AdoptCopied, AdoptFails, WindowSaves, Run, Doing
<1> USE DEF Doing, history
<1>1. CASE \/ Refresh \/ StageDigest \/ RefreshFails \/ Load \/ Inspect
           \/ FetchOriginals \/ EnsureDownloaded \/ Download \/ MakeFails \/ Filled
  BY <1>1, <1>k
  DEF Refresh, StageDigest, RefreshFails, Load, Inspect, FetchOriginals,
      EnsureDownloaded, Download, MakeFails, Filled, HasDir, Dirs
<1>2. CASE SwapDigest
  BY <1>2, <1>k, <1>x
  DEF SwapDigest, HasDir, Dirs, Shape, Places
<1>3. CASE InstallTab
  BY <1>3, <1>k, <1>t
  DEF InstallTab, Between, HasDir, Dirs
<1>4. CASE Clear
  BY <1>4, Empties, <1>o, <1>x
  DEF Clear
<1>5. CASE ClearFails
  BY <1>5, Fills, <1>k, <1>x
  DEF ClearFails, OnlyItsTab, HasDir
<1>6. CASE MakeDir
  BY <1>6, Fills, <1>o, <1>x
  DEF MakeDir, Between
<1>7. CASE WriteOne
  BY <1>7, Fills, <1>o, <1>x
  DEF WriteOne, Between
<1>8. CASE WriteOneFails
  BY <1>8, Removes, <1>o, <1>k, <1>x
  DEF WriteOneFails, Between, HasDir, Dirs
<1>9. CASE RecordDownload
  BY <1>9, <1>k, <1>t
  DEF RecordDownload, Between, HasDir, Dirs
<1>10. CASE RemoveTab
  BY <1>10, Empties, <1>o, <1>k, <1>x
  DEF RemoveTab, OnlyItsTab, HasDir
<1>11. CASE Unrecord
  BY <1>11, <1>k, <1>u
  DEF Unrecord, Between, HasDir, Dirs, Records
<1>12. CASE Cut
  BY <1>12, Fills, <1>k, <1>x
  DEF Cut, OnlyItsTab, HasDir, Dirs
<1>13. CASE UNCHANGED storeVars
  BY <1>13, <1>k
  DEF storeVars, storeVars, HasDir, Dirs
<1> QED
  BY <1>0, <1>1, <1>2, <1>3, <1>4, <1>5, <1>6, <1>7, <1>8, <1>9, <1>10, <1>11, <1>12,
    <1>13
  DEF StoreNext

(* What the old place holds, and what of it has been moved, while it is.     *)
LEMMA EarlySteps ==
  ASSUME Plain, AdoptInv, ClaimInv, [StoreNext]_storeVars,
         job = Missing \/ job.step \in {"adopt", "copy"}
  PROVE  (OldRecord /\ OldTabs /\ Claims)'
<1>x. Shape /\ Shape' /\ Moving  BY AdoptNext DEF AdoptInv
<1>s. DOMAIN root = Places /\ DOMAIN root' = Places /\ DOMAIN beside = Places
  BY <1>x DEF Shape
<1>z. \A t : ~Claimed(Blank, t)  BY ClaimedAre
<1>e. DOMAIN NoTabs = {}  BY DEF NoTabs
<1>q. ASSUME UNCHANGED <<root, beside>>, doubt \subseteq doubt',
             job' = Missing \/ job'.step # "copy"
      PROVE  (OldRecord /\ OldTabs /\ Claims)'
  BY <1>q DEF ClaimInv, OldRecord, OldTabs, Claims, Copying, Known, HasDir, Dirs, StillBeside
<1>0. CASE (\E kind \in Kinds, t \in Shelves, o \in BOOLEAN : Run(kind, t, o))
  <2>1. UNCHANGED <<root, beside>> /\ doubt' = doubt /\ job'.step = "adopt"
    BY <1>0 DEF Run, history
  <2> QED  BY <2>1, <1>q
<1>1. CASE AdoptDone
  <2>1. job' = Missing \/ job'.step \in {"refresh", "load"}
    BY <1>1, <1>x DEF AdoptDone, Shape, Exit, Step
  <2>2. UNCHANGED <<root, beside>> /\ doubt' = doubt  BY <1>1 DEF AdoptDone, history
  <2> QED  BY <2>1, <2>2, <1>q
<1>2. CASE AdoptOne
  <2> DEFINE e == Head(job.todo)
  <2>1. /\ job # Missing /\ job.todo # <<>> /\ e \in Places /\ job.step = "adopt"
        /\ DOMAIN job = {"kind", "tab", "step", "todo", "dig", "pack", "offline"}
        /\ e # "record" => job.todo # Entries
        /\ doubt' = doubt
    BY <1>2, <1>x, TailRemains DEF AdoptOne, Doing, Shape, Entries
  <2>c. ~Copying("record") /\ ~Copying("tabs")  BY <2>1 DEF Copying
  <2>2. CASE /\ beside[e] # Missing /\ root[e] = Missing
             /\ job' = [job EXCEPT !.step = "copy"] /\ root' = [root EXCEPT ![e] = Torn(e)]
             /\ beside' = beside
    <3>1. job'.todo = job.todo  BY <2>1, <2>2
    <3> HIDE DEF e
    <3>2. CASE e = "record"
      BY <2>1, <2>2, <3>1, <3>2, <1>s, <2>c
      DEF Places, Torn, ClaimInv, OldRecord, OldTabs, Claims, StillBeside
    <3>3. CASE e = "digest"
      BY <2>1, <2>2, <3>1, <3>3, <1>s, <2>c
      DEF Places, ClaimInv, OldRecord, OldTabs, Claims, Copying, Known, HasDir, Dirs,
          StillBeside, e
    <3>4. CASE e = "tabs"
      <4>1. /\ root'.record = root.record /\ DOMAIN root'.tabs = StillBeside
            /\ beside.record = Missing \/ root.record # Missing
        BY <2>1, <2>2, <3>4, <1>s DEF Places, Torn, ClaimInv, InOrder
      <4>2. OldRecord'
        BY <2>2, <3>1, <3>4, <4>1 DEF OldRecord, Copying, e
      <4>3. OldTabs'
        BY <2>1, <2>2, <3>4, <4>1 DEF OldTabs, ClaimInv, Known, StillBeside
      <4>4. \A t \in Shelves \ StillBeside : ~HasDir(t) /\ ~HasDir(t)'
        BY <2>2, <3>4, <4>1, <1>e DEF HasDir, Dirs
      <4>5. Claims'
        BY <2>1, <2>2, <4>1, <4>4 DEF Claims, ClaimInv, Known, StillBeside
      <4> QED  BY <4>2, <4>3, <4>5
    <3> QED  BY <2>1, <3>2, <3>3, <3>4 DEF Places
  <2>3. CASE /\ beside[e] # Missing /\ root[e] = Missing /\ job' = [job EXCEPT !.todo = Tail(@)]
             /\ root' = [root EXCEPT ![e] = beside[e]]
             /\ beside' = [beside EXCEPT ![e] = Missing]
    <3>1. job'.step = "adopt"  BY <2>1, <2>3
    <3>c. ~Copying("record")' /\ ~Copying("tabs")'  BY <3>1 DEF Copying
    <3> HIDE DEF e
    <3>2. CASE e = "record"
      <4>1. /\ root'.record = beside.record /\ root'.tabs = root.tabs
            /\ beside'.record = Missing /\ beside'.tabs = beside.tabs
            /\ root.tabs = Missing
            /\ \A t \in Shelves : Claimed(beside.record, t) <=> t \in StillBeside
            /\ beside.record # Missing
        BY <2>1, <2>3, <3>2, <1>s DEF Places, ClaimInv, OldRecord
      <4>2. Known' = beside.record /\ StillBeside' = StillBeside  BY <4>1 DEF Known, StillBeside
      <4>3. OldRecord'  BY <4>1 DEF OldRecord
      <4>4. StillBeside \subseteq Shelves  BY <1>x DEF StillBeside, Shape
      <4>5. OldTabs'  BY <4>1, <4>2, <4>4 DEF OldTabs, Claimed
      <4>6. \A t : ~HasDir(t)'  BY <4>1, <1>e DEF HasDir, Dirs
      <4>7. Claims'  BY <4>1, <4>2, <4>6 DEF Claims, Claimed
      <4> QED  BY <4>3, <4>5, <4>7
    <3>3. CASE e = "digest"
      BY <2>1, <2>3, <3>c, <3>3, <1>s, <2>c
      DEF Places, ClaimInv, OldRecord, OldTabs, Claims, Known, HasDir, Dirs, StillBeside
    <3>4. CASE e = "tabs"
      <4>1. /\ root'.tabs = beside.tabs /\ root'.record = root.record
            /\ beside'.tabs = Missing /\ beside'.record = beside.record
            /\ root.tabs = Missing /\ beside.tabs # Missing
            /\ beside.record = Missing \/ root.record # Missing
        BY <2>1, <2>3, <3>4, <1>s DEF Places, ClaimInv, InOrder
      <4>2. Known' = Known /\ StillBeside' = {}  BY <4>1 DEF Known, StillBeside
      <4>3. OldRecord'  BY <4>1, <3>c DEF OldRecord
      <4>4. OldTabs'  BY <4>1 DEF OldTabs
      <4>5. \A t : (HasDir(t)' <=> t \in StillBeside) /\ ~HasDir(t)
        BY <4>1, <1>e DEF HasDir, Dirs, StillBeside
      <4>6. Claims'
        BY <2>1, <4>1, <4>2, <4>5 DEF Claims, ClaimInv, OldTabs, Claimed
      <4> QED  BY <4>3, <4>4, <4>6
    <3> QED  BY <2>1, <3>2, <3>3, <3>4 DEF Places
  <2>4. CASE job' = [job EXCEPT !.todo = Tail(@)] /\ root' = root /\ beside' = beside
    <3>1. job'.step = "adopt"  BY <2>1, <2>4
    <3> QED  BY <2>1, <2>4, <3>1, <1>q
  <2> QED  BY <1>2, <2>2, <2>3, <2>4 DEF AdoptOne, Moves, Step
<1>3. CASE AdoptCopied
  <2> DEFINE e == Head(job.todo)
  <2>1. /\ job # Missing /\ job.todo # <<>> /\ e \in Places /\ job.step = "copy"
        /\ e # "record" => job.todo # Entries
        /\ root[e] = Torn(e) /\ beside[e] # Missing /\ doubt' = doubt
        /\ root' = [root EXCEPT ![e] = beside[e]] /\ beside' = [beside EXCEPT ![e] = Missing]
        /\ job'.step = "adopt"
    BY <1>3, <1>x, TailRemains DEF AdoptCopied, Doing, Shape, Entries, Moving
  <2>c. ~Copying("record")' /\ ~Copying("tabs")' /\ Copying(e)  BY <2>1 DEF Copying
  <2> HIDE DEF e
  <2>2. CASE e = "record"
    <3>1. /\ root'.record = beside.record /\ root'.tabs = root.tabs
          /\ beside'.record = Missing /\ beside'.tabs = beside.tabs
          /\ StillBeside' = StillBeside
      BY <2>1, <2>2, <1>s DEF Places, StillBeside
    <3>2. OldRecord'  BY <3>1 DEF OldRecord
    <3>3. beside.record # Missing =>
            /\ Known' = beside.record /\ root.tabs = Missing
            /\ \A t \in Shelves : Claimed(beside.record, t) <=> t \in StillBeside
      BY <2>2, <2>c, <3>1 DEF Known, ClaimInv, OldRecord
    <3>4. StillBeside \subseteq Shelves  BY <1>x DEF StillBeside, Shape
    <3>5. beside.record # Missing  BY <2>1, <2>2
    <3>6. OldTabs'  BY <3>1, <3>3, <3>4, <3>5 DEF OldTabs, Claimed
    <3>7. \A t : ~HasDir(t)'  BY <3>1, <3>3, <3>5, <1>e DEF HasDir, Dirs
    <3>8. Claims'  BY <3>1, <3>3, <3>5, <3>7 DEF Claims, Claimed
    <3> QED  BY <3>2, <3>6, <3>8
  <2>3. CASE e = "digest"
    BY <2>1, <2>c, <2>3, <1>s
    DEF Places, ClaimInv, OldRecord, OldTabs, Claims, Known, HasDir, Dirs, StillBeside
  <2>4. CASE e = "tabs"
    <3>1. /\ root'.tabs = beside.tabs /\ root'.record = root.record
          /\ beside'.tabs = Missing /\ beside'.record = beside.record
          /\ DOMAIN root.tabs = StillBeside /\ root.tabs # Missing
          /\ beside.record = Missing \/ root.record # Missing
      BY <2>1, <2>4, <1>s DEF Places, ClaimInv, InOrder, Torn, Plain, NotAFunction
    <3>2. Known' = Known /\ StillBeside' = {}  BY <3>1 DEF Known, StillBeside
    <3>3. OldRecord'  BY <3>1, <2>c DEF OldRecord
    <3>4. OldTabs'  BY <3>1 DEF OldTabs
    <3>5. \A t : HasDir(t)' <=> t \in StillBeside
      BY <3>1, <1>e DEF HasDir, Dirs, StillBeside
    <3>6. \A t : HasDir(t) <=> t \in StillBeside
      BY <3>1 DEF HasDir, Dirs
    <3>7. Claims'
      <4> SUFFICES ASSUME root.record # Broken, NEW t \in Shelves \ doubt
                   PROVE  Claimed(Known, t)' <=> HasDir(t)'
        BY <2>1, <3>1, <3>2 DEF Claims
      <4>1. CASE t \in StillBeside
        BY <4>1, <2>4, <2>c, <3>1, <3>2, <3>5 DEF ClaimInv, OldTabs, Claimed, StillBeside
      <4>2. CASE t \notin StillBeside
        BY <4>2, <3>2, <3>5, <3>6 DEF ClaimInv, Claims, Claimed
      <4> QED  BY <4>1, <4>2
    <3> QED  BY <3>3, <3>4, <3>7
  <2> QED  BY <2>1, <2>2, <2>3, <2>4 DEF Places
<1>4. CASE AdoptFails
  <2>1. UNCHANGED <<root, beside>> /\ doubt' = doubt /\ job'.step = "adopt"
    BY <1>4, <1>x DEF AdoptFails, history, Shape, Doing
  <2> QED  BY <2>1, <1>q
<1>5. CASE WindowSaves
  <2>1. /\ root'.record = Blank /\ root'.tabs = root.tabs /\ root.record = Missing
        /\ beside' = beside /\ doubt' = doubt \cup StillBeside
        /\ job = Missing /\ job' = Missing
    BY <1>5, <1>s DEF WindowSaves, Places
  <2>2. Blank \notin {Missing, Broken}  BY Written
  <2>3. Known = Blank /\ Known' = Blank /\ StillBeside' = StillBeside /\ Dirs' = Dirs
    BY <2>1, <2>2 DEF Known, StillBeside, Dirs
  <2>4. OldRecord'  BY <2>1, <2>2 DEF OldRecord, Copying
  <2>5. OldTabs'  BY <2>1, <2>3 DEF OldTabs
  <2>6. Claims'
    <3>1. root.record # Broken  BY <2>1, StoreAssumption
    <3> QED  BY <2>1, <2>3, <3>1, <1>z DEF Claims, ClaimInv, HasDir, Claimed
  <2> QED  BY <2>4, <2>5, <2>6
<1>6. CASE UNCHANGED storeVars
  BY <1>6 DEF storeVars, history, Copying, ClaimInv, OldRecord, OldTabs, Claims, Known,
      HasDir, Dirs, StillBeside
<1>7. CASE \/ Refresh \/ StageDigest \/ SwapDigest \/ RefreshFails \/ Load \/ Inspect
           \/ FetchOriginals \/ EnsureDownloaded \/ InstallTab \/ Download \/ Clear
           \/ ClearFails \/ MakeDir \/ MakeFails \/ WriteOne \/ WriteOneFails \/ Filled
           \/ RecordDownload \/ RemoveTab \/ Unrecord
  BY <1>7
  DEF Refresh, StageDigest, SwapDigest, RefreshFails, Load, Inspect, FetchOriginals,
      EnsureDownloaded, InstallTab, Download, Clear, ClearFails, MakeDir, MakeFails,
      WriteOne, WriteOneFails, Filled, RecordDownload, RemoveTab, Unrecord, Doing
<1>8. CASE Cut
  <2>1. UNCHANGED <<root, beside>> /\ doubt' = doubt /\ job' = Missing
    BY <1>8 DEF Cut, Exit
  <2> QED  BY <2>1, <1>q
<1> QED
  BY <1>0, <1>1, <1>2, <1>3, <1>4, <1>5, <1>6, <1>7, <1>8
  DEF StoreNext

(* Afterwards there is nothing left to be moved that the record is to speak  *)
(* of.                                                                      *)
LEMMA ClaimInvNext ==
  ASSUME Plain, AdoptInv, ClaimInv, [StoreNext]_storeVars
  PROVE  ClaimInv'
<1>1. InOrder' /\ Between'  BY InOrderNext, BetweenNext DEF ClaimInv
<1>2. CASE job = Missing \/ job.step \in {"adopt", "copy"}
  BY <1>1, <1>2, EarlySteps DEF ClaimInv
<1>3. CASE job # Missing /\ job.step \notin {"adopt", "copy"}
  <2>1. Claims'  BY <1>3, ClaimsLater DEF ClaimInv
  <2>2. /\ beside.record = Missing \/ root.record # Missing
        /\ beside.tabs = Missing \/ root.tabs # Missing
    BY <1>3 DEF ClaimInv, InOrder, AdoptInv, Moving, Entries
  <2>3. OldRecord' /\ OldTabs'  BY <1>3, <2>2, LaterSteps DEF OldRecord, OldTabs
  <2> QED  BY <1>1, <2>1, <2>3 DEF ClaimInv
<1> QED  BY <1>2, <1>3

(* Between commands the record claims exactly the downloads there are,      *)
(* except of tabs whose directory changed without it (record_download and   *)
(* cmd_remove of src/src/main.c), if it did where everything used to be.     *)
THEOREM TheRecordIsHonest ==
  ASSUME Plain, Consistent PROVE StoreSpec => []RecordHonest
<1> DEFINE Inv == AdoptInv /\ ClaimInv
<1>1. StoreInit => Inv  BY AdoptInit, ClaimInit
<1>2. Inv /\ [StoreNext]_storeVars => Inv'  BY AdoptNext, ClaimInvNext
<1>3. Inv => RecordHonest  BY DEF ClaimInv, Claims, RecordHonest
<1> QED  BY <1>1, <1>2, <1>3, PTL DEF StoreSpec
=============================================================================
