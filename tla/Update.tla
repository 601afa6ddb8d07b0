------------------------------- MODULE Update --------------------------------
(***************************************************************************)
(* tabber replacing itself (src/src/update.c), as a terminal does it before *)
(* an ordinary command or on `upgrade` (src/src/main.c) and as the window    *)
(* does it (src/gui/main.cpp): the look for a release and the stamp it       *)
(* leaves, the question, the download beside the binary, the two renames,    *)
(* the check of the new binary and the way back, and the sweep that a later  *)
(* start, or the window two seconds into its life, makes of what is left.    *)
(* The executable is the one of one front-end; one process of it runs at a   *)
(* time, and a window has two threads.                                       *)
(***************************************************************************)
EXTENDS Integers, Sequences

CONSTANTS
  Worlds,         \* [window, locked, follows]: the front-end; whether a binary that
                  \* runs is locked (Windows), or its path follows a rename (Linux)
  Mine,           \* the binary the behaviour starts with
  Releases,       \* what the manifest may say: [version, builds]
  Late,           \* bound: the last hour the clock shows
  Intervals,      \* `interval_hours` as the state file may hold it
  Policies,       \* `policy` as the window has it
  Rank,           \* the order the versions are meant to have, for NeverOlder
  IntervalMin, IntervalMax,
  UpdateTroubles, \* "net", "bytes", "disk", "swap", "back", "stamp", "spawn", "crash", "clock"
  UpdateCalls,    \* bound: starts, looks asked for, releases and clocks set
  NoFile, NoInfo

ASSUME UpdateAssumption ==
  /\ {Late, UpdateCalls, IntervalMin, IntervalMax} \subseteq Nat
  /\ Intervals \subseteq Int /\ 0 < IntervalMin /\ IntervalMin <= IntervalMax
  /\ Mine # NoFile /\ Mine.whole /\ Mine.runs

VARIABLES
  world,                  \* fixed: one of Worlds
  exe, new, old,          \* the binary, and the two names beside it
  image,                  \* what the running process is, or NoFile
  from,                   \* the name its file has now: "exe", "old" or "gone"
  leaving,                \* the process that started it has yet to end, and runs `old`
  thread,                 \* the main thread: where it is
  swept,                  \* the window has made its second sweep
  guard,                  \* TABBER_UPDATED is set for this process
  up,                     \* the look or the update under way: [step, asked, by, kept]
  info,                   \* the release in hand: update_info, g_update
  file,                   \* the `update` object of the state file
  held,                   \* the copy a terminal has loaded, or NoInfo
  policy,                 \* g_policy
  manifest, clock,        \* the world's: the newest release, and the hour shown
  calls,                  \* what may still be started
  was,                    \* history: what `exe` was when an update came to it
  harmed,                 \* history: "cut" between the renames or not undone; "lost" its old one
  turnedDown,             \* history: the version declined last, once that was saved
  lastLook,               \* history: the hour of the last look that was recorded
  recorded, said          \* history: versions recorded as applied, and those announced
files  == <<exe, new, old>>
myself == <<image, from, leaving, thread, swept, guard>>
past   == <<turnedDown, lastLook, recorded, said>>
updateVars == <<world, files, myself, up, info, file, held, policy, manifest, clock, calls,
                was, harmed, past>>

-----------------------------------------------------------------------------
(* update_version_compare: three fields, then the end before a suffix.  What  *)
(* follows a third field is a suffix, a fourth field included.                *)
VersionField(v, i) == IF i <= Len(v.fields) THEN v.fields[i] ELSE 0
HasSuffix(v) == v.suffix \/ Len(v.fields) > 3
Unlike(a, b) == {i \in 1 .. 3 : VersionField(a, i) # VersionField(b, i)}
CompareSuffixLater(a, b) ==
  IF Unlike(a, b) # {}
  THEN LET i == CHOOSE i \in Unlike(a, b) : \A j \in Unlike(a, b) : i <= j
       IN IF VersionField(a, i) < VersionField(b, i) THEN -1 ELSE 1
  ELSE IF HasSuffix(a) = HasSuffix(b) THEN 0 ELSE IF HasSuffix(a) THEN 1 ELSE -1
Compare(a, b) ==
  IF Unlike(a, b) # {}
  THEN LET i == CHOOSE i \in Unlike(a, b) : \A j \in Unlike(a, b) : i <= j
       IN IF VersionField(a, i) < VersionField(b, i) THEN -1 ELSE 1
  ELSE IF HasSuffix(a) = HasSuffix(b) THEN 0 ELSE IF HasSuffix(a) THEN -1 ELSE 1

(* build_for_us: the exact key, then the bare system, of this front-end. *)
BuildFor(release, flavour) ==
  IF <<"exact", flavour>> \in DOMAIN release.builds THEN release.builds[<<"exact", flavour>>]
  ELSE IF <<"any", flavour>> \in DOMAIN release.builds THEN release.builds[<<"any", flavour>>]
  ELSE NoFile

(* update_manifest_parse: a build without its size and MD5 is refused, a      *)
(* release without a build for us is still a release.                         *)
InfoOf(release) ==
  LET build == BuildFor(release, IF world.window THEN "-gui" ELSE "")
  IN IF build # NoFile /\ ~build.described THEN NoInfo
     ELSE [version |-> release.version, build |-> build,
           newer |-> Compare(release.version, image.is) > 0]

Starts(content) == content # NoFile /\ content.whole /\ content.runs
(* self_check and self_check_only *)
SelfCheckRuns == TRUE  \* a binary taken at its word
SelfCheck == Starts(exe) /\ exe.is = info.version

(* The `update` object: config_update_interval, _due, _checked and the rest. *)
Interval(f) == IF f.interval < IntervalMin THEN IntervalMin
               ELSE IF f.interval > IntervalMax THEN IntervalMax ELSE f.interval
DueEarly(f) == f.last = -1 \/ f.last < clock - Interval(f) + 2 \/ f.last > clock
Due(f) == f.last = -1 \/ f.last <= clock - Interval(f) \/ f.last > clock
LookedAnew(f) == [f EXCEPT !.last = clock, !.declined = NoInfo]
Looked(f) == [f EXCEPT !.last = clock]

-----------------------------------------------------------------------------
MayBe(trouble) == trouble \in UpdateTroubles
UpAt(step) == up.step = step /\ image # NoFile
Goes(step) == up' = [up EXCEPT !.step = step]
Idle == [step |-> "idle", asked |-> FALSE, by |-> "nobody", kept |-> FALSE]
Main(place) == thread = place /\ image # NoFile
GoesOff ==
  /\ image' = NoFile /\ from' = "gone" /\ thread' = "off" /\ swept' = FALSE /\ guard' = FALSE
  /\ up' = Idle /\ info' = NoInfo /\ held' = NoInfo /\ was' = NoFile
MainGoes(place) == thread' = place /\ UNCHANGED <<image, from, leaving, swept, guard>>
Stays == UNCHANGED <<world, manifest, clock, policy>>

(* An update that ends, well or not, goes back to whoever asked for it. *)
Ends == IF up.by = "courtesy" THEN Goes("save")
        ELSE IF up.by = "command" THEN Goes("done") ELSE up' = Idle

(* main, up to the arguments: self_check_only is another process's. *)
Start(command) ==
  /\ image = NoFile /\ ~leaving /\ calls > 0 /\ Starts(exe)
  /\ command = "upgrade" => ~world.window
  /\ image' = exe /\ from' = "exe" /\ thread' = "sweepOld"
  /\ guard' = FALSE /\ swept' = FALSE
  /\ up' = [Idle EXCEPT !.by = IF command = "upgrade" THEN "command" ELSE "nobody"]
  /\ info' = NoInfo /\ calls' = calls - 1
  /\ UNCHANGED <<world, files, leaving, file, held, policy, manifest, clock, was, harmed, past>>

(* update_sweep, one file at a time: at every start, and once more by a      *)
(* window.  A binary that runs, or a file that is open, stays where locked.   *)
(* The old binary is still the way back: of an update between its renames, or *)
(* of one that was cut short there or could not rename it back.               *)
UnderWay  == up.step \in {"swap", "check", "undo", "back"}
Astray   == world.follows /\ from # "exe"    \* its path names another file by now
NeedsOld == UnderWay \/ (harmed # {} /\ ~Starts(exe))
LockedOld == world.locked /\ (leaving \/ from = "old")
SweepOld ==
  /\ Main("sweepOld") \/ (Main("open") /\ world.window /\ ~swept)
  /\ thread' = IF thread = "open" THEN "sweepAgain" ELSE "sweepNew"
  /\ swept' = (thread = "open")
  /\ old' = IF LockedOld \/ Astray THEN old ELSE NoFile
  /\ from' = IF from = "old" /\ ~LockedOld /\ ~Astray THEN "gone" ELSE from
  /\ harmed' = harmed \cup {h \in {"lost"} : NeedsOld /\ old' # old}
  /\ UNCHANGED <<world, exe, new, image, leaving, guard, up, info, file, held, policy, manifest,
                 clock, calls, was, past>>
SweepNew ==
  /\ Main("sweepNew") \/ Main("sweepAgain")
  /\ new' = IF Astray \/ (world.locked /\ up.step = "write") THEN new ELSE NoFile
  /\ MainGoes(IF thread = "sweepAgain" THEN "open"
              ELSE IF world.window THEN "announce"
              ELSE IF up.by = "command" THEN "upgrade" ELSE "check")
  /\ UNCHANGED <<exe, old, up, info, file, held, calls, was, harmed, past>> /\ Stays

(* config_load, the change, config_save.  A state file that cannot be written *)
(* loses what was to be saved.                                                *)
Save(f) ==
  \/ file' = f /\ UNCHANGED lastLook
  \/ MayBe("stamp") /\ UNCHANGED file /\ lastLook' = -1
SaveLook(f) ==
  \/ file' = f /\ lastLook' = clock
  \/ MayBe("stamp") /\ UNCHANGED file /\ lastLook' = -1

(* check_for_update, up to the lookup. *)
CheckForUpdate ==
  /\ Main("check")
  /\ IF guard \/ ~Due(file) THEN MainGoes("command") /\ UNCHANGED <<up, held>>
     ELSE /\ held' = file /\ up' = [Idle EXCEPT !.step = "look", !.by = "courtesy"]
          /\ MainGoes("busy")
  /\ UNCHANGED <<files, info, file, calls, was, harmed, past>> /\ Stays

(* cmd_upgrade *)
CmdUpgrade ==
  /\ Main("upgrade") /\ MainGoes("busy")
  /\ up' = [up EXCEPT !.step = "look", !.asked = TRUE]
  /\ UNCHANGED <<files, info, file, held, calls, was, harmed, past>> /\ Stays

(* poll_for_update, and the button in the corner. *)
Quiet == Main("open") /\ world.window /\ up.step = "idle"
Poll ==
  /\ Quiet /\ Due(file)
  /\ up' = [Idle EXCEPT !.step = "look", !.by = "window"]
  /\ UNCHANGED <<files, myself, info, file, held, calls, was, harmed, past>> /\ Stays
Button ==
  /\ Quiet /\ calls > 0 /\ calls' = calls - 1
  /\ \E step \in {"look", "upgrade"} : up' = [Idle EXCEPT !.step = step, !.asked = TRUE, !.by = "window"]
  /\ UNCHANGED <<files, myself, info, file, held, was, harmed, past>> /\ Stays

(* update_check: no network, a manifest that is not one, or the release. *)
Found == {InfoOf(manifest)} \cup (IF MayBe("net") THEN {NoInfo} ELSE {})
Offers(found) == found # NoInfo /\ found.newer
Installs(found) == Offers(found) /\ found.build # NoFile

(* The lookup of a terminal before a command.  The stamp goes into the copy   *)
(* it has loaded, a failed look included, which is saved when all is over.    *)
(* Where the output is piped, or the release has no build, it asks nothing.   *)
LookCourtesy ==
  /\ UpAt("look") /\ up.by = "courtesy"
  /\ held' = Looked(held) /\ lastLook' = clock
  /\ \E found \in Found :
       /\ info' = found
       /\ (Installs(found) /\ held.declined # found.version /\ Goes("ask")) \/ Goes("save")
  /\ UNCHANGED <<files, myself, file, calls, was, harmed, turnedDown, recorded, said>> /\ Stays
(* ...on `upgrade`, which records a look that succeeded and asks nothing... *)
LookCommand ==
  /\ UpAt("look") /\ up.by = "command"
  /\ \E found \in Found :
       /\ info' = found
       /\ IF found = NoInfo THEN UNCHANGED <<file, lastLook>> ELSE SaveLook(Looked(file))
       /\ IF Installs(found) THEN Goes("stage") ELSE Ends
  /\ UNCHANGED <<files, myself, held, calls, was, harmed, turnedDown, recorded, said>> /\ Stays
(* ...and of a window: look_for_update and work_check.  A failed look leaves  *)
(* the release known before.                                                  *)
LookFor(found) ==
  /\ SaveLook(Looked(file))
  /\ info' = IF found = NoInfo THEN info ELSE IF found.newer THEN found ELSE NoInfo
WhatNow(found) ==
  IF ~Offers(found) THEN "idle" ELSE IF policy = "auto" THEN "upgrade"
  ELSE IF up.asked \/ (policy = "prompt" /\ file.declined # found.version) THEN "ask" ELSE "idle"
LookWindow ==
  /\ UpAt("look") /\ up.by = "window"
  /\ \E found \in Found :
       LookFor(found) /\ up' = IF WhatNow(found) = "idle" THEN Idle
                               ELSE [up EXCEPT !.step = WhatNow(found)]
  /\ UNCHANGED <<files, myself, held, calls, was, harmed, turnedDown, recorded, said>> /\ Stays

(* work_upgrade, up to the download: a window that knows no build looks again. *)
Upgrade ==
  /\ UpAt("upgrade")
  /\ IF Installs(info) THEN UNCHANGED <<info, file, lastLook>>
     ELSE \E found \in Found : LookFor(found)
  /\ IF Installs(info') THEN Goes("stage") ELSE up' = Idle
  /\ UNCHANGED <<files, myself, held, calls, was, harmed, turnedDown, recorded, said>> /\ Stays

(* confirm, and the dialog: yes; or no, which is remembered; a dialog about a *)
(* release without a build has only the one answer.                           *)
Accept ==
  /\ UpAt("ask") /\ info.build # NoFile
  /\ Goes(IF world.window THEN "upgrade" ELSE "stage")
  /\ UNCHANGED <<files, myself, info, file, held, calls, was, harmed, past>> /\ Stays
Decline ==
  /\ UpAt("ask")
  /\ IF world.window
     THEN /\ Save([file EXCEPT !.declined = info.version]) /\ up' = Idle /\ UNCHANGED held
          /\ turnedDown' = IF file' # file THEN info.version ELSE turnedDown
     ELSE /\ held' = [held EXCEPT !.declined = info.version] /\ Goes("save")
          /\ UNCHANGED <<file, turnedDown, lastLook>>
  /\ UNCHANGED <<files, myself, info, calls, was, harmed, recorded, said>> /\ Stays

-----------------------------------------------------------------------------
(* update_plan_build and update_plan_stage: nothing reaches the disk of a     *)
(* download that fails or is not what was promised.  A write that fails       *)
(* leaves what it had written.  A process whose own file was left renamed and *)
(* whose path follows it would update that name: bound, it goes no further.   *)
Built == [is |-> info.build.is, runs |-> info.build.runs, whole |-> TRUE]
Refused ==
  /\ UpAt("stage") /\ (Astray \/ \E t \in {"net", "bytes", "disk"} : MayBe(t)) /\ Ends
  /\ UNCHANGED <<files, myself, info, file, held, calls, was, harmed, past>> /\ Stays
OpenNew ==
  /\ UpAt("stage") /\ ~Astray /\ Goes("write") /\ new' = [Built EXCEPT !.whole = FALSE]
  /\ UNCHANGED <<exe, old, myself, info, file, held, calls, was, harmed, past>> /\ Stays
WriteNew ==
  /\ UpAt("write") /\ Goes("aside") /\ new' = IF new = NoFile THEN new ELSE Built
  /\ UNCHANGED <<exe, old, myself, info, file, held, calls, was, harmed, past>> /\ Stays
WriteNewFails ==
  /\ UpAt("write") /\ MayBe("disk") /\ Ends
  /\ new' \in {new, NoFile}
  /\ UNCHANGED <<exe, old, myself, info, file, held, calls, was, harmed, past>> /\ Stays

(* update_plan_apply.  A rename cannot replace a binary that is locked. *)
MoveAside ==
  /\ UpAt("aside") /\ exe # NoFile /\ (old = NoFile \/ ~LockedOld)
  /\ Goes("swap") /\ old' = exe /\ exe' = NoFile /\ was' = exe
  /\ harmed' = harmed \cup {h \in {"lost"} : NeedsOld /\ old # NoFile}
  /\ from' = IF from = "exe" THEN "old" ELSE "gone"
  /\ UNCHANGED <<new, image, leaving, thread, swept, guard, info, file, held, calls, past>>
  /\ Stays
AsideFails ==
  /\ UpAt("aside") /\ (MayBe("swap") \/ (old # NoFile /\ LockedOld)) /\ Ends
  /\ UNCHANGED <<files, myself, info, file, held, calls, was, harmed, past>> /\ Stays
SwapIn ==
  /\ UpAt("swap") /\ new # NoFile /\ Goes("check") /\ exe' = new /\ new' = NoFile
  /\ UNCHANGED <<old, myself, info, file, held, calls, was, harmed, past>> /\ Stays
SwapFails ==
  /\ UpAt("swap") /\ (MayBe("swap") \/ new = NoFile) /\ Goes("back")
  /\ UNCHANGED <<files, myself, info, file, held, calls, was, harmed, past>> /\ Stays
Kept ==
  /\ UpAt("check") /\ SelfCheck
  /\ up' = [up EXCEPT !.kept = TRUE, !.step = CASE up.by = "window" -> "applied"
                                                 [] up.by = "courtesy" -> "save"
                                                 [] OTHER -> "done"]
  /\ UNCHANGED <<files, myself, info, file, held, calls, was, harmed, past>> /\ Stays
CheckFails ==
  /\ UpAt("check") /\ ~SelfCheck /\ Goes("undo")
  /\ UNCHANGED <<files, myself, info, file, held, calls, was, harmed, past>> /\ Stays
(* update_plan_undo; what fails in it is not looked at. *)
RemoveNew ==
  /\ UpAt("undo") /\ Goes("back")
  /\ exe' = NoFile \/ (MayBe("back") /\ UNCHANGED exe)
  /\ UNCHANGED <<new, old, myself, info, file, held, calls, was, harmed, past>> /\ Stays
MoveBack ==
  /\ UpAt("back") /\ Ends
  /\ \/ /\ old # NoFile /\ exe' = old /\ old' = NoFile
        /\ from' = (IF from = "old" THEN "exe" ELSE from) /\ UNCHANGED harmed
     \/ /\ old = NoFile \/ MayBe("back")
        /\ harmed' = harmed \cup {h \in {"cut"} : old # NoFile} /\ UNCHANGED <<exe, old, from>>
  /\ UNCHANGED <<new, image, leaving, thread, swept, guard, info, file, held, calls, was, past>>
  /\ Stays

(* The end of check_for_update: the copy is saved, whatever was written to    *)
(* the file meanwhile, and the new binary takes the command over.  Where      *)
(* nothing can replace a process, this one waits for it.                      *)
Becomes(place) == image' = exe /\ from' = "exe" /\ thread' = place /\ swept' = FALSE
SaveHeld ==
  /\ UpAt("save") /\ Save(held)
  /\ turnedDown' = IF file' = held /\ Offers(info) /\ held.declined = info.version
                   THEN info.version ELSE turnedDown
  /\ IF up.kept /\ Starts(exe)
     THEN /\ Becomes("sweepOld") /\ guard' = TRUE /\ leaving' = world.locked
     ELSE MainGoes("command")
  /\ up' = Idle /\ held' = NoInfo
  /\ UNCHANGED <<files, info, calls, was, harmed, recorded, said>> /\ Stays
RunsAgain ==
  /\ UpAt("done") /\ up' = Idle /\ MainGoes("command")
  /\ UNCHANGED <<files, info, file, held, calls, was, harmed, past>> /\ Stays
Command ==
  /\ Main("command") /\ GoesOff
  /\ UNCHANGED <<files, leaving, file, calls, harmed, past>> /\ Stays

(* The end of work_upgrade: what the next window is to say, and the next      *)
(* window.  If it does not start this one stays, on the old code.             *)
Applied(f, v) == [f EXCEPT !.applied = v]
RecordApplied ==
  /\ UpAt("applied") /\ Goes("spawn") /\ Save(Applied(file, info.version))
  /\ recorded' = IF file'.applied = info.version THEN recorded \cup {info.version} ELSE recorded
  /\ UNCHANGED <<files, myself, info, held, calls, was, harmed, turnedDown, said>> /\ Stays
Spawn ==
  /\ UpAt("spawn") /\ Starts(exe) /\ Becomes("sweepOld")
  /\ leaving' = TRUE /\ up' = Idle /\ info' = NoInfo
  /\ UNCHANGED <<files, guard, file, held, calls, was, harmed, past>> /\ Stays
SpawnFails ==
  /\ UpAt("spawn") /\ MayBe("spawn") /\ up' = Idle
  /\ UNCHANGED <<files, myself, info, file, held, calls, was, harmed, past>> /\ Stays
Leave ==
  /\ leaving /\ (world.window \/ image = NoFile) /\ leaving' = FALSE
  /\ UNCHANGED <<files, image, from, thread, swept, guard, up, info, file, held, calls, was,
                 harmed, past>> /\ Stays

(* announce_update *)
Says == file.applied # NoInfo /\ file.applied = image.is
AnnouncedStill(f) == f
Announced(f) == [f EXCEPT !.applied = NoInfo]
Announce ==
  /\ Main("announce") /\ MainGoes("open")
  /\ \/ file.applied = NoInfo /\ UNCHANGED <<file, lastLook, said>>
     \/ /\ file.applied # NoInfo /\ file' = Announced(file) /\ UNCHANGED lastLook
        /\ said' = IF Says THEN said \cup {image.is} ELSE said
     \/ /\ file.applied # NoInfo /\ MayBe("stamp") /\ UNCHANGED <<file, said>> /\ lastLook' = -1
  /\ UNCHANGED <<files, up, info, held, calls, was, harmed, turnedDown, recorded>> /\ Stays

(* The window is closed once its worker is done; a process can end anywhere. *)
Close ==
  /\ Quiet /\ GoesOff
  /\ UNCHANGED <<files, leaving, file, calls, harmed, past>> /\ Stays
Killed ==
  /\ MayBe("crash") /\ image # NoFile /\ GoesOff
  /\ harmed' = harmed \cup {h \in {"cut"} : UnderWay} /\ lastLook' = -1
  /\ UNCHANGED <<files, leaving, file, calls, turnedDown, recorded, said>> /\ Stays

(* The world: time, a clock set right or wrong, a later release, a setting. *)
Outside == UNCHANGED <<world, files, myself, up, info, file, held, was, harmed>>
Tick == clock < Late /\ clock' = clock + 1 /\ Outside /\ UNCHANGED <<policy, manifest, calls, past>>
SetClock ==
  /\ MayBe("clock") /\ calls > 0 /\ calls' = calls - 1
  /\ clock' \in 0 .. Late /\ clock' < clock /\ lastLook' = -1
  /\ Outside /\ UNCHANGED <<policy, manifest, turnedDown, recorded, said>>
Release(r) ==
  /\ calls > 0 /\ calls' = calls - 1 /\ Compare(r.version, manifest.version) > 0 /\ manifest' = r
  /\ Outside /\ UNCHANGED <<policy, clock, past>>
ChoosePolicy(p) ==
  /\ Main("open") /\ calls > 0 /\ calls' = calls - 1 /\ p # policy /\ policy' = p
  /\ Outside /\ UNCHANGED <<clock, manifest, past>>

UpdateInit ==
  /\ world \in Worlds /\ exe = Mine /\ new = NoFile /\ old = NoFile
  /\ image = NoFile /\ from = "gone" /\ leaving = FALSE /\ thread = "off" /\ swept = FALSE
  /\ guard = FALSE /\ up = Idle /\ info = NoInfo
  /\ file \in [last : {-1}, declined : {NoInfo}, applied : {NoInfo}, interval : Intervals]
  /\ held = NoInfo /\ policy \in Policies /\ (world.window \/ policy = "prompt")
  /\ manifest \in Releases /\ clock = 0 /\ calls = UpdateCalls
  /\ was = NoFile /\ harmed = {}
  /\ turnedDown = NoInfo /\ lastLook = -1 /\ recorded = {} /\ said = {}

UpdateNext ==
  \/ Start("any") \/ Start("upgrade") \/ SweepOld \/ SweepNew
  \/ CheckForUpdate \/ CmdUpgrade \/ Poll \/ Button
  \/ LookCourtesy \/ LookCommand \/ LookWindow \/ Upgrade \/ Accept \/ Decline
  \/ Refused \/ OpenNew \/ WriteNew \/ WriteNewFails
  \/ MoveAside \/ AsideFails \/ SwapIn \/ SwapFails \/ Kept \/ CheckFails
  \/ RemoveNew \/ MoveBack
  \/ SaveHeld \/ RunsAgain \/ Command \/ RecordApplied \/ Spawn \/ SpawnFails \/ Leave
  \/ Announce \/ Close \/ Killed \/ Tick \/ SetClock
  \/ \E r \in Releases : Release(r)
  \/ \E p \in Policies : ChoosePolicy(p)

UpdateSpec == UpdateInit /\ [][UpdateNext]_updateVars

(* ------------------------------ properties -------------------------------- *)
(* There is always a tabber that starts, under its name or moved aside, and   *)
(* it is under its name unless an update is between its renames, was cut      *)
(* short there or could not rename it back: whatever fails, whatever the new  *)
(* binary turns out to be, and wherever a sweep falls, unless one, or another *)
(* update, takes the old binary while it is the way back ("the one thing an   *)
(* update must never take away from them", src/gui/main.cpp:1396).            *)
StillStarts ==
  "lost" \notin harmed =>
    /\ Starts(exe) \/ Starts(old)
    /\ ~UnderWay /\ harmed = {} => Starts(exe)

(* What an update puts in place and keeps is a later version than the one     *)
(* that asked for it, and no earlier than the one it takes the place of: by   *)
(* the order the versions are meant to have, with suffixes, missing fields    *)
(* and releases that do not say what they are.                                *)
NeverOlder ==
  [][up.step = "check" /\ up'.kept
     => Rank[exe.is] > Rank[image.is] /\ Rank[exe.is] >= Rank[was.is]]_updateVars

(* A version that was turned down, with that saved, is not put up again until *)
(* another one is or it is asked for: in a terminal, in the window, after a   *)
(* restart and after a failed look.                                           *)
TurnedDownOnce == up.step = "ask" /\ ~up.asked => info.version # turnedDown

(* Two looks that nobody asked for, or one of them after one that was, are    *)
(* the interval of the settings apart, clamped to its bounds: looks that fail *)
(* and restarts count, unless the stamp could not be saved, the process was   *)
(* cut short before it was or the clock was set back.                         *)
LooksApart ==
  [][up.step = "idle" /\ up'.step = "look" /\ ~up'.asked /\ lastLook # -1
     => /\ clock - lastLook >= IntervalMin
        /\ clock - lastLook >= file.interval \/ clock - lastLook >= IntervalMax]_updateVars

(* A window says that it has been updated exactly when the version it is was  *)
(* recorded as applied and has not been announced: through restarts, updates  *)
(* that fail and windows that do not open.                                    *)
SaidOnce ==
  [][thread = "announce" /\ thread' = "open"
     => (Says <=> image.is \in recorded \ said)]_updateVars
=============================================================================
