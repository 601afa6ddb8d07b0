-------------------------------- MODULE Store --------------------------------
(***************************************************************************)
(* What tabber keeps for itself and the commands of a terminal that use it  *)
(* (src/src/main.c): the catalogue in its cached copy (src/src/digest.c),    *)
(* the tabs downloaded and unpacked (src/src/tabs.c), and what the state     *)
(* file says of them (src/src/config.c); and the move of all three from      *)
(* beside the binary, where they used to be, made once at a start.  One      *)
(* process runs at a time, and can end at any step.                          *)
(***************************************************************************)
EXTENDS Integers, Sequences

CONSTANTS
  Shelves,       \* the tabs
  Catalogues,    \* what the server may serve: [tab -> promise], over the tabs it lists
  Packs,         \* what a link may give: [files, palettes, size, disk, md5, sound, safe]
  Kinds,         \* the commands
  Volumes,       \* whether the old place and the new are one volume: a set of BOOLEAN
  StoreTroubles, \* "net" (no answer, or one refused), "cache", "shelf", "clear",
                 \* "record", "game", "move", "cut", "window"
  StoreCalls,    \* bound: commands run, and settings a window saves
  Besides,       \* what may sit beside the binary when the behaviour starts
  Missing, Broken

ASSUME StoreAssumption ==
  /\ StoreCalls \in Nat /\ Volumes \subseteq BOOLEAN /\ Missing # Broken
  /\ Kinds \subseteq {"list", "update", "fetch", "install", "remove", "check", "server",
                       "paths", "uninstall"}
  /\ \A b \in Besides :
       /\ DOMAIN b = {"record", "digest", "tabs"}
       /\ b.tabs # Missing => DOMAIN b.tabs \subseteq Shelves

Entries == <<"record", "digest", "tabs">>     \* adopt_old_root, in its order

VARIABLES
  sameVolume,   \* the old place and the new one are on one volume
  root,         \* what the root holds: the three Entries
  beside,       \* what the folder of the binary holds of them
  cacheTmp,     \* digest.json.tmp
  job,          \* the command that runs: [kind, tab, step, todo, dig, offline], or Missing
  exit,         \* how the last one ended
  storeLeft,
  vetted,       \* history: the promise a tab's download met
  unfinished,   \* history: tabs whose directory was left unfinished
  doubt         \* history: tabs the record may be wrong about
history == <<vetted, unfinished, doubt>>
storeVars == <<sameVolume, root, beside, cacheTmp, job, exit, storeLeft, history>>

-----------------------------------------------------------------------------
NoTabs == [t \in {} |-> {}]
Blank  == [t \in {} |-> "gone"]
Dirs   == IF root.tabs = Missing THEN NoTabs ELSE root.tabs
HasDir(t) == t \in DOMAIN Dirs                                \* tab_is_downloaded
Shelved(t, files) == [u \in DOMAIN Dirs \cup {t} |-> IF u = t THEN files ELSE Dirs[u]]
Without(t) == [u \in DOMAIN Dirs \ {t} |-> Dirs[u]]

StillBeside == IF beside.tabs = Missing THEN {} ELSE DOMAIN beside.tabs

(* digest_load and digest_find; config_load. *)
Loads(dig) == dig \notin {Missing, Broken}
InDigest(dig, t) == Loads(dig) /\ t \in DOMAIN dig
Known == IF root.record = Missing THEN Blank ELSE root.record

(* config_set_downloaded and config_set_removed, which starts no entry for a *)
(* tab whose id it does not know.                                            *)
Downloaded(rec, t) == [u \in DOMAIN rec \cup {t} |-> IF u = t THEN "down" ELSE rec[u]]
RemovedIfListed(rec, t, listed) ==       \* forgets an entry the digest dropped
  IF listed THEN [u \in DOMAIN rec \cup {t} |-> IF u = t THEN "gone" ELSE rec[u]] ELSE rec
Removed(rec, t, listed) ==
  IF t \in DOMAIN rec \/ listed
  THEN [u \in DOMAIN rec \cup {t} |-> IF u = t THEN "gone" ELSE rec[u]] ELSE rec
Claimed(rec, t) == t \in DOMAIN rec /\ rec[t] = "down"

(* tab_fetch, up to the disk: the size and the MD5, the archive, its size     *)
(* unpacked, the promised files and palettes, the names, and every checksum.  *)
MeetsSize(p, promise) == promise.size \in {-1, p.size} /\ promise.disk \in {-1, p.disk}
MeetsSum(p, promise)  == promise.md5 \in {Missing, p.md5}
HasSome(p, promise) == promise.files \cap p.files # {} \/ promise.files = {}
HasFiles(p, promise)    == promise.files \subseteq p.files
HasPalettes(p, promise) == promise.palettes \subseteq p.palettes
MeetsPromise(p, promise) ==
  /\ MeetsSize(p, promise) /\ MeetsSum(p, promise) /\ p.sound /\ p.safe
  /\ HasFiles(p, promise) /\ HasPalettes(p, promise)

-----------------------------------------------------------------------------
Can(trouble) == trouble \in StoreTroubles
Doing(step) == job # Missing /\ job.step = step
Step(step) == job' = [job EXCEPT !.step = step]
Exit(code) == job' = Missing /\ exit' = code
Steady == UNCHANGED sameVolume

(* main, and run_command.  `list`, `fetch` and `install` refresh the digest   *)
(* once and go on without; `update` has to; the others use what there is.     *)
Refreshes == {"list", "fetch", "install", "update"}
OfTab == {"fetch", "install", "remove", "uninstall"}
Run(kind, t, offline) ==
  /\ job = Missing /\ storeLeft > 0 /\ storeLeft' = storeLeft - 1
  /\ offline => kind \in Refreshes \cup {"server"}    \* it changes nothing of the others
  /\ job' = [kind |-> kind, tab |-> IF kind \in OfTab THEN t ELSE Missing, step |-> "adopt",
             todo |-> Entries, dig |-> Missing, pack |-> Missing, offline |-> offline]
  /\ exit' = "running"
  /\ UNCHANGED <<root, beside, cacheTmp, history>> /\ Steady

(* plat_move_entries: what is not there, or would land on something, stays.   *)
MovesOver(e) == beside[e] # Missing          \* without the look at what is there
Moves(e) == beside[e] # Missing /\ root[e] = Missing
Torn(e) == IF e = "tabs" THEN [t \in StillBeside |-> {}] ELSE Broken
AdoptDone ==
  /\ Doing("adopt") /\ job.todo = <<>>
  /\ CASE job.offline /\ job.kind \in {"update", "server"} -> Exit("usage")
       [] job.kind \in Refreshes /\ ~job.offline -> Step("refresh") /\ UNCHANGED exit
       [] OTHER -> Step("load") /\ UNCHANGED exit
  /\ UNCHANGED <<root, beside, cacheTmp, storeLeft, history>> /\ Steady
AdoptOne ==
  /\ Doing("adopt") /\ job.todo # <<>>
  /\ LET e == Head(job.todo)
         Pass == job' = [job EXCEPT !.todo = Tail(@)] /\ UNCHANGED unfinished
     IN \/ ~Moves(e) /\ Pass /\ UNCHANGED <<root, beside>>
        \/ /\ Moves(e) /\ sameVolume /\ Pass
           /\ root' = [root EXCEPT ![e] = beside[e]] /\ beside' = [beside EXCEPT ![e] = Missing]
        \/ /\ Moves(e) /\ (~sameVolume \/ Can("move"))        \* the rename fails
           /\ Step("copy") /\ root' = [root EXCEPT ![e] = Torn(e)] /\ UNCHANGED beside
           /\ unfinished' = IF e = "tabs" THEN unfinished \cup StillBeside ELSE unfinished
  /\ UNCHANGED <<cacheTmp, exit, storeLeft, vetted, doubt>> /\ Steady
(* move_one_file and move_one_dir where the rename fails, as it does between   *)
(* two volumes: what cannot be copied whole stays as far as it got, and so    *)
(* does the original.                                                         *)
AdoptCopied ==
  /\ Doing("copy")
  /\ LET e == Head(job.todo)
     IN /\ root' = [root EXCEPT ![e] = beside[e]] /\ beside' = [beside EXCEPT ![e] = Missing]
        /\ unfinished' = IF e = "tabs" THEN unfinished \ StillBeside ELSE unfinished
        /\ job' = [job EXCEPT !.step = "adopt", !.todo = Tail(@)]
  /\ UNCHANGED <<cacheTmp, exit, storeLeft, vetted, doubt>> /\ Steady
AdoptFails ==
  /\ Can("move") /\ Doing("copy") /\ job' = [job EXCEPT !.step = "adopt", !.todo = Tail(@)]
  /\ UNCHANGED <<root, beside, cacheTmp, exit, storeLeft, history>> /\ Steady

-----------------------------------------------------------------------------
(* digest_ensure_fresh: only a payload that is a digest goes on, and it is    *)
(* written beside the cached copy and swapped in.                             *)
LooksAnyhow(payload) == payload # Missing    \* any answer will do
LooksValid(payload) == payload # Broken
Refresh ==
  /\ Doing("refresh") /\ cacheTmp' = Broken
  /\ \E payload \in Catalogues :
       LooksValid(payload) /\ job' = [job EXCEPT !.step = "stage", !.dig = payload]
  /\ UNCHANGED <<root, beside, exit, storeLeft, history>> /\ Steady
StageDigest ==
  /\ Doing("stage") /\ Step("swap") /\ cacheTmp' = job.dig
  /\ UNCHANGED <<root, beside, exit, storeLeft, history>> /\ Steady
SwapDigest ==
  /\ Doing("swap") /\ Step("load") /\ root' = [root EXCEPT !.digest = cacheTmp]
  /\ cacheTmp' = Missing
  /\ UNCHANGED <<beside, exit, storeLeft, history>> /\ Steady
RefreshFails ==
  /\ \/ Doing("refresh") /\ Can("net") /\ UNCHANGED cacheTmp
     \/ Doing("stage") /\ Can("cache") /\ UNCHANGED cacheTmp
     \/ Doing("swap") /\ Can("cache") /\ cacheTmp' = Missing
  /\ IF job.kind = "update" THEN Exit("failed") ELSE Step("load") /\ UNCHANGED exit
  /\ UNCHANGED <<root, beside, storeLeft, history>> /\ Steady

(* digest_load, and what each command makes of it. *)
Load ==
  /\ Doing("load")
  /\ LET dig == root.digest
     IN CASE job.kind \in {"list", "update"} -> Exit(IF Loads(dig) THEN "ok" ELSE "failed")
          [] job.kind \in {"fetch", "install", "uninstall"} /\ ~Loads(dig) -> Exit("failed")
          [] job.kind \in {"fetch", "install", "uninstall"} /\ ~InDigest(dig, job.tab) -> Exit("notfound")
          [] OTHER -> /\ job' = [job EXCEPT !.dig = dig, !.step = IF job.kind = "fetch"
                                              THEN "download" ELSE job.kind]
                      /\ UNCHANGED exit
  /\ UNCHANGED <<root, beside, cacheTmp, storeLeft, history>> /\ Steady

(* cmd_paths, cmd_check, cmd_server and cmd_uninstall, as far as they touch   *)
(* what is kept here: the first reads only, a check saves the record it read  *)
(* back, and an uninstall leaves the tab's own download and flag alone but     *)
(* may fetch another tab, the one with the originals (load_originals).        *)
Inspect ==
  /\ job # Missing /\ job.step \in {"paths", "check", "server", "uninstall"}
  /\ \/ job.step # "paths" /\ root.record = Broken /\ Exit("failed")
     \/ (job.step = "paths" \/ root.record # Broken) /\ \E code \in {"ok", "failed"} : Exit(code)
  /\ UNCHANGED <<root, beside, cacheTmp, storeLeft, history>> /\ Steady
FetchOriginals ==
  /\ Doing("uninstall") /\ root.record # Broken
  /\ \E u \in Shelves : /\ InDigest(job.dig, u) /\ ~HasDir(u)
                       /\ job' = [job EXCEPT !.step = "download", !.tab = u]
  /\ UNCHANGED <<root, beside, cacheTmp, exit, storeLeft, history>> /\ Steady

(* cmd_install: the folders of the game, the download if there is none, and   *)
(* then only if no tab is in.                                                 *)
EnsureDownloaded ==
  /\ Doing("install")
  /\ \/ Can("game") /\ Exit("failed")
     \/ Step(IF HasDir(job.tab) THEN "detect" ELSE "download") /\ UNCHANGED exit
  /\ UNCHANGED <<root, beside, cacheTmp, storeLeft, history>> /\ Steady
InstallTab ==
  /\ Doing("detect")
  /\ \/ (root.record = Broken \/ Can("game")) /\ Exit("failed") /\ UNCHANGED <<root, doubt>>
     \/ /\ root.record # Broken /\ Exit("ok")
        /\ root' = [root EXCEPT !.record = Downloaded(Known, job.tab)] /\ doubt' = doubt \ {job.tab}
     \/ root.record # Broken /\ Can("record") /\ Exit("ok") /\ UNCHANGED <<root, doubt>>
  /\ UNCHANGED <<beside, cacheTmp, storeLeft, vetted, unfinished>> /\ Steady

-----------------------------------------------------------------------------
(* tab_fetch: nothing is touched before everything has been verified.         *)
Download ==
  /\ Doing("download")
  /\ \/ Can("net") /\ Exit("failed")
     \/ /\ UNCHANGED exit
        /\ \E p \in Packs : /\ MeetsPromise(p, job.dig[job.tab])
                          /\ job' = [job EXCEPT !.step = "clear", !.pack = p]
  /\ UNCHANGED <<root, beside, cacheTmp, storeLeft, history>> /\ Steady

(* plat_remove_tree, for tab_fetch and tab_remove. *)
Clear ==
  /\ Doing("clear") /\ Step("make") /\ doubt' = doubt \cup {job.tab}
  /\ root' = [root EXCEPT !.tabs = IF HasDir(job.tab) THEN Without(job.tab) ELSE @]
  /\ UNCHANGED <<beside, cacheTmp, exit, storeLeft, vetted, unfinished>> /\ Steady
ClearFails ==
  /\ Can("clear") /\ (Doing("clear") \/ Doing("remove")) /\ HasDir(job.tab) /\ Exit("failed")
  /\ \E kept \in SUBSET Dirs[job.tab] : root' = [root EXCEPT !.tabs = Shelved(job.tab, kept)]
  /\ unfinished' = unfinished \cup {job.tab}
  /\ UNCHANGED <<beside, cacheTmp, storeLeft, vetted, doubt>> /\ Steady
MakeDir ==
  /\ Doing("make") /\ Step("fill") /\ root' = [root EXCEPT !.tabs = Shelved(job.tab, {})]
  /\ UNCHANGED <<beside, cacheTmp, exit, storeLeft, history>> /\ Steady
MakeFails ==
  /\ Can("shelf") /\ Doing("make") /\ Exit("failed")
  /\ UNCHANGED <<root, beside, cacheTmp, storeLeft, history>> /\ Steady
(* write_staged_file *)
WriteOne ==
  /\ Doing("fill")
  /\ \E f \in job.pack.files \ Dirs[job.tab] :
       root' = [root EXCEPT !.tabs = Shelved(job.tab, Dirs[job.tab] \cup {f})]
  /\ UNCHANGED <<beside, cacheTmp, job, exit, storeLeft, history>> /\ Steady
WriteOneFails ==
  /\ Can("shelf") /\ Doing("fill") /\ job.pack.files # Dirs[job.tab] /\ Exit("failed")
  /\ \/ root' = [root EXCEPT !.tabs = Without(job.tab)] /\ unfinished' = unfinished \ {job.tab}
     \/ Can("clear") /\ unfinished' = unfinished \cup {job.tab} /\ UNCHANGED root
  /\ UNCHANGED <<beside, cacheTmp, storeLeft, vetted, doubt>> /\ Steady
Filled ==
  /\ Doing("fill") /\ job.pack.files = Dirs[job.tab] /\ Step("record")
  /\ vetted' = [vetted EXCEPT ![job.tab] = job.dig[job.tab]] /\ unfinished' = unfinished \ {job.tab}
  /\ UNCHANGED <<root, beside, cacheTmp, exit, storeLeft, doubt>> /\ Steady
(* record_download; a record that cannot be read or saved is only warned about. *)
RecordDownload ==
  /\ Doing("record")
  /\ IF job.kind = "install" THEN Step("detect") /\ UNCHANGED exit ELSE Exit("ok")
  /\ \/ /\ root.record # Broken /\ doubt' = doubt \ {job.tab}
        /\ root' = [root EXCEPT !.record = Downloaded(Known, job.tab)]
     \/ (root.record = Broken \/ Can("record")) /\ UNCHANGED <<root, doubt>>
  /\ UNCHANGED <<beside, cacheTmp, storeLeft, vetted, unfinished>> /\ Steady

(* tab_remove and cmd_remove: without a digest or without files all the same. *)
RemoveTab ==
  /\ Doing("remove") /\ job' = [job EXCEPT !.step = "unrecord", !.pack = HasDir(job.tab)]
  /\ root' = [root EXCEPT !.tabs = IF HasDir(job.tab) THEN Without(job.tab) ELSE @]
  /\ doubt' = IF HasDir(job.tab) THEN doubt \cup {job.tab} ELSE doubt
  /\ unfinished' = unfinished \ {job.tab}
  /\ UNCHANGED <<beside, cacheTmp, exit, storeLeft, vetted>> /\ Steady
Removal == Removed(Known, job.tab, InDigest(job.dig, job.tab))
Records ==
  /\ root.record # Broken /\ (job.pack = TRUE \/ Claimed(Known, job.tab))
  /\ job.tab \in DOMAIN Removal
Unrecord ==
  /\ Doing("unrecord")
  /\ \/ /\ Records /\ Exit("ok")
        /\ root' = [root EXCEPT !.record = Removal] /\ doubt' = doubt \ {job.tab}
     \/ /\ Records => Can("record")
        /\ Exit(IF job.pack = TRUE THEN "ok" ELSE "notfound") /\ UNCHANGED <<root, doubt>>
  /\ UNCHANGED <<beside, cacheTmp, storeLeft, vetted, unfinished>> /\ Steady

-----------------------------------------------------------------------------
(* The process ends: a directory being removed or filled is left so. *)
Cut ==
  /\ Can("cut") /\ job # Missing /\ Exit("cut")
  /\ IF job.step \in {"clear", "remove"} /\ HasDir(job.tab)
     THEN /\ \E kept \in SUBSET Dirs[job.tab] : root' = [root EXCEPT !.tabs = Shelved(job.tab, kept)]
          /\ unfinished' = unfinished \cup {job.tab}
     ELSE /\ UNCHANGED root
          /\ unfinished' = IF job.step = "fill" THEN unfinished \cup {job.tab} ELSE unfinished
  /\ UNCHANGED <<beside, cacheTmp, storeLeft, vetted, doubt>> /\ Steady

(* A window, which does not look beside the binary, saves a setting. *)
WindowSaves ==
  /\ Can("window") /\ job = Missing /\ root.record = Missing /\ storeLeft > 0
  /\ storeLeft' = storeLeft - 1 /\ root' = [root EXCEPT !.record = Blank]
  /\ doubt' = doubt \cup StillBeside
  /\ UNCHANGED <<beside, cacheTmp, job, exit, vetted, unfinished>> /\ Steady

StoreInit ==
  /\ sameVolume \in Volumes
  /\ root = [e \in {"record", "digest", "tabs"} |-> Missing]
  /\ beside \in Besides
  /\ cacheTmp = Missing /\ job = Missing /\ exit = "ok" /\ storeLeft = StoreCalls
  /\ vetted = [t \in Shelves |-> IF beside.tabs # Missing /\ t \in DOMAIN beside.tabs
                                 THEN [files |-> beside.tabs[t]] ELSE Missing]
  /\ unfinished = {} /\ doubt = {}

StoreNext ==
  \/ \E kind \in Kinds, t \in Shelves, offline \in BOOLEAN : Run(kind, t, offline)
  \/ AdoptDone \/ AdoptOne \/ AdoptCopied \/ AdoptFails
  \/ Refresh \/ StageDigest \/ SwapDigest \/ RefreshFails \/ Load
  \/ Inspect \/ FetchOriginals \/ EnsureDownloaded \/ InstallTab
  \/ Download \/ Clear \/ ClearFails \/ MakeDir \/ MakeFails \/ WriteOne \/ WriteOneFails
  \/ Filled \/ RecordDownload \/ RemoveTab \/ Unrecord
  \/ Cut \/ WindowSaves

StoreSpec == StoreInit /\ [][StoreNext]_storeVars

(* ------------------------------ properties -------------------------------- *)
(* Neither the cached digest nor the record is ever one that cannot be read,  *)
(* wherever a command is cut short and whatever the server sends, unless it   *)
(* is the unfinished copy of one that is still beside the binary (README,     *)
(* "an interrupted refresh can never corrupt the cache").                     *)
KeptReadable ==
  \A e \in {"record", "digest"} : root[e] = Broken => beside[e] # Missing

(* A downloaded tab that no failure and no cut left unfinished has every file *)
(* that the digest it was fetched by promised, whatever the server serves     *)
(* later and whichever fetches of it failed since (tabs.h: a failed fetch     *)
(* "leaves no partial installation behind").                                  *)
DownloadsWhole ==
  \A t \in DOMAIN Dirs \ unfinished :
    \/ job # Missing /\ job.tab = t /\ job.step = "fill"
    \/ vetted[t] # Missing /\ vetted[t].files \subseteq Dirs[t]

(* Between commands the record claims exactly the downloads there are, except *)
(* of tabs whose directory changed without it: a record that could not be     *)
(* saved or read, a fetch that failed once the old copy was cleared, a cut,    *)
(* or tabs that are still to be moved.                                        *)
RecordHonest ==
  job = Missing /\ root.record # Broken
  => \A t \in Shelves \ (doubt \cup StillBeside) : Claimed(Known, t) <=> HasDir(t)

(* What the move to the new place finds whole, at either place, it leaves     *)
(* whole in one of them, and it writes over nothing (adopt_old_root), cut     *)
(* short or not.                                                              *)
AdoptLosesNothing ==
  [][job # Missing /\ job.step \in {"adopt", "copy"}
     => \A e \in {"record", "digest", "tabs"} :
          {root[e], beside[e]} \ {Missing, Broken, Torn(e)} \subseteq {root'[e], beside'[e]}
    ]_storeVars
=============================================================================
