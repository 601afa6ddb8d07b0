------------------------------- MODULE Worker -------------------------------
(***************************************************************************)
(* The window and the thread that works for it (gui/main.cpp).  The window *)
(* asks for tasks with request(), the worker does them one after another   *)
(* and leaves news, and the window acts on the news at the top of a frame. *)
(* The two share the queues, a lock and two condition variables; the tasks *)
(* read the catalogue, which only the window replaces.                     *)
(*                                                                         *)
(* One step here is what a thread does under the lock, or between two      *)
(* holds of it.  A task itself is what it can do to the game - Installer   *)
(* has the calls it makes - and what news it can leave.                    *)
(***************************************************************************)
EXTENDS Integers, Sequences

CONSTANTS
  Tabs,      \* the custom tabs
  None,      \* no tab, no task, no news
  QueueMax,  \* WORK_QUEUE_MAX
  NewsMax,   \* WORK_NEWS_MAX
  Habits,    \* what a session is tried with: sets of what the user, the
             \* timer and a terminal do in it
  MaxLoads   \* bound: how often a newer catalogue can be read

Game    == {"install", "uninstall", "replace"}
OnATab  == Game \cup {"download"}
General == {"update", "check", "check_asked", "upgrade"}

ASSUME ConstantsAssumption ==
  /\ QueueMax \in Nat \ {0} /\ NewsMax \in Nat \ {0} /\ MaxLoads \in Nat
  /\ None \notin Tabs
  /\ \A habit \in Habits : habit \subseteq OnATab \cup General \cup {"terminal"}

VARIABLES
  queue, queueHead, queueCount,  \* g_queue, a ring, and where it starts
  news, newsHead, newsCount,     \* g_news, likewise
  current, running,    \* the task being done
  blocking,            \* how many tasks in flight block the window
  stopping,            \* the worker is to stand down
  worker,              \* where the worker is
  left,                \* the news it is about to leave
  held,                \* the catalogue its task reads
  window,              \* where the window is in its frame
  uiBlocked,           \* what the frame goes by
  closing,             \* glfwWindowShouldClose
  digest, fresh,       \* the catalogue on screen and the one waiting, by age
  loads,               \* how many newer ones have been read
  disk,                \* the tab in the game
  installedCode,       \* the one the table shows
  opening,             \* g_open_popup, the dialog to be put up
  dialog,              \* the dialog on screen
  question,            \* what the replacement dialog says
  habit                \* what this session does

queueVars  == <<queue, queueHead, queueCount, blocking>>
newsVars   == <<news, newsHead, newsCount>>
taskVars   == <<current, running, held, left>>
digestVars == <<digest, fresh>>
dialogVars == <<opening, dialog, question>>
tableVars  == <<installedCode, opening, dialog, question, habit>>
vars == <<queueVars, newsVars, taskVars, stopping, worker, window, uiBlocked,
          closing, digestVars, loads, disk, tableVars>>

(* What a ring holds, the oldest first.                                     *)
Contents(ring, head, count, max) ==
  [i \in 1..count |-> ring[(head + i - 1) % max]]

Queued   == Contents(queue, queueHead, queueCount, QueueMax)
Unread   == Contents(news, newsHead, newsCount, NewsMax)
InFlight == running \/ queueCount > 0

Same(item, action, code) == item.action = action /\ item.code = code

Items == [action: OnATab \cup General, code: Tabs \cup {None},
          other: Tabs \cup {None}, blocking: BOOLEAN]
News  == [task: Items, what: {"told", "silent", "ask", "upgrade", "quit"},
          fresh: 0..MaxLoads]

Questions == [code: Tabs, other: Tabs]
Dialogs   == {"confirm", "update", "result"}

ASSUME NoneAssumption == None \notin Items \cup News \cup Questions \cup Dialogs

Init ==
  /\ queue = [i \in 0..QueueMax - 1 |-> None] /\ queueHead = 0 /\ queueCount = 0
  /\ news = [i \in 0..NewsMax - 1 |-> None] /\ newsHead = 0 /\ newsCount = 0
  /\ current = None /\ running = FALSE /\ blocking = 0 /\ stopping = FALSE
  /\ worker = "wake" /\ left = None /\ held = None
  /\ window = "poll" /\ uiBlocked = FALSE
  /\ closing = FALSE
  /\ digest = 0 /\ fresh = 0 /\ loads = 0
  /\ disk \in Tabs \cup {None} /\ installedCode = disk
  /\ opening = None /\ dialog = None /\ question = None
  /\ habit \in Habits

(***************************************************************************)
(* request().  A task already queued or being done is not asked for again, *)
(* and one too many is dropped.  Which tab the table shows as installed    *)
(* goes with it; only a replacement reads it.                              *)
(***************************************************************************)
(* Slip: only what still waits is looked at.                                *)
DuplicateQueued(action, code) ==
  \E i \in 1..queueCount : Same(Queued[i], action, code)

Duplicate(action, code) ==
  \/ running /\ Same(current, action, code)
  \/ \E i \in 1..queueCount : Same(Queued[i], action, code)

(* Slip: the worker is not told.                                            *)
WakeNobody == UNCHANGED worker

Wake == worker' = IF worker = "asleep" THEN "wake" ELSE worker

Request(action, code, blocks) ==
  IF Duplicate(action, code) \/ queueCount = QueueMax
  THEN UNCHANGED <<queueVars, worker>>
  ELSE /\ queue' = [queue EXCEPT ![(queueHead + queueCount) % QueueMax] =
                      [action |-> action, code |-> code, blocking |-> blocks,
                       other |-> IF action = "replace" THEN installedCode
                                                       ELSE None]]
       /\ queueCount' = queueCount + 1
       /\ blocking' = blocking + (IF blocks THEN 1 ELSE 0)
       /\ Wake
       /\ UNCHANGED queueHead

(***************************************************************************)
(* The worker.  It is asleep on g_work_wake when it is "asleep" and on     *)
(* g_news_room when it is "full"; awake, it looks at what it waits for.    *)
(***************************************************************************)
Sleep ==
  /\ worker = "wake" /\ ~stopping /\ queueCount = 0
  /\ worker' = "asleep"
  /\ UNCHANGED <<queueVars, newsVars, taskVars, stopping, window, uiBlocked,
                 closing, digestVars, loads, disk, tableVars>>

StandDown ==
  /\ worker = "wake" /\ stopping
  /\ worker' = "gone"
  /\ UNCHANGED <<queueVars, newsVars, taskVars, stopping, window, uiBlocked,
                 closing, digestVars, loads, disk, tableVars>>

Take ==
  /\ worker = "wake" /\ ~stopping /\ queueCount > 0
  /\ current' = queue[queueHead] /\ running' = TRUE
  /\ queue' = [queue EXCEPT ![queueHead] = None]
  /\ queueHead' = (queueHead + 1) % QueueMax
  /\ queueCount' = queueCount - 1
  /\ held' = digest
  /\ worker' = "work"
  /\ UNCHANGED <<blocking, newsVars, left, stopping, window, uiBlocked,
                 closing, digestVars, loads, disk, tableVars>>

Report(what, catalogue) ==
  /\ left' = [task |-> current, what |-> what, fresh |-> catalogue]
  /\ worker' = "room"
  /\ UNCHANGED <<queueVars, newsVars, current, running, held, stopping, window,
                 uiBlocked, closing, digestVars, tableVars>>

(* work_check: silent, or the answer a look that was asked for is owed, or  *)
(* the release the policy takes or asks about.                              *)
Look ==
  /\ worker = "work" /\ current.action \in {"check", "check_asked"}
  /\ \/ Report("upgrade", 0)
     \/ Report("ask", 0)
     \/ current.action = "check" /\ Report("silent", 0)
     \/ current.action = "check_asked" /\ Report("told", 0)
  /\ UNCHANGED <<loads, disk>>

(* work_upgrade: it fails, or the new binary has been started.              *)
Upgrade ==
  /\ worker = "work" /\ current.action = "upgrade"
  /\ \E what \in {"told", "quit"} : Report(what, 0)
  /\ UNCHANGED <<loads, disk>>

(* ACT_UPDATE: the list cannot be fetched or read, or a newer one waits.    *)
Update ==
  /\ worker = "work" /\ current.action = "update"
  /\ \/ Report("told", 0) /\ UNCHANGED loads
     \/ loads < MaxLoads /\ loads' = loads + 1 /\ Report("told", loads + 1)
  /\ UNCHANGED disk

Download ==
  /\ worker = "work" /\ current.action = "download"
  /\ Report("told", 0)
  /\ UNCHANGED <<loads, disk>>

(* run_install, of a task of its own or after the uninstall of a            *)
(* replacement.  It asks again which tab is in the game.                    *)
RunInstall ==
  /\ \/ worker = "work" /\ current.action = "install"
     \/ worker = "again"
  /\ \/ disk \in {None, current.code} /\ disk' = current.code
     \/ UNCHANGED disk
  /\ Report("told", 0)
  /\ UNCHANGED loads

RunUninstall ==
  /\ worker = "work" /\ current.action = "uninstall"
  /\ \/ disk = current.code /\ disk' = None
     \/ UNCHANGED disk
  /\ Report("told", 0)
  /\ UNCHANGED loads

(* ACT_REPLACE: the other tab is taken out first, and only then is this one *)
(* put in.                                                                  *)
Replace ==
  /\ worker = "work" /\ current.action = "replace"
  /\ \/ /\ current.other # None /\ disk = current.other
        /\ disk' = None /\ worker' = "again"
        /\ UNCHANGED <<queueVars, newsVars, taskVars, stopping, window,
                       uiBlocked, closing, digestVars, tableVars>>
     \/ Report("told", 0) /\ UNCHANGED disk
  /\ UNCHANGED loads

WaitForRoom ==
  /\ worker = "room" /\ ~stopping /\ newsCount = NewsMax
  /\ worker' = "full"
  /\ UNCHANGED <<queueVars, newsVars, taskVars, stopping, window, uiBlocked,
                 closing, digestVars, loads, disk, tableVars>>

(* Slip: without looking for room first.                                    *)
LeaveAnyway ==
  /\ worker = "room"
  /\ news' = [news EXCEPT ![(newsHead + newsCount) % NewsMax] = left]
  /\ newsCount' = newsCount + 1
  /\ running' = FALSE /\ current' = None /\ held' = None /\ left' = None
  /\ blocking' = blocking - (IF current.blocking THEN 1 ELSE 0)
  /\ worker' = IF stopping THEN "gone" ELSE "wake"
  /\ UNCHANGED <<queue, queueHead, queueCount, newsHead, stopping, window,
                 uiBlocked, closing, digestVars, loads, disk, tableVars>>

(* The news is left, or thrown away when nobody is there to read it.        *)
Leave ==
  /\ worker = "room" /\ (stopping \/ newsCount < NewsMax)
  /\ IF stopping
     THEN UNCHANGED newsVars
     ELSE /\ news' = [news EXCEPT ![(newsHead + newsCount) % NewsMax] = left]
          /\ newsCount' = newsCount + 1
          /\ UNCHANGED newsHead
  /\ running' = FALSE /\ current' = None /\ held' = None /\ left' = None
  /\ blocking' = blocking - (IF current.blocking THEN 1 ELSE 0)
  /\ worker' = IF stopping THEN "gone" ELSE "wake"
  /\ UNCHANGED <<queue, queueHead, queueCount, stopping, window, uiBlocked,
                 closing, digestVars, loads, disk, tableVars>>

(* A condition variable may wake for no reason.                             *)
Spurious ==
  /\ \/ worker = "asleep" /\ worker' = "wake"
     \/ worker = "full" /\ worker' = "room"
  /\ UNCHANGED <<queueVars, newsVars, taskVars, stopping, window, uiBlocked,
                 closing, digestVars, loads, disk, tableVars>>

(***************************************************************************)
(* The window, one frame after another: it may have to close, it acts on   *)
(* the news, takes a newer catalogue up in a lull, reads how the worker    *)
(* stands, lets the timers go off, and draws, which takes one input.       *)
(***************************************************************************)
workerVars == <<taskVars, loads>>

(* A window that is not iconified draws a frame.                            *)
Frame ==
  /\ window = "poll" /\ ~closing
  /\ window' = "news"
  /\ UNCHANGED <<queueVars, newsVars, workerVars, stopping, worker, uiBlocked,
                 closing, digestVars, disk, tableVars>>

(* The system closes the window, which the loop learns of from its events;  *)
(* an iconified one goes round without the frame that is otherwise left.    *)
CloseWindow ==
  /\ window = "poll" /\ ~closing
  /\ closing' = TRUE /\ window' \in {"poll", "news"}
  /\ UNCHANGED <<queueVars, newsVars, workerVars, stopping, worker, uiBlocked,
                 digestVars, disk, tableVars>>

EndLoop ==
  /\ window = "poll" /\ closing
  /\ window' = "stop"
  /\ UNCHANGED <<queueVars, newsVars, workerVars, stopping, worker, uiBlocked,
                 closing, digestVars, disk, tableVars>>

(* refresh_rows: which tab the table shows as installed, or none when the   *)
(* state file cannot be read.                                               *)
Shown == {disk, None}

(* Whether news asks for the table to be worked out again.                  *)
Rows(item) ==
  \/ item.task.action \in OnATab
  \/ item.task.action = "update" /\ item.fresh = 0

(* A replacement may name a tab that a newer catalogue no longer has.       *)
NotFound(item) == item.task.action = "replace"

(* next_news and what take_news does with it.                               *)
TakeNews ==
  /\ window = "news" /\ newsCount > 0
  /\ LET item == news[newsHead] IN
     /\ opening' = CASE item.what = "told" -> "result"
                     [] item.what = "ask"  -> "update"
                     [] OTHER              -> opening
     /\ fresh' = IF item.fresh # 0 THEN item.fresh ELSE fresh
     /\ \/ Rows(item) /\ installedCode' \in Shown
        \/ (~Rows(item) \/ NotFound(item)) /\ UNCHANGED installedCode
     /\ closing' = (closing \/ item.what = "quit")
     /\ window' = IF item.what = "upgrade" THEN "upgrade" ELSE "news"
  /\ news' = [news EXCEPT ![newsHead] = None]
  /\ newsHead' = (newsHead + 1) % NewsMax
  /\ newsCount' = newsCount - 1
  /\ worker' = IF worker = "full" THEN "room" ELSE worker
  /\ UNCHANGED <<queueVars, workerVars, stopping, uiBlocked, digest, disk,
                 dialog, question, habit>>

NoNews ==
  /\ window = "news" /\ newsCount = 0 /\ window' = "digest"
  /\ UNCHANGED <<queueVars, newsVars, workerVars, stopping, worker, uiBlocked,
                 closing, digestVars, disk, tableVars>>

AskUpgrade ==
  /\ window = "upgrade" /\ window' = "news"
  /\ Request("upgrade", None, FALSE)
  /\ UNCHANGED <<newsVars, workerVars, stopping, uiBlocked, closing,
                 digestVars, disk, tableVars>>

(* Slip: the queue is empty, but the task taken from it is still going on.  *)
SeeLullQueued ==
  /\ window = "digest"
  /\ window' = IF fresh # 0 /\ queueCount = 0 THEN "swap" ELSE "state"
  /\ UNCHANGED <<queueVars, newsVars, workerVars, stopping, worker, uiBlocked,
                 closing, digestVars, disk, tableVars>>

(* take_digest: the look at the queue, which gives the lock back, and the   *)
(* swap.                                                                    *)
SeeLull ==
  /\ window = "digest"
  /\ window' = IF fresh # 0 /\ ~InFlight THEN "swap" ELSE "state"
  /\ UNCHANGED <<queueVars, newsVars, workerVars, stopping, worker, uiBlocked,
                 closing, digestVars, disk, tableVars>>

SwapDigest ==
  /\ window = "swap" /\ window' = "state"
  /\ digest' = fresh /\ fresh' = 0
  /\ installedCode' \in Shown
  /\ UNCHANGED <<queueVars, newsVars, workerVars, stopping, worker, uiBlocked,
                 closing, disk, dialogVars, habit>>

(* Slip: only the task being done is asked about.                           *)
ReadWorkStateRunning ==
  /\ window = "state" /\ window' = "timers"
  /\ uiBlocked' = (running /\ current.blocking)
  /\ UNCHANGED <<queueVars, newsVars, workerVars, stopping, worker, closing,
                 digestVars, disk, tableVars>>

ReadWorkState ==
  /\ window = "state" /\ window' = "timers"
  /\ uiBlocked' = (blocking > 0)
  /\ UNCHANGED <<queueVars, newsVars, workerVars, stopping, worker, closing,
                 digestVars, disk, tableVars>>

(* REFRESH_SECONDS have passed.                                             *)
RefreshRows ==
  /\ window = "timers" /\ installedCode' \in Shown
  /\ UNCHANGED <<queueVars, newsVars, workerVars, stopping, worker, window,
                 uiBlocked, closing, digestVars, disk, dialogVars, habit>>

(* UPDATE_POLL_SECONDS have passed, and a look is due.                      *)
PollForUpdate ==
  /\ window = "timers" /\ window' = "draw"
  /\ "check" \in habit /\ ~InFlight /\ opening = None /\ dialog = None
  /\ Request("check", None, FALSE)
  /\ UNCHANGED <<newsVars, workerVars, stopping, uiBlocked, closing,
                 digestVars, disk, tableVars>>

NothingDue ==
  /\ window = "timers" /\ window' = "draw"
  /\ UNCHANGED <<queueVars, newsVars, workerVars, stopping, worker, uiBlocked,
                 closing, digestVars, disk, tableVars>>

(***************************************************************************)
(* Drawing: the table, which hears buttons while no dialog is up, and then  *)
(* the dialogs.  One that is to be put up takes the place of the one on     *)
(* screen and is not answered before the next frame.                        *)
(***************************************************************************)
PutUp(asked) ==
  /\ window = "draw" /\ window' = "poll"
  /\ opening' = None
  /\ dialog' = IF asked # None THEN asked ELSE dialog
  /\ UNCHANGED <<newsVars, workerVars, stopping, uiBlocked, closing,
                 digestVars, disk, installedCode, habit>>

(* A frame without input.                                                   *)
Idle ==
  /\ PutUp(opening)
  /\ question' = IF dialog' = "confirm" THEN question ELSE None
  /\ UNCHANGED <<queueVars, worker>>

(* A row's button: what it offers is what the table shows.  Whether the tab *)
(* is downloaded is left open.                                              *)
ClickRow(tab) ==
  /\ ~uiBlocked /\ dialog = None
  /\ \/ /\ installedCode = tab /\ "uninstall" \in habit
        /\ Request("uninstall", tab, TRUE)
        /\ PutUp(opening) /\ UNCHANGED question
     \/ /\ installedCode # tab /\ "download" \in habit
        /\ Request("download", tab, FALSE)
        /\ PutUp(opening) /\ UNCHANGED question
     \/ /\ installedCode = None /\ "install" \in habit
        /\ Request("install", tab, TRUE)
        /\ PutUp(opening) /\ UNCHANGED question
     \/ /\ installedCode \notin {None, tab} /\ "replace" \in habit
        /\ PutUp("confirm")
        /\ question' = [code |-> tab, other |-> installedCode]
        /\ UNCHANGED <<queueVars, worker>>

(* The corner's buttons.                                                    *)
ClickCorner ==
  /\ ~uiBlocked /\ dialog = None
  /\ \E action \in {"update", "check_asked", "upgrade"} \cap habit :
       Request(action, None, FALSE)
  /\ PutUp(opening) /\ UNCHANGED question

AnswerDialog ==
  /\ window = "draw" /\ window' = "poll"
  /\ ~uiBlocked /\ opening = None /\ dialog # None
  /\ dialog' = None /\ question' = None
  /\ \/ dialog = "confirm" /\ Request("replace", question.code, TRUE)
     \/ dialog = "update"  /\ Request("upgrade", None, FALSE)
     \/ UNCHANGED <<queueVars, worker>>
  /\ UNCHANGED <<newsVars, workerVars, stopping, uiBlocked, closing,
                 digestVars, disk, installedCode, opening, habit>>

(* Slip: a worker that waits for room is not woken.                         *)
StopUnheard ==
  /\ window = "stop" /\ window' = "join"
  /\ stopping' = TRUE
  /\ worker' = IF worker = "asleep" THEN "wake" ELSE worker
  /\ UNCHANGED <<queueVars, newsVars, workerVars, uiBlocked, closing,
                 digestVars, disk, tableVars>>

(* The loop is over: the worker is told, woken and waited for.              *)
Stop ==
  /\ window = "stop" /\ window' = "join"
  /\ stopping' = TRUE
  /\ worker' = CASE worker = "asleep" -> "wake"
                 [] worker = "full"   -> "room"
                 [] OTHER             -> worker
  /\ UNCHANGED <<queueVars, newsVars, workerVars, uiBlocked, closing,
                 digestVars, disk, tableVars>>

Join ==
  /\ window = "join" /\ worker = "gone"
  /\ window' = "over"
  /\ UNCHANGED <<queueVars, newsVars, workerVars, stopping, worker, uiBlocked,
                 closing, digestVars, disk, tableVars>>

(***************************************************************************)
(* Around them a command in a terminal puts a tab in or takes it out.       *)
(***************************************************************************)
Terminal ==
  /\ "terminal" \in habit
  /\ disk' \in IF disk = None THEN Tabs ELSE {None}
  /\ window # "over"
  /\ UNCHANGED <<queueVars, newsVars, workerVars, stopping, worker, window,
                 uiBlocked, closing, digestVars, tableVars>>

Over == window = "over" /\ UNCHANGED vars

WorkerNext ==
  \/ Sleep \/ StandDown \/ Take
  \/ Look \/ Upgrade \/ Update \/ Download
  \/ RunInstall \/ RunUninstall \/ Replace
  \/ WaitForRoom \/ Leave

LoopNext ==
  \/ EndLoop \/ TakeNews \/ NoNews \/ AskUpgrade
  \/ SeeLull \/ SwapDigest \/ ReadWorkState
  \/ PollForUpdate \/ NothingDue
  \/ Idle \/ (\E tab \in Tabs : ClickRow(tab)) \/ ClickCorner \/ AnswerDialog
  \/ Stop \/ Join

Next ==
  \/ WorkerNext \/ LoopNext
  \/ Frame \/ CloseWindow \/ RefreshRows \/ Spurious \/ Terminal
  \/ Over

Spec == Init /\ [][Next]_vars

(* Both threads run on: a task ends, as every transfer in it times out, and *)
(* the loop never waits for the worker before its end.  That a frame is     *)
(* ever drawn is not assumed: an iconified window draws none.               *)
FairSpec == Spec /\ WF_vars(WorkerNext) /\ WF_vars(LoopNext)

(***************************************************************************)
(* Properties.                                                             *)
(***************************************************************************)
(* Every variable stays in its range, a ring never holds more than it has   *)
(* room for, and the worker has a task exactly while it is at one.          *)
WorkerTypeOK ==
  /\ queue \in [0..QueueMax - 1 -> Items \cup {None}]
  /\ queueHead \in 0..QueueMax - 1 /\ queueCount \in 0..QueueMax
  /\ news \in [0..NewsMax - 1 -> News \cup {None}]
  /\ newsHead \in 0..NewsMax - 1 /\ newsCount \in 0..NewsMax
  /\ running \in BOOLEAN /\ stopping \in BOOLEAN /\ blocking \in Int
  /\ current \in Items \cup {None} /\ left \in News \cup {None}
  /\ held \in 0..MaxLoads \cup {None}
  /\ worker \in {"wake", "asleep", "work", "again", "room", "full", "gone"}
  /\ running <=> worker \in {"work", "again", "room", "full"}
  /\ running <=> current # None
  /\ window \in {"poll", "news", "upgrade", "digest", "swap", "state",
                  "timers", "draw", "stop", "join", "over"}
  /\ uiBlocked \in BOOLEAN /\ closing \in BOOLEAN
  /\ digest \in 0..MaxLoads /\ fresh \in 0..MaxLoads /\ loads \in 0..MaxLoads
  /\ disk \in Tabs \cup {None} /\ installedCode \in Tabs \cup {None}
  /\ opening \in {"update", "result", None}
  /\ dialog \in Dialogs \cup {None} /\ question \in Questions \cup {None}
  /\ habit \in Habits

(* README, "The worker": tasks are taken one at a time, in the order they   *)
(* were asked for; a second click asks for nothing; each is answered once;  *)
(* one begun when the window closes is finished.  The two rings and the two *)
(* threads are TaskLine's one line.                                         *)
Task(item) == [action |-> item.action, code |-> item.code]
Tasks      == [action: OnATab \cup General, code: Tabs \cup {None}]

Doing   == IF running THEN <<Task(current)>> ELSE <<>>
Waiting == [i \in 1..queueCount |-> Task(Queued[i])]

Line == INSTANCE TaskLine WITH
  Places  <- QueueMax + 1,
  Answers <- NewsMax,
  line    <- IF stopping THEN Doing ELSE Doing \o Waiting,
  answers <- IF stopping THEN <<>>
             ELSE [i \in 1..newsCount |-> Task(Unread[i].task)],
  open    <- ~stopping

Serves == Line!Spec

(* "A task holds pointers into the catalogue for as long as it runs, so the *)
(* swap cannot happen under it": the one a task reads is the one on screen, *)
(* which is not freed.                                                      *)
CatalogueStands == held # None => held = digest

(* "Work that blocks stops the window taking anything in until it is done": *)
(* no button is heard while a blocking task is being done or waits, so that *)
(* two calls that change the game are never in line together.               *)
Blocks ==
  \/ running /\ current.blocking
  \/ \E i \in 1..queueCount : Queued[i].blocking

Heard ==
  /\ window = "draw"
  /\ \/ queueCount' > queueCount
     \/ dialog # None /\ dialog' = None
     \/ dialog # "confirm" /\ dialog' = "confirm"

NothingHeardUnder == [][Heard => ~Blocks]_vars

(* No wake-up is lost: as long as the window goes on drawing, what is       *)
(* queued is taken, and what is taken is done, or the window closes.        *)
LineMoves ==
  []<>(window # "poll") =>
    /\ queueCount > 0 ~> running \/ stopping
    /\ running ~> ~running

(* A window that is to close is gone in the end, drawn or iconified and     *)
(* wherever the worker is: it is woken from either wait, and finishes what  *)
(* it is in the middle of.                                                  *)
ShutsDown == closing ~> window = "over"

(* The comment at ACT_REPLACE: which tab is taken out was settled when the  *)
(* question was asked.  A replacement takes out the tab its question named, *)
(* or none.                                                                 *)
ReplacesAsAsked ==
  [][dialog = "confirm" /\ window = "draw" /\ queueCount' > queueCount =>
       queue'[(queueHead + queueCount) % QueueMax].other
         \in {question.other, None}]_vars
=============================================================================
