---------------------------- MODULE WorkerProofs ----------------------------
(***************************************************************************)
(* Theorems about Worker, for queues of any size and any tabs: its types,  *)
(* that no task loses the catalogue it reads, that no button is heard      *)
(* while a blocking task is in line, and that it implements TaskLine.      *)
(***************************************************************************)
EXTENDS Worker, SequenceTheorems, TLAPS

(* A place of a ring of `m` slots, less than a turn from where it starts.   *)
LEMMA OneTurn ==
  ASSUME NEW m \in Nat \ {0}, NEW k \in 0 .. 2 * m - 1
  PROVE  k % m = IF k < m THEN k ELSE k - m
<1>1. CASE k < m
  <2>1. k \in 0 .. m - 1
    BY <1>1
  <2> QED
    BY <1>1, <2>1
<1>2. CASE k >= m
  <2>1. k \in m .. 2 * m - 1
    BY <1>2
  <2>2. k % m = k - m
    BY <2>1
  <2> QED
    BY <1>2, <2>2
<1> QED
  BY <1>1, <1>2

(* Two places less than a turn apart are not the same.                      *)
LEMMA Apart ==
  ASSUME NEW m \in Nat \ {0}, NEW head \in 0 .. m - 1,
         NEW i \in 0 .. m - 1, NEW j \in 0 .. m - 1
  PROVE  /\ (head + i) % m \in 0 .. m - 1
         /\ (head + i) % m = (head + j) % m => i = j
<1>1. head + i \in 0 .. 2 * m - 1 /\ head + j \in 0 .. 2 * m - 1
  OBVIOUS
<1> QED
  BY <1>1, OneTurn

(* A ring read from its next place on.                                      *)
LEMMA NextPlace ==
  ASSUME NEW m \in Nat \ {0}, NEW head \in 0 .. m - 1, NEW i \in 0 .. m - 1
  PROVE  /\ (head + 1) % m \in 0 .. m - 1
         /\ i + 1 < m =>
              (((head + 1) % m) + i) % m = (head + (i + 1)) % m
<1>1. PICK k \in 0 .. 2 * m - 1 : k = head + 1
  OBVIOUS
<1>2. k % m = IF k < m THEN k ELSE k - m
  BY OneTurn
<1>3. PICK next \in 0 .. m - 1 : next = (head + 1) % m
  BY <1>1, <1>2
<1>4. ASSUME i + 1 < m
      PROVE  (next + i) % m = (head + (i + 1)) % m
  <2>1. PICK to \in 0 .. 2 * m - 1 : to = head + (i + 1)
    BY <1>4
  <2>2. PICK from \in 0 .. 2 * m - 1 : from = next + i
    OBVIOUS
  <2>3. /\ to % m = IF to < m THEN to ELSE to - m
        /\ from % m = IF from < m THEN from ELSE from - m
    BY OneTurn
  <2>4. from = to \/ (from = to - m /\ to >= m)
    BY <1>1, <1>2, <1>3, <2>1, <2>2
  <2>5. from % m = to % m
    BY <2>3, <2>4
  <2> QED
    BY <2>1, <2>2, <2>5
<1> QED
  BY <1>3, <1>4

(* What a ring holds after something is added at its end.                   *)
LEMMA Added ==
  ASSUME NEW m \in Nat \ {0}, NEW S, NEW ring \in [0..m - 1 -> S],
         NEW head \in 0..m - 1, NEW count \in 0..m, count # m,
         NEW x \in S, NEW ring1,
         ring1 = [ring EXCEPT ![(head + count) % m] = x]
  PROVE  /\ ring1 \in [0..m - 1 -> S]
         /\ ring1[(head + (count + 1) - 1) % m] = x
         /\ \A i \in 1..count :
              ring1[(head + i - 1) % m] = ring[(head + i - 1) % m]
<1>1. (head + count) % m \in 0..m - 1
  BY Apart
<1>2. (head + (count + 1) - 1) % m = (head + count) % m
  OBVIOUS
<1>3. ASSUME NEW i \in 1..count
      PROVE  ring1[(head + i - 1) % m] = ring[(head + i - 1) % m]
  <2>1. PICK j \in 0..m - 1 : j = i - 1 /\ j # count
    OBVIOUS
  <2>2. PICK last \in 0..m - 1 : last = count
    OBVIOUS
  <2>3. (head + j) % m = (head + last) % m => j = last
    BY Apart
  <2>4. (head + j) % m \in 0..m - 1
    BY Apart
  <2>5. (head + i - 1) % m = (head + j) % m
    BY <2>1
  <2> QED
    BY <1>1, <2>1, <2>2, <2>3, <2>4, <2>5
<1> QED
  BY <1>1, <1>2, <1>3

(* And after its first is taken.                                            *)
LEMMA Taken ==
  ASSUME NEW m \in Nat \ {0}, NEW S, NEW ring \in [0..m - 1 -> S],
         NEW head \in 0..m - 1, NEW count \in 1..m,
         NEW x \in S, NEW ring1, NEW head1,
         ring1 = [ring EXCEPT ![head] = x], head1 = (head + 1) % m
  PROVE  /\ ring1 \in [0..m - 1 -> S] /\ head1 \in 0..m - 1
         /\ ring[head] = ring[(head + 1 - 1) % m]
         /\ \A i \in 1..count - 1 :
              ring1[(head1 + i - 1) % m] = ring[(head + (i + 1) - 1) % m]
<1>1. head1 \in 0..m - 1
  BY NextPlace, 0 \in 0..m - 1
<1>2. (head + 1 - 1) % m = head
  OBVIOUS
<1>3. ASSUME NEW i \in 1..count - 1
      PROVE  ring1[(head1 + i - 1) % m] = ring[(head + (i + 1) - 1) % m]
  <2>1. PICK j \in 0..m - 1 : j = i - 1 /\ j + 1 < m
    OBVIOUS
  <2>2. (head1 + j) % m = (head + (j + 1)) % m
    BY <2>1, NextPlace
  <2>3. PICK k \in 0..m - 1, first \in 0..m - 1 : k = i /\ first = 0
    OBVIOUS
  <2>4. /\ (head + k) % m \in 0..m - 1
        /\ (head + k) % m = (head + first) % m => k = first
    BY Apart
  <2>5. /\ (head1 + i - 1) % m = (head1 + j) % m
        /\ (head + (j + 1)) % m = (head + i) % m
        /\ (head + (i + 1) - 1) % m = (head + i) % m
        /\ (head + first) % m = head /\ k = i /\ k # first
    BY <1>1, <2>1, <2>3
  <2> QED
    BY <2>2, <2>3, <2>4, <2>5
<1> QED
  BY <1>1, <1>2, <1>3

(***************************************************************************)
(* The inductive invariant.                                                *)
(***************************************************************************)
Slot(i) == queue[(queueHead + i - 1) % QueueMax]
Note(i) == news[(newsHead + i - 1) % NewsMax]

(* The queue's places hold tasks, and the ring of news its news.            *)
QueueHolds ==
  /\ queue \in [0..QueueMax - 1 -> Items \cup {None}]
  /\ queueHead \in 0..QueueMax - 1 /\ queueCount \in 0..QueueMax
  /\ \A i \in 1..queueCount : Slot(i) \in Items

NewsHolds ==
  /\ news \in [0..NewsMax - 1 -> News \cup {None}]
  /\ newsHead \in 0..NewsMax - 1 /\ newsCount \in 0..NewsMax
  /\ \A i \in 1..newsCount : Note(i) \in News

(* At most one task in line blocks: the one that is counted.                *)
OneBlocks ==
  /\ blocking \in {0, 1}
  /\ running /\ current.blocking =>
       blocking = 1 /\ \A i \in 1..queueCount : ~Slot(i).blocking
  /\ \A i \in 1..queueCount : Slot(i).blocking =>
       blocking = 1 /\ \A j \in 1..queueCount : Slot(j).blocking => i = j

(* What the two threads know of each other at each point.                   *)
TaskHolds ==
  /\ current \in Items \cup {None} /\ running \in BOOLEAN
  /\ worker \in {"wake", "asleep", "work", "again", "room", "full", "gone"}
  /\ running <=> worker \in {"work", "again", "room", "full"}
  /\ running <=> current # None
  /\ left \in News \cup {None}
  /\ worker \in {"room", "full"} => left # None
  /\ held \in 0..MaxLoads \cup {None}
  /\ held # None => running /\ held = digest

WindowHolds ==
  /\ window \in {"poll", "news", "upgrade", "digest", "swap", "state",
                 "timers", "draw", "stop", "join", "over"}
  /\ window = "swap" => ~InFlight
  /\ window \in {"timers", "draw"} /\ ~uiBlocked => blocking = 0
  /\ uiBlocked \in BOOLEAN /\ closing \in BOOLEAN /\ stopping \in BOOLEAN
  /\ digest \in 0..MaxLoads /\ fresh \in 0..MaxLoads /\ loads \in 0..MaxLoads
  /\ disk \in Tabs \cup {None} /\ installedCode \in Tabs \cup {None}
  /\ opening \in {"update", "result", None}
  /\ dialog \in Dialogs \cup {None} /\ question \in Questions \cup {None}
  /\ dialog = "confirm" => question # None
  /\ habit \in Habits

WorkerInv ==
  QueueHolds /\ NewsHolds /\ OneBlocks /\ TaskHolds /\ WindowHolds

(***************************************************************************)
(* What the steps that touch the queue do to it.                           *)
(***************************************************************************)
(* What a request adds to the queue, if it adds anything.                   *)
LEMMA RequestAdds ==
  ASSUME QueueHolds, NEW action \in OnATab \cup General,
         NEW code \in Tabs \cup {None}, NEW blocks \in BOOLEAN,
         installedCode \in Tabs \cup {None},
         Request(action, code, blocks), ~UNCHANGED <<queueVars, worker>>
  PROVE  /\ ~Duplicate(action, code) /\ queueCount # QueueMax
         /\ queueCount' = queueCount + 1 /\ queueHead' = queueHead
         /\ blocking' = blocking + (IF blocks THEN 1 ELSE 0)
         /\ worker' = IF worker = "asleep" THEN "wake" ELSE worker
         /\ queue' \in [0..QueueMax - 1 -> Items \cup {None}]
         /\ \E item \in Items :
              /\ item.action = action /\ item.code = code /\ item.blocking = blocks
              /\ \A i \in 1..queueCount' :
                   Slot(i)' = IF i = queueCount + 1 THEN item ELSE Slot(i)
<1> USE ConstantsAssumption
<1> DEFINE item == [action |-> action, code |-> code, blocking |-> blocks,
                    other |-> IF action = "replace" THEN installedCode
                                                    ELSE None]
<1>1. /\ ~Duplicate(action, code)
      /\ queueCount # QueueMax /\ queueHead' = queueHead
      /\ queue' = [queue EXCEPT ![(queueHead + queueCount) % QueueMax] = item]
      /\ queueCount' = queueCount + 1
      /\ blocking' = blocking + (IF blocks THEN 1 ELSE 0)
      /\ worker' = IF worker = "asleep" THEN "wake" ELSE worker
  BY DEF Request, Wake
<1>2. /\ item \in Items /\ item.blocking = blocks
      /\ item.action = action /\ item.code = code
  BY DEF Items
<1>3. /\ queue' \in [0..QueueMax - 1 -> Items \cup {None}]
      /\ queue'[(queueHead + (queueCount + 1) - 1) % QueueMax] = item
      /\ \A i \in 1..queueCount :
           queue'[(queueHead + i - 1) % QueueMax] = Slot(i)
  <2> HIDE DEF item
  <2> QED
    BY <1>1, <1>2, Added DEF QueueHolds, Slot
<1> HIDE DEF item
<1>4. \A i \in 1..queueCount' :
        Slot(i)' = IF i = queueCount + 1 THEN item ELSE Slot(i)
  BY <1>1, <1>3 DEF QueueHolds, Slot
<1> QED
  BY <1>1, <1>2, <1>3, <1>4

(* A request that blocks is only made when none in line does.               *)
LEMMA RequestKeeps ==
  ASSUME QueueHolds, OneBlocks, TaskHolds,
         NEW action \in OnATab \cup General, NEW code \in Tabs \cup {None},
         NEW blocks \in BOOLEAN, blocks => blocking = 0,
         installedCode \in Tabs \cup {None},
         Request(action, code, blocks), UNCHANGED <<current, running>>
  PROVE  /\ QueueHolds' /\ OneBlocks'
         /\ ~blocks => blocking' = blocking
         /\ \/ worker' = worker
            \/ worker = "asleep" /\ worker' = "wake"
<1> USE ConstantsAssumption
<1>1. CASE UNCHANGED <<queueVars, worker>>
  BY <1>1 DEF queueVars, QueueHolds, OneBlocks, Slot
<1>2. CASE ~UNCHANGED <<queueVars, worker>>
  <2>1. /\ queueCount # QueueMax /\ queueHead' = queueHead
        /\ queueCount' = queueCount + 1
        /\ blocking' = blocking + (IF blocks THEN 1 ELSE 0)
        /\ worker' = IF worker = "asleep" THEN "wake" ELSE worker
        /\ queue' \in [0..QueueMax - 1 -> Items \cup {None}]
    BY <1>2, RequestAdds
  <2>2. PICK item \in Items :
          /\ item.blocking = blocks
          /\ \A i \in 1..queueCount' :
               Slot(i)' = IF i = queueCount + 1 THEN item ELSE Slot(i)
    BY <1>2, RequestAdds
  <2>3. QueueHolds'
    BY <2>1, <2>2 DEF QueueHolds
  <2>4. OneBlocks'
    BY <2>1, <2>2 DEF QueueHolds, OneBlocks
  <2>5. ~blocks => blocking' = blocking
    BY <2>1 DEF OneBlocks
  <2> QED
    BY <2>1, <2>3, <2>4, <2>5
<1> QED
  BY <1>1, <1>2 DEF queueVars

(* The worker takes the first task, and the others move up.                 *)
LEMMA TakeMoves ==
  ASSUME QueueHolds, TaskHolds, Take
  PROVE  /\ ~running /\ running' /\ blocking' = blocking
         /\ queueCount \in 1..QueueMax /\ queueCount' = queueCount - 1
         /\ queue' \in [0..QueueMax - 1 -> Items \cup {None}]
         /\ queueHead' \in 0..QueueMax - 1
         /\ current' = Slot(1) /\ \A i \in 1..queueCount' : Slot(i)' = Slot(i + 1)
<1> USE ConstantsAssumption
<1>0. ~running /\ current' = queue[queueHead] /\ running' /\ blocking' = blocking
  BY DEF Take, TaskHolds
<1>1. /\ queueCount \in 1..QueueMax
      /\ queue' = [queue EXCEPT ![queueHead] = None]
      /\ queueHead' = (queueHead + 1) % QueueMax
      /\ queueCount' = queueCount - 1
  BY DEF Take, QueueHolds
<1>2. /\ queue' \in [0..QueueMax - 1 -> Items \cup {None}]
      /\ queueHead' \in 0..QueueMax - 1
      /\ queue[queueHead] = queue[(queueHead + 1 - 1) % QueueMax]
      /\ \A i \in 1..queueCount - 1 :
           queue'[(queueHead' + i - 1) % QueueMax]
             = queue[(queueHead + (i + 1) - 1) % QueueMax]
  <2>1. /\ queue \in [0..QueueMax - 1 -> Items \cup {None}]
        /\ queueHead \in 0..QueueMax - 1 /\ None \in Items \cup {None}
    BY DEF QueueHolds
  <2> QED
    BY <1>1, <2>1, Taken
<1>3. current' = Slot(1) /\ \A i \in 1..queueCount' : Slot(i)' = Slot(i + 1)
  BY <1>0, <1>1, <1>2 DEF Slot
<1> QED
  BY <1>0, <1>1, <1>2, <1>3

(* One fewer in the queue, one more in hand.                                *)
LEMMA TakeKeeps ==
  ASSUME QueueHolds, OneBlocks, TaskHolds, Take
  PROVE  QueueHolds' /\ OneBlocks' /\ current' \in Items /\ blocking' = blocking
<1> USE ConstantsAssumption
<1>0. ~running /\ running' /\ blocking' = blocking
  BY TakeMoves
<1>1. queueCount \in 1..QueueMax /\ queueCount' = queueCount - 1
  BY TakeMoves
<1>2. /\ queue' \in [0..QueueMax - 1 -> Items \cup {None}]
      /\ queueHead' \in 0..QueueMax - 1
  BY TakeMoves
<1>3. current' = Slot(1) /\ \A i \in 1..queueCount' : Slot(i)' = Slot(i + 1)
  BY TakeMoves
<1>4. 1 \in 1..queueCount /\ \A i \in 1..queueCount' : i + 1 \in 1..queueCount
  BY <1>1
<1>5. QueueHolds'
  BY <1>1, <1>2, <1>3, <1>4 DEF QueueHolds
<1>6. OneBlocks'
  <2>1. blocking' \in {0, 1}
    BY <1>0 DEF OneBlocks
  <2>2. ASSUME current'.blocking
        PROVE  blocking' = 1 /\ \A i \in 1..queueCount' : ~Slot(i)'.blocking
    <3>1. \A i \in 1..queueCount' : i + 1 # 1
      BY <1>1
    <3> QED
      BY <2>2, <3>1, <1>0, <1>1, <1>3, <1>4 DEF OneBlocks
  <2>3. ASSUME NEW i \in 1..queueCount', Slot(i)'.blocking
        PROVE  /\ blocking' = 1
               /\ \A j \in 1..queueCount' : Slot(j)'.blocking => i = j
    <3>1. \A j \in 1..queueCount' : i + 1 = j + 1 => i = j
      BY <1>1
    <3> QED
      BY <2>3, <3>1, <1>0, <1>1, <1>3, <1>4 DEF OneBlocks
  <2> QED
    BY <2>1, <2>2, <2>3 DEF OneBlocks
<1> QED
  BY <1>0, <1>1, <1>3, <1>4, <1>5, <1>6 DEF QueueHolds

(* What the worker leaves is added to the news.                             *)
LEMMA LeaveAdds ==
  ASSUME NewsHolds, Leave, ~stopping, left \in News
  PROVE  /\ newsCount # NewsMax /\ newsCount' = newsCount + 1
         /\ newsHead' = newsHead
         /\ news' \in [0..NewsMax - 1 -> News \cup {None}]
         /\ \A i \in 1..newsCount' :
              Note(i)' = IF i = newsCount + 1 THEN left ELSE Note(i)
<1> USE ConstantsAssumption
<1>1. /\ newsCount # NewsMax /\ newsHead' = newsHead
      /\ news' = [news EXCEPT ![(newsHead + newsCount) % NewsMax] = left]
      /\ newsCount' = newsCount + 1
  BY DEF Leave, NewsHolds
<1>2. /\ news' \in [0..NewsMax - 1 -> News \cup {None}]
      /\ news'[(newsHead + (newsCount + 1) - 1) % NewsMax] = left
      /\ \A i \in 1..newsCount :
           news'[(newsHead + i - 1) % NewsMax] = Note(i)
  BY <1>1, Added DEF NewsHolds, Note
<1>3. \A i \in 1..newsCount' :
        Note(i)' = IF i = newsCount + 1 THEN left ELSE Note(i)
  BY <1>1, <1>2 DEF NewsHolds, Note
<1> QED
  BY <1>1, <1>2, <1>3

(* The worker is done with a task: it says so, or has nothing to say.       *)
LEMMA LeaveKeeps ==
  ASSUME QueueHolds, NewsHolds, OneBlocks, TaskHolds, Leave
  PROVE  QueueHolds' /\ NewsHolds' /\ OneBlocks'
<1> USE ConstantsAssumption
<1>1. /\ UNCHANGED <<queue, queueHead, queueCount>>
      /\ running /\ running' = FALSE
      /\ blocking' = blocking - (IF current.blocking THEN 1 ELSE 0)
      /\ left \in News
  BY DEF Leave, TaskHolds
<1>2. QueueHolds'
  BY <1>1 DEF QueueHolds, Slot
<1>3. OneBlocks'
  <2>1. \A i \in 1..queueCount' : Slot(i)' = Slot(i) /\ i \in 1..queueCount
    BY <1>1 DEF Slot
  <2>2. CASE current.blocking
    BY <1>1, <2>1, <2>2 DEF OneBlocks
  <2>3. CASE ~current.blocking
    BY <1>1, <2>1, <2>3 DEF OneBlocks
  <2> QED
    BY <2>2, <2>3
<1>4. NewsHolds'
  <2>1. CASE stopping
    BY <2>1 DEF Leave, newsVars, NewsHolds, Note
  <2>2. CASE ~stopping
    BY <1>1, <2>2, LeaveAdds DEF NewsHolds
  <2> QED
    BY <2>1, <2>2
<1> QED
  BY <1>2, <1>3, <1>4

(* The window takes the first piece of news, and the others move up.        *)
LEMMA TakeNewsMoves ==
  ASSUME NewsHolds, TakeNews
  PROVE  /\ newsCount \in 1..NewsMax /\ newsCount' = newsCount - 1
         /\ news' \in [0..NewsMax - 1 -> News \cup {None}]
         /\ newsHead' \in 0..NewsMax - 1
         /\ news[newsHead] = Note(1)
         /\ \A i \in 1..newsCount' : Note(i)' = Note(i + 1)
<1> USE ConstantsAssumption
<1>1. /\ newsCount \in 1..NewsMax
      /\ news' = [news EXCEPT ![newsHead] = None]
      /\ newsHead' = (newsHead + 1) % NewsMax
      /\ newsCount' = newsCount - 1
  BY DEF TakeNews, NewsHolds
<1>2. /\ news' \in [0..NewsMax - 1 -> News \cup {None}]
      /\ newsHead' \in 0..NewsMax - 1
      /\ news[newsHead] = news[(newsHead + 1 - 1) % NewsMax]
      /\ \A i \in 1..newsCount - 1 :
           news'[(newsHead' + i - 1) % NewsMax]
             = news[(newsHead + (i + 1) - 1) % NewsMax]
  <2>1. /\ news \in [0..NewsMax - 1 -> News \cup {None}]
        /\ newsHead \in 0..NewsMax - 1 /\ None \in News \cup {None}
    BY DEF NewsHolds
  <2> QED
    BY <1>1, <2>1, Taken
<1>3. news[newsHead] = Note(1) /\ \A i \in 1..newsCount' : Note(i)' = Note(i + 1)
  BY <1>1, <1>2 DEF Note
<1> QED
  BY <1>1, <1>2, <1>3

(* What is left of the news is news still.                                 *)
LEMMA TakeNewsKeeps ==
  ASSUME NewsHolds, TakeNews
  PROVE  NewsHolds' /\ news[newsHead] \in News
<1> USE ConstantsAssumption
<1>1. 1 \in 1..newsCount /\ \A i \in 1..newsCount' : i + 1 \in 1..newsCount
  BY TakeNewsMoves
<1> QED
  BY <1>1, TakeNewsMoves DEF NewsHolds

(* The queue stands where nothing is put in or taken out.                   *)
LEMMA QueueStands ==
  ASSUME QueueHolds, OneBlocks, UNCHANGED <<queueVars, current, running>>
  PROVE  QueueHolds' /\ OneBlocks'
BY DEF queueVars, QueueHolds, OneBlocks, Slot

(* So does the news.                                                        *)
LEMMA NewsStands ==
  ASSUME NewsHolds, UNCHANGED newsVars
  PROVE  NewsHolds'
BY DEF newsVars, NewsHolds, Note

(* A task about to be done: what is put in the ring is news.                *)
LEMMA ReportKeeps ==
  ASSUME WorkerInv, worker \in {"work", "again"},
         NEW what \in {"told", "silent", "ask", "upgrade", "quit"},
         NEW catalogue \in 0..MaxLoads, Report(what, catalogue),
         loads' \in 0..MaxLoads, disk' \in Tabs \cup {None}
  PROVE  WorkerInv'
<1> USE ConstantsAssumption, NoneAssumption
<1>1. /\ worker' = "room"
      /\ UNCHANGED <<queueVars, newsVars, current, running, held, stopping,
                     window, uiBlocked, closing, digestVars, tableVars>>
      /\ current \in Items
  BY DEF Report, WorkerInv, TaskHolds
<1>2. left' \in News
  BY <1>1 DEF Report, News
<1>3. QueueHolds' /\ OneBlocks' /\ NewsHolds'
  BY <1>1, QueueStands, NewsStands DEF WorkerInv
<1>4. TaskHolds'
  BY <1>1, <1>2 DEF WorkerInv, TaskHolds, digestVars
<1>5. WindowHolds'
  BY <1>1 DEF WorkerInv, WindowHolds, InFlight, queueVars, digestVars, tableVars
<1> QED
  BY <1>3, <1>4, <1>5 DEF WorkerInv

(* What every other step of the worker leaves alone.                        *)
LEMMA WorkerKeeps ==
  ASSUME WorkerInv, WorkerNext
  PROVE  WorkerInv'
<1> USE ConstantsAssumption, NoneAssumption
<1>1. ASSUME UNCHANGED <<queueVars, newsVars, taskVars, stopping, window,
                         uiBlocked, closing, digestVars, loads, tableVars>>,
             disk' \in Tabs \cup {None},
             \/ worker \in {"wake", "asleep"} /\ worker' \in {"asleep", "gone"}
             \/ worker = "room" /\ worker' = "full"
             \/ worker = "work" /\ worker' = "again"
      PROVE  WorkerInv'
  <2>1. QueueHolds' /\ OneBlocks' /\ NewsHolds'
    BY <1>1, QueueStands, NewsStands DEF WorkerInv, taskVars
  <2>2. TaskHolds'
    BY <1>1 DEF WorkerInv, TaskHolds, taskVars, digestVars
  <2>3. WindowHolds'
    BY <1>1 DEF WorkerInv, WindowHolds, InFlight, taskVars, queueVars,
                digestVars, tableVars
  <2> QED
    BY <2>1, <2>2, <2>3 DEF WorkerInv
<1>2. /\ loads \in 0..MaxLoads /\ disk \in Tabs \cup {None}
      /\ 0 \in 0..MaxLoads
  BY DEF WorkerInv, WindowHolds
<1>3. worker \in {"work", "again"} => current.code \in Tabs \cup {None}
  BY DEF WorkerInv, TaskHolds, Items
<1>4. CASE Sleep
  BY <1>1, <1>2, <1>4 DEF Sleep
<1>5. CASE StandDown
  BY <1>1, <1>2, <1>5 DEF StandDown
<1>6. CASE Take
  <2>1. /\ QueueHolds' /\ OneBlocks' /\ NewsHolds' /\ current' \in Items
        /\ blocking' = blocking
    BY <1>6, TakeKeeps, NewsStands DEF WorkerInv, Take
  <2>2. TaskHolds'
    BY <1>6, <2>1 DEF Take, WorkerInv, TaskHolds, WindowHolds, digestVars
  <2>3. WindowHolds'
    BY <1>6, <2>1 DEF Take, WorkerInv, WindowHolds, InFlight, digestVars,
                      tableVars
  <2> QED
    BY <2>1, <2>2, <2>3 DEF WorkerInv
<1>7. CASE Look
  BY <1>2, <1>7, ReportKeeps DEF Look
<1>8. CASE Upgrade
  <2>1. PICK what \in {"told", "quit"} : Report(what, 0)
    BY <1>8 DEF Upgrade
  <2> QED
    BY <1>2, <1>8, <2>1, ReportKeeps DEF Upgrade
<1>9. CASE Update
  <2>1. CASE Report("told", 0) /\ UNCHANGED loads
    BY <1>2, <1>9, <2>1, ReportKeeps DEF Update
  <2>2. CASE loads < MaxLoads /\ loads' = loads + 1 /\ Report("told", loads + 1)
    <3>1. loads + 1 \in 0..MaxLoads
      BY <1>2, <2>2
    <3> QED
      BY <1>2, <1>9, <2>2, <3>1, ReportKeeps DEF Update
  <2> QED
    BY <1>9, <2>1, <2>2 DEF Update
<1>10. CASE Download
  BY <1>2, <1>10, ReportKeeps DEF Download
<1>11. CASE RunInstall
  <2>1. disk' \in Tabs \cup {None}
    BY <1>2, <1>3, <1>11 DEF RunInstall
  <2> QED
    BY <1>2, <1>11, <2>1, ReportKeeps DEF RunInstall
<1>12. CASE RunUninstall
  <2>1. disk' \in Tabs \cup {None}
    BY <1>2, <1>12 DEF RunUninstall
  <2> QED
    BY <1>2, <1>12, <2>1, ReportKeeps DEF RunUninstall
<1>13. CASE Replace
  <2>1. CASE Report("told", 0) /\ UNCHANGED disk
    BY <1>2, <1>13, <2>1, ReportKeeps DEF Replace
  <2>2. CASE ~(Report("told", 0) /\ UNCHANGED disk)
    BY <1>1, <1>2, <1>13, <2>2 DEF Replace
  <2> QED
    BY <2>1, <2>2
<1>14. CASE WaitForRoom
  BY <1>1, <1>2, <1>14 DEF WaitForRoom
<1>15. CASE Leave
  <2>1. QueueHolds' /\ NewsHolds' /\ OneBlocks'
    BY <1>15, LeaveKeeps DEF WorkerInv
  <2>2. TaskHolds'
    BY <1>15 DEF Leave, WorkerInv, TaskHolds
  <2>3. blocking = 0 => blocking' = 0
    <3>1. /\ running /\ blocking' = blocking - (IF current.blocking THEN 1 ELSE 0)
          /\ running /\ current.blocking => blocking = 1
          /\ blocking \in {0, 1}
      BY <1>15 DEF Leave, WorkerInv, OneBlocks, TaskHolds
    <3>2. CASE current.blocking
      BY <3>1, <3>2
    <3>3. CASE ~current.blocking
      <4>1. blocking' = blocking - 0
        BY <3>1, <3>3, Zenon
      <4> QED
        BY <3>1, <4>1
    <3> QED
      BY <3>2, <3>3
  <2>4. WindowHolds'
    BY <1>15, <2>3 DEF Leave, WorkerInv, WindowHolds, InFlight, TaskHolds,
                       digestVars, tableVars
  <2> QED
    BY <2>1, <2>2, <2>4 DEF WorkerInv
<1> QED
  BY <1>4, <1>5, <1>6, <1>7, <1>8, <1>9, <1>10, <1>11, <1>12, <1>13, <1>14,
     <1>15 DEF WorkerNext

(***************************************************************************)
(* The window's steps.                                                     *)
(***************************************************************************)
(* A request made in a frame that hears buttons, or one that blocks nothing. *)
LEMMA AskingKeeps ==
  ASSUME WorkerInv, NEW action \in OnATab \cup General,
         NEW code \in Tabs \cup {None}, NEW blocks \in BOOLEAN,
         blocks => blocking = 0, Request(action, code, blocks),
         UNCHANGED <<newsVars, workerVars, stopping, uiBlocked, closing,
                     digestVars, disk, installedCode, habit>>,
         opening' \in {"update", "result", None},
         dialog' \in Dialogs \cup {None}, question' \in Questions \cup {None},
         dialog' = "confirm" => question' # None,
         \/ window = "upgrade" /\ window' = "news" /\ ~blocks
         \/ window = "timers" /\ window' = "draw" /\ ~blocks
         \/ window = "draw" /\ window' = "poll"
  PROVE  WorkerInv'
<1>1. /\ QueueHolds' /\ OneBlocks'
      /\ ~blocks => blocking' = blocking
      /\ worker' = worker \/ (worker = "asleep" /\ worker' = "wake")
  BY RequestKeeps DEF WorkerInv, WindowHolds, workerVars, taskVars
<1>2. NewsHolds'
  BY NewsStands DEF WorkerInv
<1>3. TaskHolds'
  BY <1>1 DEF WorkerInv, TaskHolds, workerVars, taskVars, digestVars
<1>4. WindowHolds'
  BY <1>1 DEF WorkerInv, WindowHolds, workerVars, taskVars, digestVars
<1> QED
  BY <1>1, <1>2, <1>3, <1>4 DEF WorkerInv

(* A step that leaves the queue, the news and the tasks alone, but for      *)
(* waking the worker.                                                       *)
LEMMA QuietKeeps ==
  ASSUME WorkerInv, WindowHolds',
         UNCHANGED <<queueVars, newsVars, taskVars>>,
         \/ worker' = worker
         \/ worker = "asleep" /\ worker' = "wake"
         \/ worker = "full" /\ worker' = "room",
         digest' = digest \/ ~InFlight
  PROVE  WorkerInv'
<1>1. QueueHolds' /\ OneBlocks' /\ NewsHolds'
  BY QueueStands, NewsStands DEF WorkerInv, taskVars
<1>2. TaskHolds'
  BY DEF WorkerInv, TaskHolds, taskVars, InFlight, WindowHolds
<1> QED
  BY <1>1, <1>2 DEF WorkerInv

(* A step of the window keeps what relates it to the worker.                *)
LEMMA WindowKeeps ==
  ASSUME WorkerInv, LoopNext
  PROVE  WorkerInv'
<1> USE ConstantsAssumption, NoneAssumption
<1>1. WindowHolds /\ None \in Tabs \cup {None}
  BY DEF WorkerInv
<1>2. CASE EndLoop
  BY <1>1, <1>2, QuietKeeps DEF EndLoop, WindowHolds, workerVars, tableVars,
                                digestVars
<1>3. CASE TakeNews
  <2>1. NewsHolds' /\ news[newsHead] \in News
    BY <1>3, TakeNewsKeeps DEF WorkerInv
  <2>2. /\ UNCHANGED <<queueVars, workerVars, stopping, uiBlocked, digest, disk,
                       habit>>
        /\ worker' = IF worker = "full" THEN "room" ELSE worker
    BY <1>3 DEF TakeNews
  <2>3. QueueHolds' /\ OneBlocks'
    BY <2>2, QueueStands DEF WorkerInv, workerVars, taskVars
  <2>4. TaskHolds'
    BY <2>2 DEF WorkerInv, TaskHolds, workerVars, taskVars
  <2>5. /\ opening' \in {opening, "result", "update"}
        /\ UNCHANGED <<dialog, question>>
        /\ fresh' \in 0..MaxLoads
        /\ installedCode' \in {installedCode, disk, None}
        /\ closing' \in BOOLEAN
        /\ window' \in {"news", "upgrade"}
    BY <1>1, <1>3, <2>1 DEF TakeNews, WindowHolds, News, Shown
  <2>6. WindowHolds'
    BY <1>1, <2>2, <2>5 DEF WindowHolds, workerVars, taskVars, Dialogs
  <2> QED
    BY <2>1, <2>3, <2>4, <2>6 DEF WorkerInv
<1>4. CASE NoNews
  BY <1>1, <1>4, QuietKeeps DEF NoNews, WindowHolds, workerVars, tableVars,
                                digestVars
<1>5. CASE AskUpgrade
  BY <1>1, <1>5, AskingKeeps DEF AskUpgrade, WindowHolds, tableVars, General
<1>6. CASE SeeLull
  <2>1. WindowHolds'
    BY <1>1, <1>6 DEF SeeLull, WindowHolds, workerVars, tableVars, digestVars,
                      InFlight, queueVars, taskVars
  <2> QED
    BY <1>6, <2>1, QuietKeeps DEF SeeLull, workerVars, digestVars
<1>7. CASE SwapDigest
  <2>1. WindowHolds'
    BY <1>1, <1>7 DEF SwapDigest, WindowHolds, workerVars, dialogVars, Shown
  <2> QED
    BY <1>1, <1>7, <2>1, QuietKeeps DEF SwapDigest, workerVars, WindowHolds
<1>8. CASE ReadWorkState
  <2>1. blocking \in {0, 1} /\ blocking' = blocking
    BY <1>8 DEF WorkerInv, OneBlocks, ReadWorkState, queueVars
  <2>2. uiBlocked' = (blocking > 0)
    BY <1>8 DEF ReadWorkState
  <2>3. /\ blocking = 0 => (blocking > 0) = FALSE
        /\ blocking = 1 => (blocking > 0) = TRUE
    OBVIOUS
  <2>4. uiBlocked' \in BOOLEAN /\ (~uiBlocked' => blocking' = 0)
    BY <2>1, <2>2, <2>3, Zenon
  <2>5. WindowHolds'
    BY <1>1, <1>8, <2>4 DEF ReadWorkState, WindowHolds, workerVars, tableVars,
                            digestVars
  <2> QED
    BY <1>8, <2>5, QuietKeeps DEF ReadWorkState, workerVars, digestVars
<1>9. CASE PollForUpdate
  BY <1>1, <1>9, AskingKeeps DEF PollForUpdate, WindowHolds, tableVars, General
<1>10. CASE NothingDue
  BY <1>1, <1>10, QuietKeeps DEF NothingDue, WindowHolds, workerVars, tableVars,
                                 digestVars, queueVars
<1>11. CASE Idle
  <2>1. WindowHolds'
    BY <1>1, <1>11 DEF Idle, PutUp, WindowHolds, workerVars, digestVars,
                       queueVars, Dialogs
  <2> QED
    BY <1>11, <2>1, QuietKeeps DEF Idle, PutUp, workerVars, digestVars
<1>12. CASE \E tab \in Tabs : ClickRow(tab)
  <2>1. PICK tab \in Tabs : ClickRow(tab)
    BY <1>12
  <2>2. /\ window = "draw" /\ window' = "poll" /\ blocking = 0
        /\ opening' = None
        /\ UNCHANGED <<newsVars, workerVars, stopping, uiBlocked, closing,
                       digestVars, disk, installedCode, habit>>
    BY <1>1, <2>1 DEF ClickRow, PutUp, WindowHolds
  <2>3. CASE UNCHANGED question
    <3>1. /\ \/ Request("uninstall", tab, TRUE)
             \/ Request("download", tab, FALSE)
             \/ Request("install", tab, TRUE)
             \/ UNCHANGED <<queueVars, worker>>
          /\ dialog' \in Dialogs \cup {None}
          /\ dialog' = "confirm" => question' # None
      <4>1. CASE PutUp(opening)
        BY <1>1, <2>1, <4>1 DEF ClickRow, PutUp, WindowHolds, Dialogs
      <4>2. CASE ~PutUp(opening)
        <5>1. /\ PutUp("confirm") /\ UNCHANGED <<queueVars, worker>>
              /\ installedCode \notin {None, tab}
              /\ question' = [code |-> tab, other |-> installedCode]
          BY <2>1, <4>2 DEF ClickRow
        <5>2. question' \in Questions /\ dialog' = "confirm"
          BY <1>1, <5>1 DEF PutUp, WindowHolds, Questions, Dialogs
        <5> QED
          BY <5>1, <5>2 DEF Dialogs
      <4> QED
        BY <2>1, <4>1, <4>2 DEF ClickRow
    <3>2. CASE UNCHANGED <<queueVars, worker>>
      <4>1. WindowHolds'
        BY <1>1, <2>2, <2>3, <3>1, <3>2 DEF WindowHolds, workerVars, digestVars
      <4> QED
        BY <2>2, <3>2, <4>1, QuietKeeps DEF workerVars, digestVars
    <3> QED
      BY <1>1, <2>2, <2>3, <3>1, <3>2, AskingKeeps
         DEF WindowHolds, OnATab, Game
  <2>4. CASE ~UNCHANGED question
    <3>1. /\ installedCode \in Tabs
          /\ dialog' = "confirm"
          /\ question' = [code |-> tab, other |-> installedCode]
          /\ UNCHANGED <<queueVars, worker>>
      BY <1>1, <2>1, <2>4 DEF ClickRow, PutUp, WindowHolds, Dialogs
    <3>2. question' \in Questions /\ question' # None /\ dialog' \in Dialogs
      BY <3>1 DEF Questions, Dialogs
    <3>3. WindowHolds'
      BY <1>1, <2>2, <3>1, <3>2 DEF WindowHolds, workerVars, digestVars
    <3> QED
      BY <2>2, <3>1, <3>3, QuietKeeps DEF workerVars, digestVars
  <2> QED
    BY <2>3, <2>4
<1>13. CASE ClickCorner
  <2>1. PICK action \in General : Request(action, None, FALSE)
    BY <1>13 DEF ClickCorner, General
  <2> QED
    BY <1>1, <1>13, <2>1, AskingKeeps
       DEF ClickCorner, PutUp, WindowHolds, Dialogs
<1>14. CASE AnswerDialog
  <2>1. /\ window = "draw" /\ window' = "poll" /\ blocking = 0
        /\ opening' = None
        /\ dialog' = None /\ question' = None /\ dialog' # "confirm"
        /\ UNCHANGED <<newsVars, workerVars, stopping, uiBlocked, closing,
                       digestVars, disk, installedCode, habit>>
    BY <1>1, <1>14 DEF AnswerDialog, WindowHolds, Dialogs
  <2>2. CASE dialog = "confirm" /\ Request("replace", question.code, TRUE)
    <3>1. question.code \in Tabs \cup {None}
      BY <1>1, <2>2 DEF WindowHolds, Questions
    <3> QED
      BY <2>1, <2>2, <3>1, AskingKeeps DEF OnATab, Game
  <2>3. CASE Request("upgrade", None, FALSE)
    BY <1>1, <2>1, <2>3, AskingKeeps DEF General
  <2>4. CASE UNCHANGED <<queueVars, worker>>
    <3>1. WindowHolds'
      BY <1>1, <2>1, <2>4 DEF WindowHolds, workerVars, digestVars
    <3> QED
      BY <2>1, <2>4, <3>1, QuietKeeps DEF workerVars, digestVars
  <2> QED
    BY <1>14, <2>2, <2>3, <2>4 DEF AnswerDialog
<1>15. CASE Stop
  <2>1. WindowHolds'
    BY <1>1, <1>15 DEF Stop, WindowHolds, workerVars, tableVars, digestVars
  <2> QED
    BY <1>15, <2>1, QuietKeeps DEF Stop, workerVars, digestVars
<1>16. CASE Join
  BY <1>1, <1>16, QuietKeeps DEF Join, WindowHolds, workerVars, tableVars,
                                 digestVars
<1> QED
  BY <1>2, <1>3, <1>4, <1>5, <1>6, <1>7, <1>8, <1>9, <1>10, <1>11, <1>12,
     <1>13, <1>14, <1>15, <1>16 DEF LoopNext

(* Nothing is asked for, and nothing is in hand.                            *)
LEMMA WorkerStarts ==
  ASSUME Init
  PROVE  WorkerInv
<1> USE ConstantsAssumption, NoneAssumption
<1>1. 0 \in 0..QueueMax - 1 /\ 0 \in 0..NewsMax - 1 /\ 0 \in 0..MaxLoads
  OBVIOUS
<1>2. QueueHolds /\ NewsHolds /\ OneBlocks
  BY <1>1 DEF Init, QueueHolds, NewsHolds, OneBlocks
<1>3. TaskHolds /\ WindowHolds
  BY <1>1 DEF Init, TaskHolds, WindowHolds, Dialogs
<1> QED
  BY <1>2, <1>3 DEF WorkerInv

(* What relates the window, the queue, the worker and the news, always.     *)
LEMMA WorkerInvariant == Spec => []WorkerInv
<1>1. WorkerInv /\ [Next]_vars => WorkerInv'
  <2> SUFFICES ASSUME WorkerInv, [Next]_vars
               PROVE  WorkerInv'
    OBVIOUS
  <2>1. CASE WorkerNext
    BY <2>1, WorkerKeeps
  <2>2. CASE LoopNext
    BY <2>2, WindowKeeps
  <2>3. CASE Frame \/ CloseWindow \/ RefreshRows \/ Spurious \/ Terminal
    <3>1. /\ UNCHANGED <<queueVars, newsVars, taskVars, digest>>
          /\ \/ worker' = worker
             \/ worker = "asleep" /\ worker' = "wake"
             \/ worker = "full" /\ worker' = "room"
      BY <2>3 DEF Frame, CloseWindow, RefreshRows, Spurious, Terminal,
                  workerVars, digestVars
    <3>2. WindowHolds'
      <4>1. CASE RefreshRows
        BY <4>1, <3>1 DEF RefreshRows, WorkerInv, WindowHolds, workerVars,
                          digestVars, queueVars, dialogVars, Shown
      <4>2. CASE Spurious
        BY <4>2, <3>1 DEF Spurious, WorkerInv, WindowHolds, InFlight, queueVars,
                          taskVars, digestVars, tableVars
      <4>3. CASE Frame \/ CloseWindow
        BY <4>3, <3>1 DEF Frame, CloseWindow, WorkerInv, WindowHolds, workerVars,
                          digestVars, tableVars
      <4>4. CASE Terminal
        <5>1. /\ disk' \in Tabs \cup {None}
              /\ UNCHANGED <<queueVars, taskVars, loads, stopping, window,
                             uiBlocked, closing, digestVars, tableVars>>
          BY <4>4 DEF Terminal, workerVars
        <5> QED
          BY <5>1 DEF WorkerInv, WindowHolds, InFlight, queueVars, taskVars,
                      digestVars, tableVars
      <4> QED
        BY <2>3, <4>1, <4>2, <4>3, <4>4
    <3> QED
      BY <3>1, <3>2, QuietKeeps
  <2>4. CASE UNCHANGED vars
    <3>1. WindowHolds'
      BY <2>4 DEF vars, digestVars, tableVars, taskVars, queueVars, InFlight,
                  WorkerInv, WindowHolds
    <3> QED
      BY <2>4, <3>1, QuietKeeps DEF vars, digestVars
  <2> QED
    BY <2>1, <2>2, <2>3, <2>4 DEF Next, Over
<1> QED
  BY <1>1, WorkerStarts, PTL DEF Spec

(***************************************************************************)
(* The theorems.                                                           *)
(***************************************************************************)
(* The types, for queues of any size: in particular neither ring is ever    *)
(* written past its end.                                                    *)
THEOREM WorkerTypes == Spec => []WorkerTypeOK
<1>1. WorkerInv => WorkerTypeOK
  BY DEF WorkerInv, QueueHolds, NewsHolds, OneBlocks, TaskHolds, WindowHolds,
         WorkerTypeOK
<1> QED
  BY <1>1, WorkerInvariant, PTL

(* take_digest: a newer catalogue is only taken up when no task is in line, *)
(* and a task cannot begin between the look and the swap.                   *)
THEOREM CatalogueAlwaysStands == Spec => []CatalogueStands
<1>1. WorkerInv => CatalogueStands
  BY DEF WorkerInv, TaskHolds, CatalogueStands
<1> QED
  BY <1>1, WorkerInvariant, PTL

(* read_work_state: what the frame goes by is read before it is drawn, and  *)
(* a task that blocks can only be asked for by the frame itself.            *)
THEOREM NothingIsHeardUnder == Spec => NothingHeardUnder
<1>1. WorkerInv /\ [Next]_vars => [Heard => ~Blocks]_vars
  <2> SUFFICES ASSUME WorkerInv, [Next]_vars, Heard, Blocks
               PROVE  UNCHANGED vars
    OBVIOUS
  <2>1. Queued = [i \in 1..queueCount |-> Slot(i)]
    BY DEF Queued, Contents, Slot
  <2>2. blocking = 1
    BY <2>1 DEF Blocks, WorkerInv, OneBlocks
  <2>3. uiBlocked /\ window = "draw"
    BY <2>2 DEF Heard, WorkerInv, WindowHolds
  <2>4. queueCount \in Nat
    BY DEF WorkerInv, QueueHolds
  <2>5. CASE LoopNext
    <3>1. Idle
      BY <2>3, <2>5 DEF LoopNext, EndLoop, TakeNews, NoNews, AskUpgrade, SeeLull,
                        SwapDigest, ReadWorkState, PollForUpdate, NothingDue,
                        ClickRow, ClickCorner, AnswerDialog, Stop, Join
    <3> QED
      BY <2>4, <3>1 DEF Idle, PutUp, Heard, queueVars, WorkerInv, WindowHolds
  <2>6. CASE WorkerNext
    <3>1. dialog' = dialog /\ queueCount' \in {queueCount, queueCount - 1}
      BY <2>6 DEF WorkerNext, Sleep, StandDown, Take, Look, Upgrade, Update,
                  Download, RunInstall, RunUninstall, Replace, WaitForRoom,
                  Leave, Report, queueVars, tableVars
    <3> QED
      BY <2>4, <3>1 DEF Heard
  <2>7. CASE Frame \/ CloseWindow \/ RefreshRows \/ Spurious \/ Terminal
    <3>1. dialog' = dialog /\ queueCount' = queueCount
      BY <2>7 DEF Frame, CloseWindow, RefreshRows, Spurious, Terminal,
                  dialogVars, queueVars, tableVars
    <3> QED
      BY <2>4, <3>1 DEF Heard
  <2> QED
    BY <2>5, <2>6, <2>7 DEF Next, Over
<1> QED
  BY <1>1, WorkerInvariant, PTL DEF Spec, NothingHeardUnder

(***************************************************************************)
(* The two rings and the two threads are one line of tasks.                *)
(***************************************************************************)
(* What the line needs besides: the news in hand is that of the task, and   *)
(* the worker is told to stand down once the window draws no more.          *)
LineHolds ==
  /\ worker \in {"room", "full"} => left.task = current
  /\ stopping <=> window \in {"join", "over"}

(* Which every step keeps.                                                  *)
LEMMA LineHoldsNext ==
  ASSUME WorkerInv, LineHolds, [Next]_vars
  PROVE  LineHolds'
<1>1. CASE WorkerNext
  <2>1. stopping' = stopping /\ window' = window
    BY <1>1 DEF WorkerNext, Sleep, StandDown, Take, Look, Upgrade, Update, Download,
                RunInstall, RunUninstall, Replace, WaitForRoom, Leave, Report
  <2>2. worker' \in {"room", "full"} => left'.task = current'
    <3>1. ASSUME NEW what, NEW catalogue, Report(what, catalogue)
          PROVE  left'.task = current'
      BY <3>1 DEF Report
    <3>2. CASE Look \/ Upgrade \/ Update \/ Download \/ RunInstall \/ RunUninstall
      BY <3>1, <3>2 DEF Look, Upgrade, Update, Download, RunInstall, RunUninstall
    <3>3. CASE Replace
      BY <3>1, <3>3 DEF Replace
    <3>4. CASE Sleep \/ StandDown \/ Take \/ WaitForRoom \/ Leave
      BY <3>4 DEF LineHolds, Sleep, StandDown, Take, WaitForRoom, Leave, taskVars
    <3> QED
      BY <1>1, <3>2, <3>3, <3>4 DEF WorkerNext
  <2> QED
    BY <2>1, <2>2 DEF LineHolds
<1>2. CASE LoopNext
  <2>1. /\ UNCHANGED <<left, current>>
        /\ worker' \in {"room", "full"} => worker \in {"room", "full"}
    <3>1. ASSUME NEW action, NEW code, NEW blocks, Request(action, code, blocks)
          PROVE  worker' \in {"room", "full"} => worker \in {"room", "full"}
      BY <3>1 DEF Request, Wake
    <3>2. CASE EndLoop \/ TakeNews \/ NoNews \/ SeeLull \/ SwapDigest \/ ReadWorkState
                 \/ NothingDue \/ Idle \/ Stop \/ Join
      BY <3>2 DEF EndLoop, TakeNews, NoNews, SeeLull, SwapDigest, ReadWorkState, NothingDue,
                  Idle, PutUp, Stop, Join, workerVars, taskVars
    <3>3. CASE AskUpgrade \/ PollForUpdate \/ ClickCorner \/ AnswerDialog
      BY <3>1, <3>3 DEF AskUpgrade, PollForUpdate, ClickCorner, AnswerDialog, PutUp,
                        workerVars, taskVars
    <3>4. CASE \E tab \in Tabs : ClickRow(tab)
      BY <3>1, <3>4 DEF ClickRow, PutUp, workerVars, taskVars
    <3> QED
      BY <1>2, <3>2, <3>3, <3>4 DEF LoopNext
  <2>2. (stopping <=> window \in {"join", "over"})'
    <3>1. CASE EndLoop \/ TakeNews \/ NoNews \/ AskUpgrade \/ SeeLull \/ SwapDigest
                 \/ ReadWorkState \/ PollForUpdate \/ NothingDue
      <4>1. window \notin {"join", "over"} /\ window' \notin {"join", "over"}
        BY <3>1 DEF EndLoop, TakeNews, NoNews, AskUpgrade, SeeLull, SwapDigest,
                    ReadWorkState, PollForUpdate, NothingDue
      <4>2. stopping' = stopping
        BY <3>1 DEF EndLoop, TakeNews, NoNews, AskUpgrade, SeeLull, SwapDigest,
                    ReadWorkState, PollForUpdate, NothingDue
      <4> QED
        BY <4>1, <4>2 DEF LineHolds
    <3>2. CASE Idle \/ (\E tab \in Tabs : ClickRow(tab)) \/ ClickCorner \/ AnswerDialog
      <4>1. window = "draw" /\ window' = "poll" /\ stopping' = stopping
        BY <3>2 DEF Idle, ClickRow, ClickCorner, AnswerDialog, PutUp
      <4> QED
        BY <4>1 DEF LineHolds
    <3>3. CASE Stop \/ Join
      BY <3>3 DEF LineHolds, Stop, Join
    <3> QED
      BY <1>2, <3>1, <3>2, <3>3 DEF LoopNext
  <2> QED
    BY <2>1, <2>2 DEF LineHolds
<1>3. CASE Frame \/ CloseWindow \/ RefreshRows \/ Spurious \/ Terminal \/ UNCHANGED vars
  BY <1>3 DEF LineHolds, Frame, CloseWindow, RefreshRows, Spurious, Terminal, vars, workerVars,
              taskVars
<1> QED
  BY <1>1, <1>2, <1>3 DEF Next, Over

(* The line and the answers left unread, as TaskLine has them.              *)
Told     == [i \in 1..newsCount |-> Task(Unread[i].task)]
Lined    == IF stopping THEN Doing ELSE Doing \o Waiting
Answered == IF stopping THEN <<>> ELSE Told

(* A sequence with one more in front.                                       *)
LEMMA InFront ==
  ASSUME NEW S, NEW first \in S, NEW rest \in Seq(S)
  PROVE  /\ <<first>> \o rest \in Seq(S) /\ <<first>> \o rest # <<>>
         /\ Head(<<first>> \o rest) = first /\ Tail(<<first>> \o rest) = rest
         /\ SubSeq(<<first>> \o rest, 1, 1) = <<first>>
         /\ Len(<<first>> \o rest) = Len(rest) + 1
<1> DEFINE whole == <<first>> \o rest
<1>1. <<first>> \in Seq(S) /\ Len(<<first>>) = 1 /\ <<first>>[1] = first /\ Len(rest) \in Nat
  OBVIOUS
<1>2. /\ whole \in Seq(S) /\ Len(whole) = 1 + Len(rest)
      /\ \A i \in 1 .. 1 + Len(rest) :
           whole[i] = IF i <= 1 THEN <<first>>[i] ELSE rest[i - 1]
  BY <1>1, ConcatProperties
<1> HIDE DEF whole
<1>3. whole # <<>> /\ Head(whole) = first
  BY <1>1, <1>2
<1>4. Tail(whole) = rest
  <2>1. /\ Tail(whole) \in Seq(S) /\ Len(Tail(whole)) = Len(rest)
        /\ \A i \in 1..Len(Tail(whole)) : Tail(whole)[i] = whole[i + 1]
    BY <1>1, <1>2, <1>3, HeadTailProperties
  <2>2. ASSUME NEW i \in 1..Len(Tail(whole)) PROVE Tail(whole)[i] = rest[i]
    <3>1. i + 1 \in 1 .. 1 + Len(rest) /\ ~(i + 1 <= 1) /\ (i + 1) - 1 = i
      BY <1>1, <2>1
    <3> QED
      BY <1>2, <2>1, <3>1
  <2> QED
    BY <2>1, <2>2, SeqEqual
<1>5. SubSeq(whole, 1, 1) = <<first>>
  <2>1. /\ SubSeq(whole, 1, 1) \in Seq(S) /\ Len(SubSeq(whole, 1, 1)) = 1
        /\ SubSeq(whole, 1, 1)[1] = whole[1]
    BY <1>1, <1>2
  <2>2. \A i \in 1..1 : SubSeq(whole, 1, 1)[i] = <<first>>[i]
    BY <1>1, <1>2, <2>1
  <2> QED
    BY <1>1, <2>1, <2>2, SeqEqual
<1> QED
  BY <1>1, <1>2, <1>3, <1>4, <1>5 DEF whole

(* Its first taken off and put back.                                        *)
LEMMA PutBackFirst ==
  ASSUME NEW S, NEW whole \in Seq(S), whole # <<>>
  PROVE  <<Head(whole)>> \o Tail(whole) = whole
<1>1. /\ Head(whole) \in S /\ Tail(whole) \in Seq(S) /\ Len(whole) \in Nat \ {0}
      /\ Len(Tail(whole)) = Len(whole) - 1 /\ Head(whole) = whole[1]
      /\ \A i \in 1..Len(Tail(whole)) : Tail(whole)[i] = whole[i + 1]
  BY HeadTailProperties, EmptySeq
<1> DEFINE again == <<Head(whole)>> \o Tail(whole)
<1>2. <<Head(whole)>> \in Seq(S) /\ Len(<<Head(whole)>>) = 1 /\ <<Head(whole)>>[1] = whole[1]
  BY <1>1
<1>3. /\ again \in Seq(S) /\ Len(again) = Len(whole)
      /\ \A i \in 1..Len(whole) :
           again[i] = IF i <= 1 THEN <<Head(whole)>>[i] ELSE Tail(whole)[i - 1]
  BY <1>1, <1>2, ConcatProperties
<1>4. ASSUME NEW i \in 1..Len(whole) PROVE again[i] = whole[i]
  <2>1. CASE i = 1
    BY <1>2, <1>3, <2>1
  <2>2. CASE i # 1
    <3>1. i - 1 \in 1..Len(Tail(whole)) /\ (i - 1) + 1 = i /\ ~(i <= 1)
      BY <1>1, <2>2
    <3> QED
      BY <1>1, <1>3, <3>1
  <2> QED
    BY <2>1, <2>2
<1> HIDE DEF again
<1>5. again = whole
  BY <1>3, <1>4, SeqEqual
<1> QED
  BY <1>5 DEF again

(* What the line is made of.                                                *)
LEMMA LineParts ==
  ASSUME WorkerInv
  PROVE  /\ Doing \in Seq(Tasks) /\ Waiting \in Seq(Tasks) /\ Told \in Seq(Tasks)
         /\ running => Task(current) \in Tasks /\ Doing = <<Task(current)>> /\ Len(Doing) = 1
         /\ ~running => Doing = <<>> /\ Len(Doing) = 0
         /\ Len(Waiting) = queueCount
         /\ \A i \in 1..queueCount : Waiting[i] = Task(Slot(i))
         /\ Len(Told) = newsCount
         /\ \A i \in 1..newsCount : Told[i] = Task(Note(i).task)
<1>1. \A item \in Items : Task(item) \in Tasks
  BY DEF Items, Task, Tasks
<1>2. /\ queueCount \in Nat /\ newsCount \in Nat /\ running \in BOOLEAN
      /\ \A i \in 1..queueCount : Slot(i) \in Items
      /\ \A i \in 1..newsCount : Note(i) \in News
      /\ running => current \in Items
  BY ConstantsAssumption DEF WorkerInv, QueueHolds, NewsHolds, TaskHolds
<1>3. /\ Queued = [i \in 1..queueCount |-> Slot(i)]
      /\ Unread = [i \in 1..newsCount |-> Note(i)]
  BY DEF Queued, Unread, Contents, Slot, Note
<1>4. /\ Waiting = [i \in 1..queueCount |-> Task(Slot(i))]
      /\ Told = [i \in 1..newsCount |-> Task(Note(i).task)]
  BY <1>3 DEF Waiting, Told
<1>5. /\ \A i \in 1..queueCount : Task(Slot(i)) \in Tasks
      /\ \A i \in 1..newsCount : Task(Note(i).task) \in Tasks
  BY <1>1, <1>2 DEF News
<1>6. /\ Waiting \in [1..queueCount -> Tasks] /\ Told \in [1..newsCount -> Tasks]
  BY <1>4, <1>5
<1>7. /\ Waiting \in Seq(Tasks) /\ Len(Waiting) = queueCount
      /\ Told \in Seq(Tasks) /\ Len(Told) = newsCount
  BY <1>2, <1>6
<1>8. running => Task(current) \in Tasks /\ Doing = <<Task(current)>>
  BY <1>1, <1>2 DEF Doing
<1>9. ~running => Doing = <<>>
  BY DEF Doing
<1>10. Doing \in Seq(Tasks) /\ Len(Doing) = IF running THEN 1 ELSE 0
  <2>1. CASE running
    <3>1. ASSUME NEW t \in Tasks PROVE <<t>> \in Seq(Tasks) /\ Len(<<t>>) = 1
      OBVIOUS
    <3> QED
      BY <1>8, <2>1, <3>1
  <2>2. CASE ~running
    <3>1. Doing = <<>> /\ <<>> \in Seq(Tasks) /\ Len(<<>>) = 0
      BY <1>9, <2>2, EmptySeq
    <3> QED
      BY <2>2, <3>1
  <2> QED
    BY <1>2, <2>1, <2>2
<1>11. /\ \A i \in 1..queueCount : Waiting[i] = Task(Slot(i))
       /\ \A i \in 1..newsCount : Told[i] = Task(Note(i).task)
  BY <1>4
<1> QED
  BY <1>2, <1>7, <1>8, <1>9, <1>10, <1>11

(* A step that leaves both rings and the task in hand alone.                *)
LEMMA LineStands ==
  ASSUME UNCHANGED <<queue, queueHead, queueCount, newsVars, current, running, stopping>>
  PROVE  Lined' = Lined /\ Answered' = Answered
BY DEF newsVars, Lined, Answered, Told, Doing, Waiting, Queued, Unread, Contents

(* What is asked for goes to the end of the line, if it is not in it.       *)
LEMMA LineAsked ==
  ASSUME WorkerInv, ~stopping, UNCHANGED <<newsVars, current, running, stopping>>,
         NEW action \in OnATab \cup General, NEW code \in Tabs \cup {None},
         NEW blocks \in BOOLEAN, Request(action, code, blocks)
  PROVE  /\ Answered' = Answered
         /\ \/ Lined' = Lined
            \/ \E task \in Tasks :
                 /\ \A i \in 1..Len(Lined) : Lined[i] # task
                 /\ Len(Lined) < QueueMax + 1
                 /\ Lined' = Append(Lined, task)
<1>1. CASE UNCHANGED <<queueVars, worker>>
  BY <1>1, LineStands DEF queueVars
<1>2. CASE ~UNCHANGED <<queueVars, worker>>
  <2> DEFINE task == [action |-> action, code |-> code]
  <2>0. QueueHolds /\ installedCode \in Tabs \cup {None} /\ running \in BOOLEAN
    BY DEF WorkerInv, WindowHolds, TaskHolds
  <2>1. /\ ~Duplicate(action, code) /\ queueCount # QueueMax
        /\ queueCount' = queueCount + 1
    BY <1>2, <2>0, RequestAdds
  <2>2. PICK item \in Items :
          /\ item.action = action /\ item.code = code
          /\ \A i \in 1..queueCount' :
               Slot(i)' = IF i = queueCount + 1 THEN item ELSE Slot(i)
    BY <1>2, <2>0, RequestAdds
  <2>3. task \in Tasks /\ Task(item) = task
    BY <2>2 DEF Tasks, Task
  <2>4. queueCount \in 0..QueueMax /\ QueueMax \in Nat
    BY <2>0, ConstantsAssumption DEF QueueHolds
  <2>5. /\ running => Doing = <<Task(current)>> /\ Task(current) # task
        /\ \A i \in 1..queueCount : Waiting[i] # task
    <3>1. /\ running => Task(current) # task
          /\ \A i \in 1..queueCount : Task(Slot(i)) # task
      BY <2>1 DEF Duplicate, Same, Task, Queued, Contents, Slot
    <3> QED
      BY <3>1, LineParts
  <2> HIDE DEF task
  <2>6. Doing' = Doing /\ Waiting' = Append(Waiting, task)
    <3>1. Waiting' = [i \in 1..queueCount' |-> Task(Slot(i)')]
      BY DEF Waiting, Queued, Contents, Slot, Task
    <3>2. /\ Waiting \in Seq(Tasks) /\ Len(Waiting) = queueCount
          /\ \A i \in 1..queueCount : Waiting[i] = Task(Slot(i))
      BY LineParts
    <3>3. /\ Append(Waiting, task) \in Seq(Tasks) /\ Len(Append(Waiting, task)) = queueCount + 1
          /\ \A i \in 1..queueCount : Append(Waiting, task)[i] = Waiting[i]
          /\ Append(Waiting, task)[queueCount + 1] = task
      BY <2>3, <3>2, AppendProperties
    <3>4. ASSUME NEW i \in 1..queueCount' PROVE Task(Slot(i)') = Append(Waiting, task)[i]
      BY <2>1, <2>2, <2>3, <2>4, <3>2, <3>3
    <3>5. Append(Waiting, task) = [i \in 1..queueCount' |-> Append(Waiting, task)[i]]
      BY <2>1, <3>3, LenProperties
    <3> QED
      BY <3>1, <3>4, <3>5 DEF Doing
  <2>7. Lined = Doing \o Waiting /\ Lined' = Doing' \o Waiting'
    BY DEF Lined
  <2>8. Lined' = Append(Lined, task)
    <3>1. Waiting \in Seq(Tasks) /\ Doing \in Seq(Tasks) /\ <<task>> \in Seq(Tasks)
      BY <2>3, LineParts
    <3>2. Append(Waiting, task) = Waiting \o <<task>>
      BY <2>3, <3>1, AppendIsConcat
    <3>3. Doing \o Waiting \in Seq(Tasks)
      BY <3>1, ConcatProperties
    <3>4. Append(Doing \o Waiting, task) = (Doing \o Waiting) \o <<task>>
      BY <2>3, <3>3, AppendIsConcat
    <3>5. (Doing \o Waiting) \o <<task>> = Doing \o (Waiting \o <<task>>)
      BY <3>1, ConcatAssociative
    <3> QED
      BY <2>6, <2>7, <3>2, <3>4, <3>5
  <2>9. /\ Len(Lined) < QueueMax + 1 /\ \A i \in 1..Len(Lined) : Lined[i] # task
    <3>1. /\ Waiting \in Seq(Tasks) /\ Doing \in Seq(Tasks) /\ Len(Waiting) = queueCount
          /\ Len(Doing) = IF running THEN 1 ELSE 0
      BY <2>0, LineParts
    <3>2. /\ Len(Lined) = Len(Doing) + queueCount
          /\ \A i \in 1 .. Len(Doing) + queueCount :
               Lined[i] = IF i <= Len(Doing) THEN Doing[i] ELSE Waiting[i - Len(Doing)]
      BY <2>7, <3>1, ConcatProperties
    <3>3. Len(Lined) < QueueMax + 1
      BY <2>0, <2>1, <2>4, <3>1, <3>2
    <3>4. ASSUME NEW i \in 1..Len(Lined) PROVE Lined[i] # task
      <4>1. CASE i <= Len(Doing)
        <5>1. running /\ i = 1 /\ Lined[i] = Doing[i]
          BY <2>4, <3>1, <3>2, <4>1
        <5> QED
          BY <2>5, <5>1
      <4>2. CASE ~(i <= Len(Doing))
        <5>1. i - Len(Doing) \in 1..queueCount /\ Lined[i] = Waiting[i - Len(Doing)]
          BY <2>4, <3>1, <3>2, <4>2
        <5> QED
          BY <2>5, <5>1
      <4> QED
        BY <4>1, <4>2
    <3> QED
      BY <3>3, <3>4
  <2>10. Answered' = Answered
    BY DEF Answered, Told, Unread, Contents, newsVars
  <2> QED
    BY <2>3, <2>8, <2>9, <2>10
<1> QED
  BY <1>1, <1>2

(* A task that is taken stays at the head of the line.                      *)
LEMMA LineTaken ==
  ASSUME WorkerInv, Take
  PROVE  Lined' = Lined /\ Answered' = Answered
<1>1. QueueHolds /\ TaskHolds /\ QueueMax \in Nat
  BY ConstantsAssumption DEF WorkerInv
<1>2. /\ ~running /\ running' /\ queueCount \in 1..QueueMax /\ queueCount' = queueCount - 1
      /\ current' = Slot(1) /\ \A i \in 1..queueCount' : Slot(i)' = Slot(i + 1)
  BY <1>1, TakeMoves
<1>3. /\ Waiting \in Seq(Tasks) /\ Len(Waiting) = queueCount /\ Doing = <<>>
      /\ \A i \in 1..queueCount : Waiting[i] = Task(Slot(i))
  BY <1>2, LineParts
<1>4. /\ Waiting # <<>> /\ Head(Waiting) = Task(Slot(1))
  BY <1>1, <1>2, <1>3
<1>5. Doing' = <<Head(Waiting)>>
  BY <1>2, <1>4 DEF Doing, Task
<1>6. Waiting' = Tail(Waiting)
  <2>1. Waiting' = [i \in 1..queueCount' |-> Task(Slot(i)')]
    BY DEF Waiting, Queued, Contents, Slot, Task
  <2>2. /\ Tail(Waiting) \in Seq(Tasks) /\ Len(Tail(Waiting)) = queueCount'
        /\ \A i \in 1..queueCount' : Tail(Waiting)[i] = Waiting[i + 1]
    BY <1>2, <1>3, <1>4, HeadTailProperties
  <2>3. ASSUME NEW i \in 1..queueCount' PROVE Task(Slot(i)') = Tail(Waiting)[i]
    <3>1. i + 1 \in 1..queueCount
      BY <1>1, <1>2
    <3> QED
      BY <1>2, <1>3, <2>2, <3>1
  <2>4. Tail(Waiting) = [i \in 1..queueCount' |-> Tail(Waiting)[i]]
    BY <2>2, LenProperties
  <2> QED
    BY <2>1, <2>3, <2>4
<1>7. Doing \o Waiting = Waiting /\ Doing' \o Waiting' = Waiting
  BY <1>3, <1>4, <1>5, <1>6, PutBackFirst, ConcatEmptySeq
<1>8. ~stopping /\ ~stopping' /\ UNCHANGED newsVars
  BY DEF Take
<1> QED
  BY <1>7, <1>8 DEF Lined, Answered, Told, Unread, Contents, newsVars

(* A task that is done leaves the line, and its answer is left to be read.  *)
LEMMA LineLeft ==
  ASSUME WorkerInv, LineHolds, Leave
  PROVE  /\ Lined # <<>> /\ Lined' = Tail(Lined) /\ stopping' = stopping
         /\ IF ~stopping THEN /\ Len(Answered) < NewsMax
                              /\ Answered' = Append(Answered, Head(Lined))
                         ELSE UNCHANGED Answered
<1>1. /\ UNCHANGED <<queue, queueHead, queueCount, stopping>>
      /\ running /\ running' = FALSE /\ left \in News /\ left.task = current
      /\ worker = "room" /\ NewsHolds /\ NewsMax \in Nat
  BY ConstantsAssumption DEF Leave, LineHolds, WorkerInv, TaskHolds
<1>2. Doing = <<Task(current)>> /\ Task(current) \in Tasks /\ Waiting \in Seq(Tasks)
  BY <1>1, LineParts
<1>3. Doing' = <<>> /\ Waiting' = Waiting
  BY <1>1 DEF Doing, Waiting, Queued, Contents
<1>4. CASE ~stopping
  <2>1. Lined = <<Task(current)>> \o Waiting /\ Lined' = <<>> \o Waiting
    BY <1>1, <1>2, <1>3, <1>4 DEF Lined
  <2>2. Lined # <<>> /\ Head(Lined) = Task(current) /\ Lined' = Tail(Lined)
    BY <1>2, <2>1, InFront, ConcatEmptySeq
  <2>3. /\ newsCount # NewsMax /\ newsCount' = newsCount + 1 /\ newsCount \in 0..NewsMax
        /\ \A i \in 1..newsCount' :
             Note(i)' = IF i = newsCount + 1 THEN left ELSE Note(i)
    BY <1>1, <1>4, LeaveAdds DEF NewsHolds
  <2>4. /\ Told \in Seq(Tasks) /\ Len(Told) = newsCount
        /\ \A i \in 1..newsCount : Told[i] = Task(Note(i).task)
    BY LineParts
  <2>5. Told' = Append(Told, Task(current))
    <3>1. Told' = [i \in 1..newsCount' |-> Task(Note(i)'.task)]
      BY DEF Told, Unread, Contents, Note, Task
    <3>2. /\ Append(Told, Task(current)) \in Seq(Tasks)
          /\ Len(Append(Told, Task(current))) = newsCount + 1
          /\ \A i \in 1..newsCount : Append(Told, Task(current))[i] = Told[i]
          /\ Append(Told, Task(current))[newsCount + 1] = Task(current)
      BY <1>2, <2>4, AppendProperties
    <3>3. ASSUME NEW i \in 1..newsCount'
          PROVE  Task(Note(i)'.task) = Append(Told, Task(current))[i]
      BY <1>1, <2>3, <2>4, <3>2
    <3>4. Append(Told, Task(current)) = [i \in 1..newsCount' |-> Append(Told, Task(current))[i]]
      BY <2>3, <3>2, LenProperties
    <3> QED
      BY <3>1, <3>3, <3>4
  <2>6. Answered = Told /\ Answered' = Told'
    BY <1>1, <1>4 DEF Answered
  <2> QED
    BY <1>1, <1>4, <2>2, <2>3, <2>4, <2>5, <2>6
<1>5. CASE stopping
  BY <1>1, <1>2, <1>3, <1>5 DEF Lined, Answered
<1> QED
  BY <1>4, <1>5

(* News that is read is the oldest answer.                                  *)
LEMMA LineRead ==
  ASSUME WorkerInv, ~stopping, TakeNews
  PROVE  /\ Answered # <<>> /\ Answered' = Tail(Answered)
         /\ Lined' = Lined /\ stopping' = stopping
<1>1. /\ newsCount \in 1..NewsMax /\ newsCount' = newsCount - 1 /\ NewsMax \in Nat
      /\ \A i \in 1..newsCount' : Note(i)' = Note(i + 1)
  BY ConstantsAssumption, TakeNewsMoves DEF WorkerInv
<1>2. /\ Told \in Seq(Tasks) /\ Len(Told) = newsCount
      /\ \A i \in 1..newsCount : Told[i] = Task(Note(i).task)
  BY LineParts
<1>3. Told # <<>>
  BY <1>1, <1>2
<1>4. Told' = Tail(Told)
  <2>1. Told' = [i \in 1..newsCount' |-> Task(Note(i)'.task)]
    BY DEF Told, Unread, Contents, Note, Task
  <2>2. /\ Tail(Told) \in Seq(Tasks) /\ Len(Tail(Told)) = newsCount'
        /\ \A i \in 1..newsCount' : Tail(Told)[i] = Told[i + 1]
    BY <1>1, <1>2, <1>3, HeadTailProperties
  <2>3. ASSUME NEW i \in 1..newsCount' PROVE Task(Note(i)'.task) = Tail(Told)[i]
    <3>1. i + 1 \in 1..newsCount
      BY <1>1
    <3> QED
      BY <1>1, <1>2, <2>2, <3>1
  <2>4. Tail(Told) = [i \in 1..newsCount' |-> Tail(Told)[i]]
    BY <2>2, LenProperties
  <2> QED
    BY <2>1, <2>3, <2>4
<1>5. /\ UNCHANGED <<queue, queueHead, queueCount, current, running, stopping>>
  BY DEF TakeNews, queueVars, workerVars, taskVars
<1>6. Lined' = Lined
  BY <1>5 DEF Lined, Doing, Waiting, Queued, Contents
<1> QED
  BY <1>3, <1>4, <1>5, <1>6 DEF Answered

(* At the close what waits is dropped and what is begun stays.              *)
LEMMA LineClosed ==
  ASSUME WorkerInv, LineHolds, Stop
  PROVE  /\ ~stopping /\ stopping' /\ Answered' = <<>>
         /\ \E begun \in {0, 1} \cap 0..Len(Lined) : Lined' = SubSeq(Lined, 1, begun)
<1>1. /\ ~stopping /\ stopping' /\ UNCHANGED <<current, running>> /\ running \in BOOLEAN
  BY DEF LineHolds, Stop, workerVars, taskVars, WorkerInv, TaskHolds
<1>2. Lined = Doing \o Waiting /\ Lined' = Doing /\ Answered' = <<>>
  BY <1>1 DEF Lined, Answered, Doing
<1>3. Waiting \in Seq(Tasks) /\ Len(Waiting) \in Nat
  BY LineParts, LenProperties
<1>4. CASE running
  <2>1. Doing = <<Task(current)>> /\ Task(current) \in Tasks
    BY <1>4, LineParts
  <2>2. SubSeq(Lined, 1, 1) = Lined' /\ Len(Lined) = Len(Waiting) + 1
    BY <1>2, <1>3, <2>1, InFront
  <2>3. 1 \in {0, 1} \cap 0..Len(Lined)
    BY <1>3, <2>2
  <2> QED
    BY <1>1, <1>2, <2>2, <2>3
<1>5. CASE ~running
  <2>1. Doing = <<>>
    BY <1>5, LineParts
  <2>2. Lined = Waiting
    BY <1>2, <1>3, <2>1, ConcatEmptySeq
  <2>3. SubSeq(Lined, 1, 0) = <<>>
    BY SubSeqEmpty
  <2>4. 0 \in {0, 1} \cap 0..Len(Lined)
    BY <1>3, <2>2
  <2> QED
    BY <1>1, <1>2, <2>1, <2>3, <2>4
<1> QED
  BY <1>1, <1>4, <1>5

(* A step of the two threads is one of the line, or leaves it as it is.     *)
LEMMA LineSteps ==
  ASSUME WorkerInv, LineHolds, [Next]_vars
  PROVE  [Line!Next]_(Line!vars)
<1> DEFINE Asks  == \E task \in Tasks :
                      /\ \A i \in 1..Len(Lined) : Lined[i] # task
                      /\ Len(Lined) < QueueMax + 1
                      /\ Lined' = Append(Lined, task)
           Still == Lined' = Lined /\ Answered' = Answered /\ stopping' = stopping
<1>1. Still => UNCHANGED Line!vars
  BY DEF Line!vars, Lined, Answered, Told
<1>2. ASSUME ~stopping, stopping' = stopping, Answered' = Answered, Asks PROVE Line!Next
  BY <1>2 DEF Line!Next, Line!Ask, Lined, Answered, Told
<1>3. ASSUME ~stopping, UNCHANGED <<newsVars, current, running, stopping>>,
             NEW action \in OnATab \cup General, NEW code \in Tabs \cup {None},
             NEW blocks \in BOOLEAN, Request(action, code, blocks)
      PROVE  Line!Next \/ Still
  <2> HIDE DEF Asks
  <2>1. Answered' = Answered /\ (Lined' = Lined \/ Asks)
    BY <1>3, LineAsked DEF Asks
  <2> QED
    BY <1>2, <1>3, <2>1
<1>4. ASSUME UNCHANGED <<queueVars, newsVars, current, running, stopping>> PROVE Still
  BY <1>4, LineStands DEF queueVars
<1>5. CASE WorkerNext
  <2>1. CASE Take
    <3>1. Still
      BY <2>1, LineTaken DEF Take
    <3> QED
      BY <1>1, <3>1
  <2>2. CASE Leave
    <3>1. /\ Lined # <<>> /\ Lined' = Tail(Lined) /\ stopping' = stopping
          /\ ~stopping => Len(Answered) < NewsMax /\ Answered' = Append(Answered, Head(Lined))
          /\ stopping => Answered' = Answered
      BY <2>2, LineLeft
    <3>2. CASE ~stopping
      BY <3>1, <3>2 DEF Line!Finish, Line!Next, Lined, Answered, Told
    <3>3. CASE stopping
      BY <3>1, <3>3 DEF Line!Finish, Line!Next, Lined, Answered, Told
    <3> QED
      BY <3>2, <3>3
  <2>3. CASE ~Take /\ ~Leave
    <3>1. UNCHANGED <<queueVars, newsVars, current, running, stopping>>
      BY <1>5, <2>3 DEF WorkerNext, Sleep, StandDown, Look, Upgrade, Update, Download,
                        RunInstall, RunUninstall, Replace, WaitForRoom, Report, taskVars
    <3> QED
      BY <1>1, <1>4, <3>1
  <2> QED
    BY <2>1, <2>2, <2>3
<1>6. CASE LoopNext
  <2>1. CASE TakeNews
    <3>1. ~stopping
      BY <2>1 DEF TakeNews, LineHolds
    <3>2. /\ Answered # <<>> /\ Answered' = Tail(Answered)
          /\ Lined' = Lined /\ stopping' = stopping
      BY <2>1, <3>1, LineRead
    <3>3. Line!Read
      BY <3>1, <3>2 DEF Line!Read, Lined, Answered, Told
    <3> QED
      BY <3>3 DEF Line!Next
  <2>2. CASE Stop
    <3>1. Line!Close
      BY <2>2, LineClosed DEF Line!Close, Lined, Answered, Told
    <3> QED
      BY <3>1 DEF Line!Next
  <2>3. CASE AskUpgrade \/ PollForUpdate \/ (\E tab \in Tabs : ClickRow(tab)) \/ ClickCorner
               \/ AnswerDialog
    <3>1. ~stopping /\ UNCHANGED <<newsVars, current, running, stopping>>
      BY <2>3 DEF LineHolds, AskUpgrade, PollForUpdate, ClickRow, ClickCorner, AnswerDialog, PutUp,
                  workerVars, taskVars
    <3>2. \/ UNCHANGED queueVars
          \/ \E action \in OnATab \cup General, code \in Tabs \cup {None}, blocks \in BOOLEAN :
               Request(action, code, blocks)
      <4>1. CASE AskUpgrade \/ PollForUpdate \/ ClickCorner
        BY <4>1 DEF AskUpgrade, PollForUpdate, ClickCorner, General
      <4>2. CASE \E tab \in Tabs : ClickRow(tab)
        BY <4>2 DEF ClickRow, OnATab, Game
      <4>3. CASE AnswerDialog
        <5>1. dialog = "confirm" => question.code \in Tabs
          BY DEF WorkerInv, WindowHolds, Questions
        <5> QED
          BY <4>3, <5>1 DEF AnswerDialog, OnATab, Game, General
      <4> QED
        BY <2>3, <4>1, <4>2, <4>3
    <3> QED
      BY <1>1, <1>3, <1>4, <3>1, <3>2
  <2>4. CASE EndLoop \/ NoNews \/ SeeLull \/ SwapDigest \/ ReadWorkState \/ NothingDue \/ Idle
               \/ Join
    <3>1. UNCHANGED <<queueVars, newsVars, current, running, stopping>>
      BY <2>4 DEF EndLoop, NoNews, SeeLull, SwapDigest, ReadWorkState, NothingDue, Idle, PutUp,
                  Join, workerVars, taskVars
    <3> QED
      BY <1>1, <1>4, <3>1
  <2> QED
    BY <1>6, <2>1, <2>2, <2>3, <2>4 DEF LoopNext
<1>7. CASE Frame \/ CloseWindow \/ RefreshRows \/ Spurious \/ Terminal \/ UNCHANGED vars
  <2>1. UNCHANGED <<queueVars, newsVars, current, running, stopping>>
    BY <1>7 DEF Frame, CloseWindow, RefreshRows, Spurious, Terminal, vars, workerVars, taskVars
  <2> QED
    BY <1>1, <1>4, <2>1
<1> QED
  BY <1>5, <1>6, <1>7 DEF Next, Over

(* README, "The worker": tasks are taken one at a time in the order they    *)
(* were asked for, none is in line twice, each is answered once, and the    *)
(* one begun when the window closes is finished (`Serves`).                 *)
THEOREM WorkerServes == Spec => Serves
<1>1. Init => LineHolds /\ Line!Init
  <2> SUFFICES ASSUME Init PROVE LineHolds /\ Line!Init
    OBVIOUS
  <2>1. /\ ~stopping /\ ~running /\ queueCount = 0 /\ newsCount = 0 /\ worker = "wake"
        /\ window = "poll" /\ WorkerInv
    BY WorkerStarts DEF Init
  <2>2. Doing = <<>> /\ Waiting = <<>> /\ Told = <<>>
    BY <2>1, LineParts, EmptySeq
  <2>3. Doing \o Waiting = <<>>
    BY <2>2
  <2> QED
    BY <2>1, <2>2, <2>3 DEF LineHolds, Line!Init, Told
<1>2. WorkerInv /\ LineHolds /\ [Next]_vars => LineHolds' /\ [Line!Next]_(Line!vars)
  BY LineHoldsNext, LineSteps
<1> QED
  BY <1>1, <1>2, WorkerInvariant, PTL DEF Spec, Serves, Line!Spec
=============================================================================
