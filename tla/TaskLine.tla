------------------------------ MODULE TaskLine ------------------------------
(***************************************************************************)
(* What the window is promised of its worker: tasks are done one after     *)
(* another in the order they were asked for, the same one is never in line *)
(* twice, each is answered once and in that order, and the one begun when  *)
(* the window closes is still finished.                                    *)
(***************************************************************************)
EXTENDS Naturals, Sequences

CONSTANTS
  Tasks,   \* what can be asked for
  Places,  \* how many can be in line, the one being done included
  Answers  \* how many answers can be left unread

VARIABLES
  line,    \* the tasks asked for and not yet done, the oldest first
  answers, \* the tasks done whose outcome has not been read
  open     \* the window is there

vars == <<line, answers, open>>

Init ==
  /\ line = <<>>
  /\ answers = <<>>
  /\ open = TRUE

Ask(task) ==
  /\ open
  /\ \A i \in 1..Len(line) : line[i] # task
  /\ Len(line) < Places
  /\ line' = Append(line, task)
  /\ UNCHANGED <<answers, open>>

Finish ==
  /\ line # <<>> /\ line' = Tail(line)
  /\ IF open
     THEN /\ Len(answers) < Answers
          /\ answers' = Append(answers, Head(line))
     ELSE UNCHANGED answers
  /\ UNCHANGED open

Read ==
  /\ open
  /\ answers # <<>> /\ answers' = Tail(answers)
  /\ UNCHANGED <<line, open>>

Close ==
  /\ open /\ open' = FALSE
  /\ \E begun \in {0, 1} \cap 0..Len(line) : line' = SubSeq(line, 1, begun)
  /\ answers' = <<>>

Next == (\E task \in Tasks : Ask(task)) \/ Finish \/ Read \/ Close

Spec == Init /\ [][Next]_vars
=============================================================================
