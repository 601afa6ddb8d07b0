---------------------------- MODULE ExtrasProofs ----------------------------
(***************************************************************************)
(* Why the record of the bindings tells what was there before tabber, and   *)
(* an unbind puts just that back; and why palettes go in and come out of    *)
(* the game without a loss to the user's own, for any names, files, bundles *)
(* and room.                                                                *)
(***************************************************************************)
EXTENDS Bindings, Palettes, FiniteSetTheorems, WellFoundedInduction, SequenceTheorems, TLAPS

(* A set of natural numbers that is not empty has a least element.          *)
LEMMA Least ==
  ASSUME NEW S \in SUBSET Nat, S # {}
  PROVE  \E i \in S : \A j \in S : i <= j
<1> DEFINE T == {0 .. j : j \in S}
<1>1. T # {} /\ T \subseteq FiniteSubsetsOf(Nat)
  <2>1. ASSUME NEW j \in S PROVE 0 .. j \in FiniteSubsetsOf(Nat)
    BY FS_Interval DEF FiniteSubsetsOf
  <2> QED BY <2>1
<1>2. IsWellFoundedOn(StrictSubsetOrdering(Nat), FiniteSubsetsOf(Nat))
  BY FS_StrictSubsetOrderingWellFounded
<1>3. PICK x \in T : \A y \in T : ~(<<y, x>> \in StrictSubsetOrdering(Nat))
  <2> HIDE DEF T
  <2> QED BY <1>1, <1>2, WFMin
<1>4. PICK i \in S : x = 0 .. i
  OBVIOUS
<1>5. ASSUME NEW j \in S, j < i PROVE FALSE
  <2>1. 0 .. j \in T /\ 0 .. j \subseteq 0 .. i /\ 0 .. j # 0 .. i
    BY <1>5
  <2>2. 0 .. j \in SUBSET Nat /\ 0 .. i \in SUBSET Nat
    OBVIOUS
  <2> QED
    BY <1>3, <1>4, <2>1, <2>2 DEF StrictSubsetOrdering
<1> QED
  BY <1>5

-----------------------------------------------------------------------------
(* Bindings.                                                                *)
Has(ls, n)     == \E i \in DOMAIN ls : ls[i].name = n
First(ls, i, n) == ls[i].name = n /\ \A j \in 1 .. (i - 1) : ls[j].name # n

(* A file of lines.                                                         *)
LEMMA Lines ==
  ASSUME NEW ls, IsLines(ls)
  PROVE  /\ Len(ls) \in Nat /\ DOMAIN ls = 1 .. Len(ls)
         /\ ls = [i \in DOMAIN ls |-> ls[i]]
         /\ \A i \in DOMAIN ls : ls[i] = [name |-> ls[i].name, value |-> ls[i].value]
BY DEF IsLines

(* A setting the file has is read on the first line that sets it.           *)
LEMMA ReadOn ==
  ASSUME NEW ls, IsLines(ls), NEW n, Has(ls, n)
  PROVE  \E i \in DOMAIN ls : First(ls, i, n) /\ Reads(ls, n) = ls[i].value
<1> DEFINE S == {i \in DOMAIN ls : ls[i].name = n}
<1>1. DOMAIN ls = 1 .. Len(ls) /\ Len(ls) \in Nat
  BY Lines
<1>2. S \in SUBSET Nat /\ S # {}
  BY <1>1 DEF Has
<1>3. PICK i \in S : \A j \in S : i <= j
  <2> HIDE DEF S
  <2> QED BY <1>2, Least
<1>4. First(ls, i, n)
  BY <1>1, <1>3 DEF First
<1> QED
  BY <1>3, <1>4 DEF Reads, First

(* There is only one such line.                                             *)
LEMMA OneFirst ==
  ASSUME NEW ls, IsLines(ls), NEW n, NEW i \in DOMAIN ls, First(ls, i, n)
  PROVE  Reads(ls, n) = ls[i].value
<1>1. DOMAIN ls = 1 .. Len(ls) /\ Len(ls) \in Nat
  BY Lines
<1>2. PICK j \in DOMAIN ls : First(ls, j, n) /\ Reads(ls, n) = ls[j].value
  BY ReadOn DEF Has, First
<1>3. ~(i < j) /\ ~(j < i)
  BY <1>1, <1>2 DEF First
<1> QED
  BY <1>1, <1>2, <1>3

(* What writing a set of settings makes of the file.                        *)
LEMMA Write ==
  ASSUME IsLines(lines), NEW to
  PROVE  /\ IsLines(Written(to)) /\ DOMAIN Written(to) = DOMAIN lines
         /\ \A i \in DOMAIN lines :
              /\ Written(to)[i].name = lines[i].name
              /\ Written(to)[i].value =
                   IF lines[i].name \in DOMAIN to /\ Sets(i, lines[i].name)
                   THEN to[lines[i].name] ELSE lines[i].value
<1>1. /\ DOMAIN lines = 1 .. Len(lines) /\ Len(lines) \in Nat
      /\ \A i \in DOMAIN lines : lines[i] = [name |-> lines[i].name, value |-> lines[i].value]
  BY Lines
<1>2. ASSUME NEW i \in DOMAIN lines
      PROVE  Written(to)[i] =
               [name |-> lines[i].name,
                value |-> IF lines[i].name \in DOMAIN to /\ Sets(i, lines[i].name)
                          THEN to[lines[i].name] ELSE lines[i].value]
  <2>1. [lines[i] EXCEPT !.value = to[lines[i].name]] =
          [name |-> lines[i].name, value |-> to[lines[i].name]]
    BY <1>1
  <2> QED
    BY <1>1, <2>1 DEF Written
<1>3. DOMAIN Written(to) = 1 .. Len(lines)
  BY <1>1 DEF Written
<1>4. Len(Written(to)) = Len(lines)
  <2> DEFINE S == {Written(to)[i] : i \in 1 .. Len(lines)}
  <2>1. Written(to) \in [1 .. Len(lines) -> S]
    BY <1>3 DEF Written
  <2>2. Written(to) \in Seq(S)
    BY <1>1, <2>1, SeqDef
  <2>3. DOMAIN Written(to) = 1 .. Len(Written(to)) /\ Len(Written(to)) \in Nat
    BY <2>2, LenProperties
  <2> QED
    BY <1>1, <1>3, <2>3
<1>5. IsLines(Written(to))
  <2>1. ASSUME NEW i \in 1 .. Len(lines)
        PROVE  Written(to)[i] = [name |-> Written(to)[i].name, value |-> Written(to)[i].value]
    <3>1. \E v : Written(to)[i] = [name |-> lines[i].name, value |-> v]
      BY <1>1, <1>2
    <3> QED
      BY <3>1
  <2>2. Written(to) = [i \in 1 .. Len(lines) |-> Written(to)[i]]
    BY <1>3 DEF Written
  <2>3. Written(to) = [i \in 1 .. Len(lines) |->
                         [name |-> Written(to)[i].name, value |-> Written(to)[i].value]]
    BY <2>1, <2>2
  <2> QED
    BY <1>1, <1>4, <2>3 DEF IsLines
<1> QED
  BY <1>1, <1>2, <1>3, <1>5

(* What is read afterwards.                                                 *)
LEMMA WriteReads ==
  ASSUME IsLines(lines), NEW to, NEW n, HasName(n)
  PROVE  Reads(Written(to), n) = IF n \in DOMAIN to THEN to[n] ELSE Reads(lines, n)
<1>1. PICK i \in DOMAIN lines : First(lines, i, n) /\ Reads(lines, n) = lines[i].value
  BY ReadOn DEF Has, HasName
<1>2. /\ IsLines(Written(to)) /\ DOMAIN Written(to) = DOMAIN lines
      /\ \A j \in DOMAIN lines : Written(to)[j].name = lines[j].name
  BY Write
<1>3. First(Written(to), i, n)
  <2>1. DOMAIN lines = 1 .. Len(lines) /\ Len(lines) \in Nat
    BY Lines
  <2>2. \A j \in 1 .. (i - 1) : j \in DOMAIN lines
    BY <1>1, <2>1
  <2> QED
    BY <1>1, <1>2, <2>2 DEF First
<1>4. Reads(Written(to), n) = Written(to)[i].value
  BY <1>1, <1>2, <1>3, OneFirst
<1>5. Sets(i, n)
  BY <1>1 DEF Sets, First
<1>6. Written(to)[i].value = IF n \in DOMAIN to THEN to[n] ELSE lines[i].value
  BY <1>1, <1>5, Write DEF First
<1> QED
  BY <1>1, <1>4, <1>6

NamesOf(ls) == {ls[i].name : i \in DOMAIN ls}

(* So the settings written that read otherwise before are those on which    *)
(* the two files differ.                                                    *)
LEMMA ChangedDiffer ==
  ASSUME IsLines(lines), NEW to
  PROVE  /\ NamesOf(Written(to)) = NamesOf(lines)
         /\ Changed(to) = {m \in NamesOf(lines) : Reads(Written(to), m) # Reads(lines, m)}
<1>1. \A n : HasName(n) <=> n \in NamesOf(lines)
  BY DEF HasName, NamesOf
<1>2. \A n : HasName(n) => Reads(Written(to), n) = IF n \in DOMAIN to THEN to[n] ELSE Reads(lines, n)
  BY WriteReads
<1>3. Changed(to) = {m \in NamesOf(lines) : Reads(Written(to), m) # Reads(lines, m)}
  BY <1>1, <1>2 DEF Changed
<1> QED
  BY <1>3, Write DEF NamesOf

-----------------------------------------------------------------------------
(* A plan, or the sign that there is none, can be told from a call.         *)
Plain == NoKeysPlan # [x \in DOMAIN NoKeysPlan |-> NoKeysPlan[x]]

Lends == call.kind \in {"bind", "install"}
(* What the record should be once the plan has been carried out.            *)
StillLent(after) == [n \in {m \in DOMAIN own : Reads(after, m) # own[m]} |-> own[n]]

(* The line of each setting that a way back changes.                        *)
PutBack(after) ==
  \A i \in DOMAIN lines :
    LET n == lines[i].name
    IN Sets(i, n) /\ after[i] # lines[i] =>
         \/ n \in DOMAIN own /\ after[i].value = own[n]
         \/ (\A a \in Actions : <<n[1], a>> \notin DOMAIN own) /\ after[i].value = Unbound

IsOwn(o, ls) == o = [n \in DOMAIN o |-> o[n]] /\ DOMAIN o \subseteq NamesOf(ls)

PlanHolds ==
  /\ keysRecord = own /\ call.before = lines /\ call.ownBefore = own
  /\ IsLines(call.plan.after) /\ NamesOf(call.plan.after) = NamesOf(lines)
  /\ Lends => /\ call.plan.record = FirstRead(call.plan.after)
              /\ (~call.plan.changes => call.plan.record = own)
  /\ ~Lends => /\ call.plan.record = StillLent(call.plan.after)
               /\ PutBack(call.plan.after)

DoneHolds ==
  /\ IsLines(call.before) /\ IsOwn(call.ownBefore, call.before)
  /\ NamesOf(call.before) = NamesOf(lines)
  /\ call.step = "save" => call.plan.record = own
  /\ call.step = "undo" => Lends
  /\ Lends => /\ keysRecord = call.ownBefore
              /\ call.applied \/ own = call.ownBefore

KeysInv ==
  unsure \/
  /\ IsLines(lines) /\ IsOwn(own, lines)
  /\ call = NoKeysPlan => keysRecord = own
  /\ call # NoKeysPlan =>
       /\ call.kind \in {"bind", "unbind", "install", "uninstall"}
       /\ call.step \in {"write", "save", "undo"}
       /\ call = [kind |-> call.kind, step |-> call.step, plan |-> call.plan,
                  before |-> call.before, ownBefore |-> call.ownBefore,
                  applied |-> call.applied]
       /\ call.plan = [to |-> call.plan.to, changes |-> call.plan.changes,
                       after |-> call.plan.after, record |-> call.plan.record]
       /\ call.step = "write" => PlanHolds
       /\ call.step # "write" => DoneHolds

(* The plan of a bind records what it is about to lend.                     *)
LEMMA BindHolds ==
  ASSUME IsLines(lines), keysRecord = own, IsOwn(own, lines), NEW to,
         NEW made, made = Plan(to, Recorded(keysRecord, to))
  PROVE  /\ made = [to |-> made.to, changes |-> made.changes,
                    after |-> made.after, record |-> made.record]
         /\ IsLines(made.after) /\ NamesOf(made.after) = NamesOf(lines)
         /\ made.record = FirstRead(made.after)
         /\ (~made.changes => made.record = own)
<1>1. /\ made.after = Written(to) /\ made.record = Recorded(keysRecord, to)
      /\ made.changes = (Changed(to) # {})
      /\ made = [to |-> made.to, changes |-> made.changes,
                 after |-> made.after, record |-> made.record]
  BY DEF Plan
<1>2. Changed(to) = {m \in {lines[i].name : i \in DOMAIN lines} :
                       Reads(Written(to), m) # Reads(lines, m)}
  BY ChangedDiffer DEF NamesOf
<1>3. Recorded(keysRecord, to) = FirstRead(Written(to))
  BY <1>2 DEF Recorded, FirstRead
<1>4. Changed(to) = {} => Recorded(keysRecord, to) = own
  BY DEF Recorded, IsOwn
<1> QED
  BY <1>1, <1>3, <1>4, Write, ChangedDiffer

(* That of a way back puts everything on record back.                       *)
LEMMA UnbindHolds ==
  ASSUME IsLines(lines), keysRecord = own, IsOwn(own, lines), NEW players,
         NEW made, made = UnbindPlan(players)
  PROVE  /\ made = [to |-> made.to, changes |-> made.changes,
                    after |-> made.after, record |-> made.record]
         /\ IsLines(made.after) /\ NamesOf(made.after) = NamesOf(lines)
         /\ made.record = StillLent(made.after)
         /\ PutBack(made.after)
<1> DEFINE to == Restoring(players)
<1>1. /\ made.after = Written(to) /\ made.record = Nobody
      /\ made = [to |-> made.to, changes |-> made.changes,
                 after |-> made.after, record |-> made.record]
  BY DEF Plan, UnbindPlan
<1>2. /\ DOMAIN to = DOMAIN own \cup Cleared(players)
      /\ \A n \in DOMAIN own : to[n] = own[n]
      /\ \A n \in DOMAIN to \ DOMAIN own : n \in Cleared(players) /\ to[n] = Unbound
  BY DEF Restoring
<1> HIDE DEF to
<1>3. \A n \in DOMAIN own : HasName(n)
  BY DEF IsOwn, NamesOf, HasName
<1>4. \A n \in DOMAIN own : Reads(Written(to), n) = own[n]
  BY <1>2, <1>3, WriteReads
<1>5. StillLent(Written(to)) = Nobody
  BY <1>4 DEF StillLent, Nobody
<1>6. PutBack(Written(to))
  <2> SUFFICES ASSUME NEW i \in DOMAIN lines, Sets(i, lines[i].name), Written(to)[i] # lines[i]
               PROVE  LET n == lines[i].name
                      IN  \/ n \in DOMAIN own /\ Written(to)[i].value = own[n]
                          \/ (\A a \in Actions : <<n[1], a>> \notin DOMAIN own)
                             /\ Written(to)[i].value = Unbound
    BY DEF PutBack
  <2> DEFINE n == lines[i].name
  <2>1. n \in DOMAIN to
    BY DEF Written
  <2>2. Written(to)[i].value = to[n]
    BY <2>1, Write
  <2>3. CASE n \in DOMAIN own
    BY <1>2, <2>2, <2>3
  <2>4. CASE n \notin DOMAIN own
    <3>1. n \in Cleared(players) /\ to[n] = Unbound
      BY <1>2, <2>1, <2>4
    <3>2. \A a \in Actions : <<n[1], a>> \notin DOMAIN own
      BY <3>1 DEF Cleared, PlayerRecorded
    <3> QED
      BY <2>2, <3>1, <3>2
  <2> QED
    BY <2>3, <2>4
<1> QED
  BY <1>1, <1>5, <1>6, Write, ChangedDiffer

(* A plan that leaves the file alone.                                       *)
LEMMA NothingHolds ==
  ASSUME IsLines(lines), keysRecord = own, IsOwn(own, lines),
         NEW made, made = [to |-> Nobody, changes |-> FALSE, after |-> lines,
                           record |-> keysRecord]
  PROVE  /\ made = [to |-> made.to, changes |-> made.changes,
                    after |-> made.after, record |-> made.record]
         /\ IsLines(made.after) /\ NamesOf(made.after) = NamesOf(lines)
         /\ made.record = FirstRead(made.after) /\ made.record = own
         /\ DOMAIN own = {} => made.record = StillLent(made.after)
         /\ PutBack(made.after)
<1>1. own = FirstRead(lines)
  BY DEF FirstRead, IsOwn
<1>2. DOMAIN own = {} => own = StillLent(lines)
  BY DEF StillLent, IsOwn
<1> QED
  BY <1>1, <1>2 DEF PutBack

(* The files hold from the start, with nothing lent.                        *)
LEMMA KeysStart == KeysAssumption /\ KeysInit => KeysInv
BY DEF KeysAssumption, KeysInit, KeysInv, IsOwn, Nobody

(* A call begins with a plan that holds.                                    *)
LEMMA KeysBegin ==
  ASSUME KeysInv, NEW kind \in {"bind", "unbind", "install", "uninstall"}, NEW made,
         Begin(kind, made),
         unsure \/ /\ made = [to |-> made.to, changes |-> made.changes,
                             after |-> made.after, record |-> made.record]
                   /\ IsLines(made.after) /\ NamesOf(made.after) = NamesOf(lines)
                   /\ kind \in {"bind", "install"} =>
                        /\ made.record = FirstRead(made.after)
                        /\ (~made.changes => made.record = own)
                   /\ kind \in {"unbind", "uninstall"} =>
                        /\ made.record = StillLent(made.after)
                        /\ PutBack(made.after)
  PROVE  KeysInv'
<1>1. CASE unsure
  BY <1>1 DEF KeysInv, Begin
<1>2. CASE ~unsure
  <2>1. /\ call' = [kind |-> kind, step |-> "write", plan |-> made, before |-> lines,
                    ownBefore |-> own, applied |-> FALSE]
        /\ UNCHANGED <<lines, keysRecord, own, unsure>>
        /\ keysRecord = own /\ IsLines(lines) /\ IsOwn(own, lines)
    BY <1>2 DEF Begin, KeysInv
  <2>2. /\ call'.kind = kind /\ call'.step = "write" /\ call'.plan = made
        /\ call'.before = lines /\ call'.ownBefore = own /\ call'.applied = FALSE
    BY <2>1
  <2>3. IsLines(lines)' /\ IsOwn(own, lines)' /\ keysRecord' = own'
    BY <2>1 DEF IsLines, IsOwn, NamesOf
  <2>4. PlanHolds'
    <3>1. FirstRead(made.after)' = FirstRead(made.after)
      BY <2>1, <2>2 DEF FirstRead, Reads
    <3> QED
    BY <1>2, <2>1, <2>2, <3>1 DEF PlanHolds, Lends, StillLent, PutBack, Sets
  <2>5. /\ call' = [kind |-> call'.kind, step |-> call'.step, plan |-> call'.plan,
                  before |-> call'.before, ownBefore |-> call'.ownBefore,
                  applied |-> call'.applied]
        /\ call'.plan = [to |-> call'.plan.to, changes |-> call'.plan.changes,
                       after |-> call'.plan.after, record |-> call'.plan.record]
    BY <1>2, <2>1, <2>2
  <2> QED
    BY <2>2, <2>3, <2>4, <2>5 DEF KeysInv
<1> QED
  BY <1>1, <1>2

(* Each of the four calls begins so.                                        *)
LEMMA KeysBegins ==
  ASSUME KeysInv,
         (\E list \in Lists : BeginBind(list) \/ BeginUnbind(list) \/ BeginInstallKeys(list))
         \/ BeginUninstallKeys
  PROVE  KeysInv'
<1> USE DEF Begin
<1>1. ASSUME NEW list \in Lists, BeginBind(list) PROVE KeysInv'
  <2> DEFINE players == Parsed(list)
             to      == Lent(players)
             made    == Plan(to, Recorded(keysRecord, to))
  <2>1. Begin("bind", made) /\ call = NoKeysPlan
    BY <1>1 DEF BeginBind, BindPlan
  <2>2. unsure \/ (IsLines(lines) /\ keysRecord = own /\ IsOwn(own, lines))
    BY <2>1 DEF KeysInv
  <2> HIDE DEF to
  <2> QED
    BY <2>1, <2>2, BindHolds, KeysBegin
<1>2. ASSUME NEW list \in Lists, BeginUnbind(list) PROVE KeysInv'
  <2>1. PICK players : Begin("unbind", UnbindPlan(players)) /\ call = NoKeysPlan
    BY <1>2 DEF BeginUnbind
  <2>2. unsure \/ (IsLines(lines) /\ keysRecord = own /\ IsOwn(own, lines))
    BY <2>1 DEF KeysInv
  <2> QED
    BY <2>1, <2>2, UnbindHolds, KeysBegin
<1> DEFINE nothing == [to |-> Nobody, changes |-> FALSE, after |-> lines, record |-> keysRecord]
<1>3. ASSUME NEW list \in Lists, BeginInstallKeys(list) PROVE KeysInv'
  <2>1. PICK made : /\ Begin("install", made) /\ call = NoKeysPlan
                    /\ \/ made = nothing
                       \/ \E players : made = BindPlan(players) /\ made # NoKeysPlan
    BY <1>3 DEF BeginInstallKeys
  <2>2. unsure \/ (IsLines(lines) /\ keysRecord = own /\ IsOwn(own, lines))
    BY <2>1 DEF KeysInv
  <2>3. CASE made = nothing
    BY <2>1, <2>2, <2>3, NothingHolds, KeysBegin
  <2>4. CASE \E players : made = BindPlan(players) /\ made # NoKeysPlan
    <3>1. PICK players : made = BindPlan(players) /\ made # NoKeysPlan
      BY <2>4
    <3> DEFINE to == Lent(players)
    <3>2. made = Plan(to, Recorded(keysRecord, to))
      BY <3>1 DEF BindPlan
    <3> HIDE DEF to
    <3> QED
      BY <2>1, <2>2, <3>2, BindHolds, KeysBegin
  <2> QED
    BY <2>1, <2>3, <2>4
<1>4. ASSUME BeginUninstallKeys PROVE KeysInv'
  <2>1. PICK made : /\ Begin("uninstall", made) /\ call = NoKeysPlan
                    /\ \/ made = nothing /\ DOMAIN keysRecord = {}
                       \/ made = UnbindPlan(<<>>)
    BY <1>4 DEF BeginUninstallKeys
  <2>2. unsure \/ (IsLines(lines) /\ keysRecord = own /\ IsOwn(own, lines))
    BY <2>1 DEF KeysInv
  <2>3. CASE made = nothing /\ DOMAIN keysRecord = {}
    BY <2>1, <2>2, <2>3, NothingHolds, KeysBegin
  <2>4. CASE made = UnbindPlan(<<>>)
    BY <2>1, <2>2, <2>4, UnbindHolds, KeysBegin
  <2> QED
    BY <2>1, <2>3, <2>4
<1> QED
  BY <1>1, <1>2, <1>3, <1>4

(* The file is written, or cannot be.                                       *)
LEMMA KeysWritten ==
  ASSUME Plain, KeysInv, WriteKeys \/ WriteFails
  PROVE  KeysInv'
<1>1. CASE unsure
  BY <1>1 DEF KeysInv, WriteKeys, WriteFails
<1> SUFFICES ASSUME ~unsure PROVE KeysInv'
  BY <1>1
<1>2. /\ call # NoKeysPlan /\ call.step = "write" /\ PlanHolds
      /\ call.kind \in {"bind", "unbind", "install", "uninstall"}
      /\ IsLines(lines) /\ IsOwn(own, lines)
      /\ call = [kind |-> call.kind, step |-> call.step, plan |-> call.plan,
                 before |-> call.before, ownBefore |-> call.ownBefore,
                 applied |-> call.applied]
      /\ call.plan = [to |-> call.plan.to, changes |-> call.plan.changes,
                      after |-> call.plan.after, record |-> call.plan.record]
  BY DEF KeysInv, WriteKeys, WriteFails
<1>3. CASE WriteKeys
  <2>1. /\ lines' = call.plan.after /\ keysRecord' = keysRecord /\ unsure' = unsure
        /\ call' = [kind |-> call.kind, step |-> "save", plan |-> call.plan,
                    before |-> call.before, ownBefore |-> call.ownBefore,
                    applied |-> call.plan.changes]
    BY <1>2, <1>3 DEF WriteKeys
  <2>2. own' = call.plan.record /\ IsOwn(own, lines)'
    <3>1. CASE Lends
      <4>1. own' = FirstRead(lines')
        BY <1>3, <3>1 DEF WriteKeys, Lends
      <4>2. own' = FirstRead(call.plan.after) /\ own' = call.plan.record
        BY <1>2, <2>1, <3>1, <4>1 DEF PlanHolds
      <4>3. own' = [n \in DOMAIN own' |-> own'[n]] /\ DOMAIN own' \subseteq NamesOf(lines)
        BY <1>2, <4>2 DEF FirstRead, IsOwn, NamesOf
      <4> QED
        BY <1>2, <2>1, <4>2, <4>3 DEF IsOwn, NamesOf, PlanHolds
    <3>2. CASE ~Lends
      <4>1. own' = [n \in {m \in DOMAIN own : Reads(lines', m) # own[m]} |-> own[n]]
        BY <1>3, <3>2 DEF WriteKeys, Lends
      <4>2. own' = StillLent(call.plan.after)
        BY <2>1, <4>1 DEF StillLent
      <4>3. own' = [n \in DOMAIN own' |-> own'[n]] /\ DOMAIN own' \subseteq NamesOf(lines)
        BY <1>2, <4>2 DEF StillLent, IsOwn
      <4> QED
        BY <1>2, <2>1, <3>2, <4>2, <4>3 DEF IsOwn, NamesOf, PlanHolds
    <3> QED
      BY <3>1, <3>2
  <2>3. IsLines(lines)' /\ NamesOf(lines)' = NamesOf(lines)
    <3>1. IsLines(call.plan.after) /\ NamesOf(call.plan.after) = NamesOf(lines)
      BY <1>2 DEF PlanHolds
    <3> QED
      BY <2>1, <3>1 DEF IsLines, NamesOf
  <2>4. /\ call'.kind = call.kind /\ call'.step = "save" /\ call'.plan = call.plan
        /\ call'.before = call.before /\ call'.ownBefore = call.ownBefore
        /\ call'.applied = call.plan.changes
    BY <2>1
  <2>5. call' # NoKeysPlan
    BY <2>1 DEF Plain
  <2>6. DoneHolds'
    <3>1. Lends' = Lends
      BY <2>4 DEF Lends
    <3>2. IsLines(call.before)' /\ IsOwn(call.ownBefore, call.before)'
      BY <1>2, <2>4 DEF PlanHolds, IsLines, IsOwn, NamesOf
    <3>3. NamesOf(call.before)' = NamesOf(lines)'
      BY <1>2, <2>3, <2>4 DEF PlanHolds, NamesOf
    <3>4. call'.plan.record = own'
      BY <2>2, <2>4
    <3>5. Lends => keysRecord' = call'.ownBefore /\ (call'.applied \/ own' = call'.ownBefore)
      BY <1>2, <2>1, <2>2, <2>4 DEF PlanHolds
    <3> QED
      BY <2>4, <3>1, <3>2, <3>3, <3>4, <3>5 DEF DoneHolds
  <2> QED
    BY <1>2, <2>1, <2>2, <2>3, <2>4, <2>5, <2>6 DEF KeysInv
<1>4. CASE WriteFails
  <2>1. UNCHANGED <<lines, keysRecord, own, unsure>> /\ keysRecord = own
    BY <1>2, <1>4 DEF WriteFails, PlanHolds
  <2>2. IsLines(lines)' /\ IsOwn(own, lines)' /\ keysRecord' = own'
    BY <1>2, <2>1 DEF IsLines, IsOwn, NamesOf
  <2>3. CASE call.kind # "uninstall"
    <3>1. call' = NoKeysPlan
      BY <1>4, <2>3 DEF WriteFails, End
    <3> QED
      BY <2>2, <3>1 DEF KeysInv
  <2>4. CASE call.kind = "uninstall"
    <3>1. call' = [call EXCEPT !.step = "save", !.plan.record = keysRecord]
      BY <1>4, <2>4 DEF WriteFails
    <3>2. call' = [kind |-> call.kind, step |-> "save",
                   plan |-> [to |-> call.plan.to, changes |-> call.plan.changes,
                             after |-> call.plan.after, record |-> keysRecord],
                   before |-> call.before, ownBefore |-> call.ownBefore,
                   applied |-> call.applied]
      BY <1>2, <3>1
    <3>3. /\ call'.kind = "uninstall" /\ call'.step = "save"
          /\ call'.plan = [to |-> call.plan.to, changes |-> call.plan.changes,
                           after |-> call.plan.after, record |-> keysRecord]
          /\ call'.before = call.before /\ call'.ownBefore = call.ownBefore
          /\ call'.applied = call.applied /\ call' # NoKeysPlan
      BY <2>4, <3>2 DEF Plain
    <3>4. call'.plan.record = own'
      BY <2>1, <3>3
    <3>5. DoneHolds'
      BY <1>2, <2>1, <2>2, <3>3, <3>4 DEF DoneHolds, Lends, PlanHolds, IsOwn, IsLines, NamesOf
    <3>6. /\ call' = [kind |-> call'.kind, step |-> call'.step, plan |-> call'.plan,
                  before |-> call'.before, ownBefore |-> call'.ownBefore,
                  applied |-> call'.applied]
          /\ call'.plan = [to |-> call'.plan.to, changes |-> call'.plan.changes,
                       after |-> call'.plan.after, record |-> call'.plan.record]
      BY <3>2, <3>3
    <3> QED
      BY <2>2, <3>3, <3>5, <3>6 DEF KeysInv
  <2> QED
    BY <2>3, <2>4
<1> QED
  BY <1>3, <1>4

(* Every step after that.                                                   *)
LEMMA KeysAfterwards ==
  ASSUME Plain, KeysInv, InstallFails \/ SaveRecord \/ SaveFails \/ UndoKeys \/ UndoKeysFails
                         \/ KeysCrash
  PROVE  KeysInv'
<1>1. CASE unsure'
  BY <1>1 DEF KeysInv
<1> SUFFICES ASSUME ~unsure' PROVE KeysInv'
  BY <1>1
<1>2. ~KeysCrash /\ ~UndoKeysFails
  BY DEF KeysCrash, UndoKeysFails, Unsure
<1>3. /\ ~unsure /\ unsure' = unsure /\ call # NoKeysPlan
      /\ (SaveFails => call.kind = "bind")
  <2>1. SaveFails => call.kind = "bind"
    BY DEF SaveFails, Unsure
  <2>2. unsure' = unsure
    BY <1>2, <2>1 DEF InstallFails, SaveRecord, SaveFails, UndoKeys
  <2> QED
    BY <1>2, <2>1, <2>2 DEF InstallFails, SaveRecord, SaveFails, UndoKeys
<1>4. /\ call.kind \in {"bind", "unbind", "install", "uninstall"}
      /\ IsLines(lines) /\ IsOwn(own, lines) /\ call.step \in {"save", "undo"} /\ DoneHolds
      /\ call = [kind |-> call.kind, step |-> call.step, plan |-> call.plan,
                 before |-> call.before, ownBefore |-> call.ownBefore,
                 applied |-> call.applied]
      /\ call.plan = [to |-> call.plan.to, changes |-> call.plan.changes,
                      after |-> call.plan.after, record |-> call.plan.record]
  BY <1>2, <1>3 DEF KeysInv, InstallFails, SaveRecord, SaveFails, UndoKeys
<1>5. CASE InstallFails \/ SaveFails
  <2>1. /\ UNCHANGED <<lines, keysRecord, own>> /\ call' = [call EXCEPT !.step = "undo"]
        /\ Lends
    BY <1>2, <1>3, <1>5 DEF InstallFails, SaveFails, Went, Lends
  <2>2. /\ call'.kind = call.kind /\ call'.step = "undo" /\ call'.plan = call.plan
        /\ call'.before = call.before /\ call'.ownBefore = call.ownBefore
        /\ call'.applied = call.applied /\ call' # NoKeysPlan
        /\ call' = [kind |-> call.kind, step |-> "undo", plan |-> call.plan,
                 before |-> call.before, ownBefore |-> call.ownBefore,
                 applied |-> call.applied]
    <3>1. call' = [kind |-> call.kind, step |-> "undo", plan |-> call.plan,
                 before |-> call.before, ownBefore |-> call.ownBefore,
                 applied |-> call.applied]
      BY <1>4, <2>1
    <3> QED
      BY <3>1 DEF Plain
  <2>3. IsLines(lines)' /\ IsOwn(own, lines)'
    BY <1>4, <2>1 DEF IsLines, IsOwn, NamesOf
  <2>4. DoneHolds'
    <3>1. /\ IsLines(call.before)' /\ IsOwn(call.ownBefore, call.before)'
          /\ NamesOf(call.before)' = NamesOf(lines)'
      <4>1. /\ IsLines(call.before) /\ IsOwn(call.ownBefore, call.before)
            /\ NamesOf(call.before) = NamesOf(lines)
        BY <1>4 DEF DoneHolds
      <4>2. lines' = lines /\ call'.before = call.before /\ call'.ownBefore = call.ownBefore
        BY <2>1, <2>2
      <4>3. IsLines(call.before)'
        BY <4>1, <4>2 DEF IsLines
      <4>4. NamesOf(call.before)' = NamesOf(call.before) /\ NamesOf(lines)' = NamesOf(lines)
        BY <4>2 DEF NamesOf
      <4>5. IsOwn(call.ownBefore, call.before)'
        BY <4>1, <4>2, <4>4 DEF IsOwn
      <4> QED
        BY <4>1, <4>3, <4>4, <4>5
    <3>2. keysRecord' = call'.ownBefore /\ (call'.applied \/ own' = call'.ownBefore) /\ Lends'
      BY <1>4, <2>1, <2>2 DEF DoneHolds, Lends
    <3> QED
      BY <2>2, <3>1, <3>2 DEF DoneHolds
  <2> QED
    BY <1>4, <2>2, <2>3, <2>4 DEF KeysInv
<1>6. CASE SaveRecord
  <2>1. UNCHANGED <<lines, own>> /\ call' = NoKeysPlan /\ keysRecord' = own
    BY <1>4, <1>6 DEF SaveRecord, End, DoneHolds
  <2> QED
    BY <1>4, <2>1 DEF KeysInv, IsLines, IsOwn, NamesOf
<1>7. CASE UndoKeys
  <2>1. /\ call' = NoKeysPlan /\ keysRecord' = keysRecord /\ keysRecord = call.ownBefore
        /\ call.applied \/ own = call.ownBefore
    BY <1>4, <1>7 DEF UndoKeys, End, DoneHolds
  <2>2. CASE call.applied
    <3>1. lines' = call.before /\ own' = call.ownBefore
      BY <1>7, <2>2 DEF UndoKeys
    <3> QED
      BY <1>4, <2>1, <3>1 DEF DoneHolds, KeysInv, IsLines, IsOwn, NamesOf
  <2>3. CASE ~call.applied
    <3>1. lines' = lines /\ own' = own
      BY <1>7, <2>3 DEF UndoKeys
    <3> QED
      BY <1>4, <2>1, <2>3, <3>1 DEF DoneHolds, KeysInv, IsLines, IsOwn, NamesOf
  <2> QED
    BY <2>2, <2>3
<1> QED
  BY <1>2, <1>5, <1>6, <1>7

(* The player chooses another key.                                          *)
LEMMA KeysChosen ==
  ASSUME KeysInv, NEW i \in DOMAIN lines, NEW key, Rebind(i, key)
  PROVE  KeysInv'
<1>1. CASE unsure
  BY <1>1 DEF KeysInv, Rebind
<1> SUFFICES ASSUME ~unsure PROVE KeysInv'
  BY <1>1
<1>2. /\ IsLines(lines) /\ IsOwn(own, lines) /\ keysRecord = own /\ call = NoKeysPlan
      /\ UNCHANGED <<keysRecord, call, own, unsure>>
      /\ lines' = [lines EXCEPT ![i].value = key]
  BY DEF KeysInv, Rebind
<1>3. /\ DOMAIN lines = 1 .. Len(lines) /\ Len(lines) \in Nat
      /\ \A j \in DOMAIN lines : lines[j] = [name |-> lines[j].name, value |-> lines[j].value]
  BY <1>2, Lines
<1>4. /\ DOMAIN lines' = DOMAIN lines
      /\ \A j \in DOMAIN lines : lines'[j] = [name |-> lines[j].name, value |-> lines'[j].value]
  BY <1>2, <1>3
<1>5. NamesOf(lines)' = NamesOf(lines)
  BY <1>4 DEF NamesOf
<1>6. IsLines(lines)'
  <2> DEFINE S == {lines'[j] : j \in 1 .. Len(lines)}
  <2>1. lines' \in [1 .. Len(lines) -> S]
    BY <1>2, <1>3
  <2>2. lines' \in Seq(S)
    BY <1>3, <2>1, SeqDef
  <2>3. DOMAIN lines' = 1 .. Len(lines') /\ Len(lines') \in Nat
    BY <2>2, LenProperties
  <2>4. Len(lines') = Len(lines)
    BY <1>3, <1>4, <2>3
  <2>5. lines' = [j \in 1 .. Len(lines) |-> lines'[j]]
    BY <2>1
  <2>6. lines' = [j \in 1 .. Len(lines) |-> [name |-> lines'[j].name, value |-> lines'[j].value]]
    BY <1>3, <1>4, <2>5
  <2> QED
    BY <1>3, <2>4, <2>6 DEF IsLines
<1> QED
  BY <1>2, <1>5, <1>6 DEF KeysInv, IsOwn

(* Every step keeps it.                                                     *)
LEMMA KeysStep == Plain /\ KeysInv /\ [KeysNext]_keysVars => KeysInv'
<1> SUFFICES ASSUME Plain, KeysInv, [KeysNext]_keysVars PROVE KeysInv'
  OBVIOUS
<1>1. CASE UNCHANGED keysVars
  <2>1. UNCHANGED <<lines, keysRecord, call, own, unsure>>
    BY <1>1 DEF keysVars
  <2>2. IsLines(lines)' = IsLines(lines) /\ IsOwn(own, lines)' = IsOwn(own, lines)
    BY <2>1 DEF IsLines, IsOwn, NamesOf
  <2>3. DoneHolds' = DoneHolds
    BY <2>1 DEF DoneHolds, Lends, IsLines, IsOwn, NamesOf
  <2>4. PlanHolds' = PlanHolds
    <3>1. /\ FirstRead(call.plan.after)' = FirstRead(call.plan.after)
          /\ StillLent(call.plan.after)' = StillLent(call.plan.after)
      BY <2>1 DEF FirstRead, StillLent, Reads
    <3>2. PutBack(call.plan.after)' = PutBack(call.plan.after)
      BY <2>1 DEF PutBack, Sets
    <3>3. /\ IsLines(call.plan.after)' = IsLines(call.plan.after)
          /\ NamesOf(call.plan.after)' = NamesOf(call.plan.after)
          /\ NamesOf(lines)' = NamesOf(lines)
      BY <2>1 DEF IsLines, NamesOf
    <3> QED
      BY <2>1, <3>1, <3>2, <3>3 DEF PlanHolds, Lends
  <2> QED
    BY <2>1, <2>2, <2>3, <2>4 DEF KeysInv
<1> QED
  BY <1>1, KeysBegins, KeysWritten, KeysAfterwards, KeysChosen DEF KeysNext

(* Between calls the record tells what each setting read before tabber      *)
(* first wrote it (`RecordTells`).                                          *)
THEOREM TheRecordTells == ASSUME Plain PROVE KeysSpec => []RecordTells
<1>1. KeysInit => KeysInv
  BY KeysAssumption, KeysStart
<1>2. KeysInv => RecordTells
  BY DEF KeysInv, RecordTells
<1> QED
  BY <1>1, <1>2, KeysStep, PTL DEF KeysSpec

(* What a way back writes is what was there first (`UnbindPutsBack`).       *)
LEMMA KeysBack ==
  ASSUME KeysInv, KeysNext, ~unsure, call # NoKeysPlan, call.kind \in {"unbind", "uninstall"},
         lines' # lines
  PROVE  PutBack(lines')
<1>1. WriteKeys
  <2>1. ~UndoKeys
    BY DEF KeysInv, UndoKeys, DoneHolds, Lends
  <2> QED
    BY <2>1 DEF KeysNext, BeginBind, BeginUnbind, BeginInstallKeys, BeginUninstallKeys, Begin,
                WriteFails, InstallFails, SaveRecord, SaveFails, UndoKeysFails, KeysCrash, Rebind
<1>2. PlanHolds /\ ~Lends /\ lines' = call.plan.after
  BY <1>1 DEF KeysInv, WriteKeys, Lends
<1> QED
  BY <1>2 DEF PlanHolds

(* An unbind or an uninstall gives every setting it writes back what it     *)
(* read before tabber first wrote it, or clears it where nothing was lent   *)
(* (`UnbindPutsBack`).                                                      *)
THEOREM UnbindsPutBack == ASSUME Plain PROVE KeysSpec => UnbindPutsBack
<1>1. KeysInit => KeysInv
  BY KeysAssumption, KeysStart
<1> DEFINE Back == (/\ ~unsure /\ call # NoKeysPlan /\ call.kind \in {"unbind", "uninstall"}
                    /\ lines' # lines) => PutBack(lines')
<1>2. KeysInv /\ [KeysNext]_keysVars => Back
  BY KeysBack DEF keysVars
<1>3. Back => [Back]_keysVars
  OBVIOUS
<1> QED
  BY <1>1, <1>2, KeysStep, PTL DEF KeysSpec, UnbindPutsBack, PutBack

-----------------------------------------------------------------------------
(* Palettes.  The plan is settled one bundled palette after the other; that *)
(* there is such a plan at all follows by going on from the shorter ones.   *)
Upto(f, k, mode) ==
  f = [i \in 0 .. k |-> IF i = 0 THEN [items |-> <<>>, taken |-> Present, adding |-> 0]
                        ELSE Settle(f[i - 1], i, mode)]

(* One more palette can always be settled.                                  *)
LEMMA OneMore ==
  ASSUME NEW mode, NEW k \in Nat, \E f : Upto(f, k, mode)
  PROVE  \E f : Upto(f, k + 1, mode)
<1>1. PICK f : Upto(f, k, mode)
  OBVIOUS
<1> DEFINE g == [i \in 0 .. (k + 1) |-> IF i <= k THEN f[i] ELSE Settle(f[k], k + 1, mode)]
<1>2. ASSUME NEW i \in 0 .. (k + 1)
      PROVE  g[i] = IF i = 0 THEN [items |-> <<>>, taken |-> Present, adding |-> 0]
                    ELSE Settle(g[i - 1], i, mode)
  <2>1. CASE i = 0
    BY <1>1, <2>1 DEF Upto
  <2>2. CASE i # 0
    <3>1. g[i - 1] = f[i - 1]
      BY <2>2
    <3>2. g[i] = Settle(f[i - 1], i, mode)
      BY <1>1, <2>2 DEF Upto
    <3> QED
      BY <2>2, <3>1, <3>2
  <2> QED
    BY <2>1, <2>2
<1>3. g = [i \in 0 .. (k + 1) |-> g[i]]
  OBVIOUS
<1> HIDE DEF g
<1>4. Upto(g, k + 1, mode)
  BY <1>2, <1>3 DEF Upto
<1> QED
  BY <1>4

(* So all of them can be.                                                   *)
LEMMA AllSettled ==
  ASSUME NEW mode, NEW n \in Nat
  PROVE  \E f : Upto(f, n, mode)
<1> DEFINE S == {k \in Nat : ~ \E f : Upto(f, k, mode)}
<1>1. ASSUME S # {} PROVE FALSE
  <2>1. PICK k \in S : \A j \in S : k <= j
    <3>1. S \in SUBSET Nat
      OBVIOUS
    <3> HIDE DEF S
    <3> QED
      BY <1>1, <3>1, Least
  <2>2. k # 0
    <3> DEFINE f == [i \in 0 .. 0 |-> [items |-> <<>>, taken |-> Present, adding |-> 0]]
    <3>1. Upto(f, 0, mode)
      BY DEF Upto
    <3> QED
      BY <2>1, <3>1
  <2>3. k - 1 \in Nat /\ k - 1 \notin S
    BY <2>1, <2>2
  <2>4. \E f : Upto(f, (k - 1) + 1, mode)
    <3>1. \E f : Upto(f, k - 1, mode)
      BY <2>3
    <3> QED
      BY <2>3, <3>1, OneMore
  <2>5. (k - 1) + 1 = k
    BY <2>1
  <2> QED
    BY <2>1, <2>4, <2>5
<1> QED
  BY <1>1

(* And the code's plan is the last of them.                                 *)
LEMMA SettledIs ==
  ASSUME NEW mode, Len(Bundled) \in Nat
  PROVE  \E f : Upto(f, Len(Bundled), mode) /\ Settled(mode) = f[Len(Bundled)].items
<1> DEFINE f == CHOOSE f : f = [i \in 0 .. Len(Bundled) |->
                    IF i = 0 THEN [items |-> <<>>, taken |-> Present, adding |-> 0]
                    ELSE Settle(f[i - 1], i, mode)]
<1>1. \E g : g = [i \in 0 .. Len(Bundled) |->
                    IF i = 0 THEN [items |-> <<>>, taken |-> Present, adding |-> 0]
                    ELSE Settle(g[i - 1], i, mode)]
  BY AllSettled DEF Upto
<1>2. Upto(f, Len(Bundled), mode)
  BY <1>1 DEF Upto
<1>3. Settled(mode) = f[Len(Bundled)].items
  BY DEF Settled
<1> HIDE DEF f
<1> QED
  BY <1>2, <1>3

Items == [dest : Names, over : BOOLEAN]
Ours(list) == {list[k].dest : k \in DOMAIN list}
Seen(f, but) == {n \in Names \ but : f[n] # "none"}

(* What the palettes settled so far come to: each has a folder of its own,  *)
(* one the library bakes no palette of; it is taken already just when the   *)
(* palette there is to be replaced; and what is added fits.                 *)
Chosen(list, mode, f) ==
  /\ list \in Seq(Items)
  /\ \A k, l \in DOMAIN list : list[k].dest = list[l].dest => k = l
  /\ \A k \in DOMAIN list : /\ list[k].dest \notin Baked
                            /\ list[k].over <=> f[list[k].dest] # "none"
                            /\ list[k].over => mode = "replace"

Fits(list, f, s) ==
  \/ \A k \in DOMAIN list : list[k].over
  \/ Cardinality(Seen(f, Baked) \cup Ours(list)) + Cardinality(Seen(s, {})) <= Room

SoFar(so, i, mode) ==
  /\ Chosen(so.items, mode, folder) /\ Fits(so.items, folder, stash)
  /\ so.taken = Present \cup Ours(so.items)
  /\ so.adding \in Nat
  /\ Cardinality(Seen(folder, Baked) \cup Ours(so.items)) = Cardinality(Seen(folder, Baked)) + so.adding
  /\ mode = "replace" => Ours(so.items) \subseteq Bundles(i)

(* Adding an item at the end.                                               *)
LEMMA OneItem ==
  ASSUME NEW list \in Seq(Items), NEW item \in Items
  PROVE  LET new == Append(list, item) IN
         /\ new \in Seq(Items)
         /\ DOMAIN list = 1 .. Len(list) /\ DOMAIN new = 1 .. (Len(list) + 1) /\ Len(list) \in Nat
         /\ \A k \in DOMAIN list : new[k] = list[k]
         /\ new[Len(list) + 1] = item
         /\ Ours(new) = Ours(list) \cup {item.dest}
<1> DEFINE new == Append(list, item)
<1>1. /\ new \in Seq(Items)
      /\ DOMAIN list = 1 .. Len(list) /\ DOMAIN new = 1 .. (Len(list) + 1) /\ Len(list) \in Nat
      /\ \A k \in DOMAIN list : new[k] = list[k]
      /\ new[Len(list) + 1] = item
  OBVIOUS
<1> HIDE DEF new
<1>2. Ours(new) \subseteq Ours(list) \cup {item.dest}
  BY <1>1 DEF Ours
<1>3. Ours(list) \cup {item.dest} \subseteq Ours(new)
  <2>1. item.dest = new[Len(list) + 1].dest /\ Len(list) + 1 \in DOMAIN new
    BY <1>1
  <2>2. \A k \in DOMAIN list : k \in DOMAIN new /\ list[k].dest = new[k].dest
    BY <1>1
  <2> QED
    BY <2>1, <2>2 DEF Ours
<1> QED
  BY <1>1, <1>2, <1>3 DEF new

(* Settling one more keeps it so.                                           *)
LEMMA SettleOne ==
  ASSUME NamesAssumption, RoomAssumption, folder \in [Names -> Contents], stash \in [Names -> Contents],
         NEW mode, NEW i \in DOMAIN Bundled, NEW so, SoFar(so, i - 1, mode)
  PROVE  SoFar(Settle(so, i, mode), i, mode)
<1> DEFINE name == Target(Bundled[i], mode, so.taken)
           over == name \in so.taken
<1>1. /\ Bundled[i] \in Names /\ i \in Nat \ {0} /\ Bundles(i - 1) \subseteq Bundles(i)
      /\ Bundled[i] \in Bundles(i)
  <2>1. DOMAIN Bundled = 1 .. Len(Bundled) /\ Len(Bundled) \in Nat /\ Bundled \in Seq(Names)
    BY DEF NamesAssumption
  <2> QED
    BY <2>1 DEF Bundles
<1>2. CASE Bundled[i] \in Bundles(i - 1) \/ name = NoName \/ (~over /\ Full(so.adding))
  <2>1. Settle(so, i, mode) = so
    BY <1>2 DEF Settle
  <2> QED
    BY <1>1, <2>1 DEF SoFar
<1>3. CASE Bundled[i] \notin Bundles(i - 1) /\ name # NoName /\ (over \/ ~Full(so.adding))
  <2> DEFINE new == Append(so.items, [dest |-> name, over |-> over])
             all == [items  |-> new, taken |-> so.taken \cup {name},
                     adding |-> so.adding + (IF over THEN 0 ELSE 1)]
  <2>1. Settle(so, i, mode) = all
    BY <1>3 DEF Settle
  <2>2. /\ name \in Names /\ name \notin Baked
        /\ over => mode = "replace" /\ name = Bundled[i]
        /\ mode = "replace" => name = Bundled[i]
    <3>1. CASE Bundled[i] \notin Baked \cup so.taken
      BY <1>1, <3>1 DEF Target
    <3>2. CASE Bundled[i] \in Baked \cup so.taken /\ mode = "suffix"
      <4>1. name = FreeName(Bundled[i], so.taken)
        BY <3>2 DEF Target
      <4> DEFINE sfx  == Suffixed[Bundled[i]]
                 free == {j \in DOMAIN sfx : sfx[j] \notin Baked \cup so.taken}
      <4>2. free # {} /\ name = sfx[CHOOSE j \in free : \A l \in free : j <= l]
        BY <1>3, <4>1 DEF FreeName
      <4>3. sfx \in Seq(Names) /\ DOMAIN sfx = 1 .. Len(sfx) /\ Len(sfx) \in Nat
        BY <1>1 DEF NamesAssumption
      <4>4. \E j \in free : \A l \in free : j <= l
        <5>1. free \in SUBSET Nat
          BY <4>3
        <5> HIDE DEF free
        <5> QED
          BY <4>2, <5>1, Least
      <4>5. PICK j \in free : name = sfx[j]
        BY <4>2, <4>4
      <4> QED
        BY <3>2, <4>3, <4>5
    <3>3. CASE Bundled[i] \in Baked \cup so.taken /\ mode # "suffix"
      <4>1. mode = "replace" /\ Bundled[i] \notin Baked /\ name = Bundled[i]
        BY <1>3, <3>3 DEF Target
      <4> QED
        BY <1>1, <4>1
    <3> QED
      BY <3>1, <3>2, <3>3
  <2>3. so.items \in Seq(Items) /\ so.taken = Present \cup Ours(so.items)
    BY DEF SoFar, Chosen
  <2> DEFINE n == Len(so.items)
  <2>o. over \in BOOLEAN /\ (over <=> name \in so.taken)
    OBVIOUS
  <2> HIDE DEF name, over
  <2> DEFINE item == [dest |-> name, over |-> over]
  <2>i. item \in Items /\ item.dest = name /\ item.over = over
    BY <2>2, <2>o DEF Items
  <2> HIDE DEF item
  <2>4. /\ new \in Seq(Items)
        /\ DOMAIN so.items = 1 .. n /\ DOMAIN new = 1 .. (n + 1) /\ n \in Nat
        /\ \A k \in DOMAIN so.items : new[k] = so.items[k]
        /\ new[n + 1] = item
        /\ Ours(new) = Ours(so.items) \cup {item.dest}
    <3>1. new = Append(so.items, item)
      BY DEF item
    <3> HIDE DEF new
    <3> QED
      BY <2>3, <2>i, <3>1, OneItem
  <2>n. /\ new[n + 1].dest = name /\ new[n + 1].over = over
        /\ Ours(new) = Ours(so.items) \cup {name}
    BY <2>4, <2>i
  <2>5. name \notin Ours(so.items) /\ (over <=> folder[name] # "none")
    <3>1. mode = "replace" => name \notin Ours(so.items)
      BY <1>3, <2>2 DEF SoFar
    <3>2. name \notin Ours(so.items)
      BY <2>2, <2>3, <2>o, <3>1
    <3> QED
      BY <2>2, <2>3, <2>o, <3>2 DEF Present
  <2>6. Chosen(new, mode, folder)
    <3>1. \A k, l \in DOMAIN new : new[k].dest = new[l].dest => k = l
      <4>1. \A k \in DOMAIN so.items : new[k].dest # name
        BY <2>4, <2>5 DEF Ours
      <4>2. \A k, l \in DOMAIN so.items : new[k].dest = new[l].dest => k = l
        BY <2>4 DEF SoFar, Chosen
      <4>3. \A k \in DOMAIN new : k \in DOMAIN so.items \/ k = n + 1
        BY <2>4
      <4> QED
        BY <2>4, <4>1, <4>2, <4>3
    <3>2. ASSUME NEW k \in DOMAIN new
          PROVE  /\ new[k].dest \notin Baked
                 /\ new[k].over <=> folder[new[k].dest] # "none"
                 /\ new[k].over => mode = "replace"
      <4>1. CASE k \in DOMAIN so.items
        BY <2>4, <4>1 DEF SoFar, Chosen
      <4>2. CASE k = n + 1
        BY <2>2, <2>n, <2>o, <2>5, <4>2
      <4> QED
        BY <2>4, <4>1, <4>2
    <3> QED
      BY <2>4, <3>1, <3>2 DEF Chosen
  <2> DEFINE old == Seen(folder, Baked) \cup Ours(so.items)
  <2>7. /\ IsFiniteSet(old) /\ Cardinality(old) \in Nat /\ Cardinality(Seen(folder, Baked)) \in Nat
        /\ Cardinality(Seen(stash, {})) \in Nat
    <3>1. old \in SUBSET Names /\ Seen(folder, Baked) \in SUBSET Names /\ Seen(stash, {}) \in SUBSET Names
      <4>1. \A k \in DOMAIN so.items : so.items[k].dest \in Names
        <5>1. \A k \in DOMAIN so.items : so.items[k] \in Items
          BY <2>3, <2>4, ElementOfSeq
        <5> QED
          BY <5>1 DEF Items
      <4> QED
        BY <4>1 DEF Seen, Ours
    <3>2. IsFiniteSet(Names)
      BY DEF NamesAssumption
    <3> QED
      BY <3>1, <3>2, FS_Subset, FS_CardinalityType
  <2>8. Cardinality(Seen(folder, Baked) \cup Ours(new)) = Cardinality(old) + (IF over THEN 0 ELSE 1)
    <3>1. Seen(folder, Baked) \cup Ours(new) = old \cup {name}
      BY <2>n
    <3>2. name \in old <=> over
      BY <2>2, <2>5 DEF Seen
    <3> HIDE DEF old
    <3>3. Cardinality(old \cup {name}) = IF name \in old THEN Cardinality(old) ELSE Cardinality(old) + 1
      BY <2>7, FS_AddElement
    <3>4. CASE over
      <4>1. Cardinality(old) + (IF over THEN 0 ELSE 1) = Cardinality(old)
        BY <2>7, <3>4
      <4> QED
        BY <3>1, <3>2, <3>3, <3>4, <4>1
    <3>5. CASE ~over
      BY <3>1, <3>2, <3>3, <3>5
    <3> QED
      BY <3>4, <3>5
  <2>9. /\ Cardinality(old) = Cardinality(Seen(folder, Baked)) + so.adding
        /\ so.adding \in Nat
    BY DEF SoFar
  <2>10. Fits(new, folder, stash)
    <3>1. CASE over
      <4>1. Cardinality(Seen(folder, Baked) \cup Ours(new)) = Cardinality(old)
        BY <2>7, <2>8, <3>1
      <4>2. (\A k \in DOMAIN so.items : so.items[k].over) => \A k \in DOMAIN new : new[k].over
        <5>1. \A k \in DOMAIN new : k \in DOMAIN so.items \/ k = n + 1
          BY <2>4
        <5> QED
          BY <2>4, <2>n, <3>1, <5>1
      <4> QED
        BY <4>1, <4>2 DEF SoFar, Fits
    <3>2. CASE ~over
      <4>1. Counted(folder, stash) = Cardinality(Seen(folder, Baked)) + Cardinality(Seen(stash, {}))
        <5>1. Names \ {} = Names
          OBVIOUS
        <5> QED
          BY <5>1 DEF Counted, Seen
      <4>2. ~(Counted(folder, stash) + so.adding >= Room)
        BY <1>3, <3>2 DEF Full
      <4> QED
        BY <2>7, <2>8, <2>9, <3>2, <4>1, <4>2, RoomAssumption DEF Fits, RoomAssumption
    <3> QED
      BY <3>1, <3>2
  <2>11. all.taken = Present \cup Ours(new)
    BY <2>3, <2>n
  <2>12. all.adding \in Nat
         /\ Cardinality(Seen(folder, Baked) \cup Ours(new)) = Cardinality(Seen(folder, Baked)) + all.adding
    <3> HIDE DEF new, old
    <3> QED
      BY <2>7, <2>8, <2>9
  <2>13. mode = "replace" => Ours(new) \subseteq Bundles(i)
    BY <1>1, <2>2, <2>n DEF SoFar
  <2>14. all.items = new
    OBVIOUS
  <2> HIDE DEF all, new
  <2>15. SoFar(all, i, mode)
    BY <2>6, <2>10, <2>11, <2>12, <2>13, <2>14 DEF SoFar
  <2> QED
    BY <2>1, <2>15
<1> QED
  BY <1>2, <1>3

(* So what is settled in the end is a plan.                                 *)
LEMMA PlanSettled ==
  ASSUME NamesAssumption, RoomAssumption, folder \in [Names -> Contents], stash \in [Names -> Contents],
         NEW mode
  PROVE  Chosen(Settled(mode), mode, folder) /\ Fits(Settled(mode), folder, stash)
<1> DEFINE n == Len(Bundled)
<1>1. n \in Nat /\ DOMAIN Bundled = 1 .. n
  BY DEF NamesAssumption
<1>2. PICK f : Upto(f, n, mode) /\ Settled(mode) = f[n].items
  BY <1>1, SettledIs
<1> DEFINE S == {i \in 0 .. n : ~SoFar(f[i], i, mode)}
<1> HIDE DEF n
<1>3. ASSUME S # {} PROVE FALSE
  <2>1. PICK i \in S : \A j \in S : i <= j
    <3>1. S \in SUBSET Nat
      BY <1>1
    <3> HIDE DEF S
    <3> QED
      BY <1>3, <3>1, Least
  <2>2. CASE i = 0
    <3>1. f[0] = [items |-> <<>>, taken |-> Present, adding |-> 0]
      BY <1>1, <1>2, <2>2 DEF Upto
    <3>2. f[0].items = <<>> /\ f[0].taken = Present /\ f[0].adding = 0
      BY <3>1
    <3>3. Ours(<<>>) = {}
      BY DEF Ours
    <3>4. Chosen(<<>>, mode, folder) /\ Fits(<<>>, folder, stash)
      BY DEF Chosen, Fits
    <3>5. Cardinality(Seen(folder, Baked)) \in Nat
      <4>1. Seen(folder, Baked) \in SUBSET Names /\ IsFiniteSet(Names)
        BY DEF Seen, NamesAssumption
      <4> QED
        BY <4>1, FS_Subset, FS_CardinalityType
    <3>6. /\ Cardinality(Seen(folder, Baked) \cup {}) = Cardinality(Seen(folder, Baked)) + 0
          /\ Present \cup {} = Present
      BY <3>5
    <3>7. /\ Ours(f[0].items) = {} /\ Chosen(f[0].items, mode, folder) /\ Fits(f[0].items, folder, stash)
          /\ f[0].adding \in Nat
      BY <3>2, <3>3, <3>4
    <3>8. /\ f[0].taken = Present \cup Ours(f[0].items)
          /\ Cardinality(Seen(folder, Baked) \cup Ours(f[0].items)) =
               Cardinality(Seen(folder, Baked)) + f[0].adding
          /\ Ours(f[0].items) \subseteq Bundles(0)
      BY <3>2, <3>6, <3>7
    <3>9. SoFar(f[0], 0, mode)
      BY <3>7, <3>8 DEF SoFar
    <3> QED
      BY <2>1, <2>2, <3>9
  <2>3. CASE i # 0
    <3>1. i \in 1 .. n /\ i - 1 \in 0 .. n /\ i - 1 < i
      BY <1>1, <2>1, <2>3
    <3>2. SoFar(f[i - 1], i - 1, mode)
      BY <1>1, <2>1, <3>1
    <3>3. f[i] = Settle(f[i - 1], i, mode)
      BY <1>2, <2>3, <3>1 DEF Upto
    <3>4. i \in DOMAIN Bundled
      BY <1>1, <3>1
    <3>5. SoFar(Settle(f[i - 1], i, mode), i, mode)
      BY <3>2, <3>4, SettleOne
    <3> QED
      BY <2>1, <3>3, <3>5
  <2> QED
    BY <2>2, <2>3
<1>4. SoFar(f[n], n, mode)
  BY <1>1, <1>3
<1> QED
  BY <1>2, <1>4 DEF SoFar

-----------------------------------------------------------------------------
(* What every step of an install may count on.                              *)
Installing == pc \in {"apply", "rest", "undo", "commit", "record"}
Clean(f, s) == \A n \in Names : f[n] \in {"none", "theirs"} /\ s[n] = "none"

PaletteTypes ==
  /\ folder \in [Names -> Contents] /\ stash \in [Names -> Contents]
  /\ patched \in BOOLEAN /\ pc \in {"idle", "apply", "rest", "undo", "commit", "record", "remove"}

(* How far the call has come with a palette, and what its folder and the    *)
(* one aside hold by then, as long as no undo has failed.                   *)
PaletteAt(i) ==
  LET d == items[i].dest
  IN /\ i \in stashed => plan.stash[d] = "none"
     /\ i \in copied /\ items[i].over => i \in stashed
     /\ pc \in {"apply", "rest"} =>
          /\ folder[d] = IF i \in copied THEN "ours"
                         ELSE IF i \in stashed THEN "none" ELSE plan.folder[d]
          /\ stash[d] = IF i \in stashed THEN plan.folder[d] ELSE plan.stash[d]
     /\ pc = "undo" /\ i <= at =>
          stash[d] = IF i \in stashed THEN plan.folder[d] ELSE plan.stash[d]
     /\ pc = "undo" /\ i > at =>
          /\ folder[d] = IF i \in stashed THEN plan.folder[d] ELSE "none"
          /\ stash[d] = plan.stash[d]
     /\ pc \in {"commit", "record"} =>
          /\ folder[d] = "ours"
          /\ stash[d] = IF i \in stashed /\ pc = "commit" /\ i >= at
                        THEN plan.folder[d] ELSE plan.stash[d]

PlanIs ==
  /\ plan.folder \in [Names -> Contents] /\ plan.stash \in [Names -> Contents]
  /\ Chosen(items, plan.mode, plan.folder) /\ Fits(items, plan.folder, plan.stash)

(* Where the call is, and what it has handled.                              *)
StepIs ==
  /\ todo = {} /\ copied \subseteq DOMAIN items
  /\ stashed \subseteq {i \in DOMAIN items : items[i].over}
  /\ pc \in {"apply", "undo", "commit"} => at \in DOMAIN items
  /\ pc = "apply" => copied = 1 .. (at - 1) /\ \A i \in stashed : i <= at
  /\ pc \in {"rest", "commit", "record"} => copied = DOMAIN items
  /\ patched <=> pc \in {"commit", "record"}

(* What it leaves alone.                                                    *)
OthersAre ==
  /\ \A n \in Names \ Ours(items) : folder[n] = plan.folder[n] /\ stash[n] = plan.stash[n]
  /\ plan.mode # "replace" => \A i \in DOMAIN items : folder[items[i].dest] # "theirs"

TheseAre ==
  /\ "undo" \notin troubles => \A i \in DOMAIN items : PaletteAt(i)
  /\ troubles = {} => Clean(plan.folder, plan.stash)

InstallHolds == PlanIs /\ StepIs /\ OthersAre /\ TheseAre

(* Between calls, and while palettes are taken out.                         *)
Kept(names) ==
  \A n \in Names : stash[n] = "none" /\ (folder[n] \in {"none", "theirs"} \/ n \in names)

IdleHolds ==
  /\ copied = {} /\ stashed = {} /\ todo = {}
  /\ troubles = {} => IF patched THEN record # Unknown /\ Kept(record) ELSE Kept({})

RemoveHolds ==
  /\ copied = {} /\ stashed = {} /\ ~patched
  /\ record # Unknown => todo \subseteq record
  /\ troubles = {} => Kept(todo)

PalettesInv ==
  /\ PaletteTypes
  /\ Installing => InstallHolds
  /\ pc = "idle" => IdleHolds
  /\ pc = "remove" => RemoveHolds

(* The palettes of a plan.                                                  *)
LEMMA PlanFacts ==
  ASSUME PlanIs
  PROVE  /\ Len(items) \in Nat /\ DOMAIN items = 1 .. Len(items)
         /\ \A i \in DOMAIN items :
              /\ items[i].dest \in Names /\ items[i].dest \notin Baked
              /\ items[i].dest \in Ours(items)
              /\ items[i].over <=> plan.folder[items[i].dest] # "none"
              /\ items[i].over => plan.mode = "replace"
         /\ \A i, j \in DOMAIN items : items[i].dest = items[j].dest => i = j
         /\ items = <<>> <=> DOMAIN items = {}
<1>1. items \in Seq(Items) /\ Len(items) \in Nat /\ DOMAIN items = 1 .. Len(items)
  BY DEF PlanIs, Chosen
<1>2. \A i \in DOMAIN items : items[i] \in Items
  BY <1>1, ElementOfSeq
<1>3. \A i \in DOMAIN items : items[i].dest \in Names
  BY <1>2 DEF Items
<1>4. items = <<>> <=> DOMAIN items = {}
  BY <1>1
<1>5. \A i \in DOMAIN items : items[i].dest \in Ours(items)
  BY DEF Ours
<1> QED
  BY <1>1, <1>3, <1>4, <1>5 DEF PlanIs, Chosen

(* The user's folders are all there is at the start.                        *)
LEMMA PalettesStart == Init => PalettesInv
BY DEF Init, PalettesInv, PaletteTypes, Installing, IdleHolds, Kept, Contents

(* An install begins with its plan.                                         *)
LEMMA PalettesBegin ==
  ASSUME NamesAssumption, RoomAssumption, PalettesInv, BeginInstall
  PROVE  PalettesInv'
<1>1. PICK mode \in Modes :
         plan' = [mode |-> mode, items |-> Settled(mode), folder |-> folder, stash |-> stash]
  BY DEF BeginInstall
<1>2. /\ plan'.mode = mode /\ plan'.items = Settled(mode) /\ plan'.folder = folder
      /\ plan'.stash = stash /\ at' = 1
      /\ pc' = IF plan'.items = <<>> THEN "rest" ELSE "apply"
      /\ UNCHANGED <<folder, stash, patched, record, copied, stashed, todo, troubles>>
      /\ ~patched /\ copied = {} /\ stashed = {} /\ todo = {}
      /\ folder \in [Names -> Contents] /\ stash \in [Names -> Contents]
      /\ (troubles = {} => Kept({}))
  BY <1>1 DEF BeginInstall, folders, PalettesInv, IdleHolds, PaletteTypes
<1>3. PlanIs'
  <2>1. Chosen(items', plan'.mode, plan'.folder) /\ Fits(items', plan'.folder, plan'.stash)
    BY <1>2, PlanSettled DEF items
  <2> QED
    BY <1>2, <2>1 DEF PlanIs
<1>4. /\ Len(items)' \in Nat /\ DOMAIN items' = 1 .. Len(items)'
      /\ \A i \in DOMAIN items' :
           /\ items'[i].dest \in Names
           /\ items'[i].over <=> plan'.folder[items'[i].dest] # "none"
           /\ items'[i].over => plan'.mode = "replace"
      /\ items' = <<>> <=> DOMAIN items' = {}
  <2>1. items' \in Seq(Items) /\ Len(items)' \in Nat /\ DOMAIN items' = 1 .. Len(items)'
    BY <1>3 DEF PlanIs, Chosen
  <2>2. \A i \in DOMAIN items' : items'[i] \in Items
    BY <2>1, ElementOfSeq
  <2>3. \A i \in DOMAIN items' : items'[i].dest \in Names
    BY <2>2 DEF Items
  <2>4. items' = <<>> <=> DOMAIN items' = {}
    <3> DEFINE list == items'
    <3>1. list \in Seq(Items) /\ DOMAIN list = 1 .. Len(list) /\ Len(list) \in Nat
      BY <2>1
    <3> HIDE DEF list
    <3>2. list # <<>> => DOMAIN list # {}
      <4>1. list # <<>> => Len(list) \in Nat \ {0}
        BY <3>1, EmptySeq
      <4>2. list # <<>> => 1 \in 1 .. Len(list)
        BY <4>1
      <4> QED
        BY <3>1, <4>2
    <3>3. list = <<>> => DOMAIN list = {}
      OBVIOUS
    <3> QED
      BY <3>2, <3>3 DEF list
  <2>5. Chosen(items', plan'.mode, plan'.folder)
    BY <1>3 DEF PlanIs
  <2> QED
    BY <2>1, <2>3, <2>4, <2>5 DEF Chosen
<1>5. /\ pc' \in {"rest", "apply"} /\ (pc' = "rest" => DOMAIN items' = {})
      /\ (pc' = "apply" => at' \in DOMAIN items' /\ copied' = 1 .. (at' - 1))
  BY <1>2, <1>4 DEF items
<1>6. \A i \in DOMAIN items' : PaletteAt(i)'
  BY <1>2, <1>5 DEF PaletteAt
<1>7. plan'.mode # "replace" => \A i \in DOMAIN items' : folder'[items'[i].dest] # "theirs"
  BY <1>2, <1>4
<1>8. troubles' = {} => Clean(plan'.folder, plan'.stash)
  BY <1>2 DEF Kept, Clean
<1> QED
  BY <1>2, <1>3, <1>5, <1>6, <1>7, <1>8
     DEF PalettesInv, PaletteTypes, Installing, InstallHolds, StepIs, OthersAre, TheseAre

(* What the steps of an install that keep its plan come back to.            *)
LEMMA SamePlan ==
  ASSUME InstallHolds, UNCHANGED plan
  PROVE  PlanIs' /\ items' = items
<1>1. items' = items
  BY DEF items
<1> QED
  BY <1>1 DEF InstallHolds, PlanIs

(* A palette of the user's is moved aside.                                  *)
LEMMA PalettesStash ==
  ASSUME PalettesInv, pc = "apply", HasToStash, stash[dest] = "none",
         stash' = [stash EXCEPT ![dest] = folder[dest]],
         folder' = [folder EXCEPT ![dest] = "none"],
         stashed' = stashed \cup {at},
         UNCHANGED <<pc, plan, at, copied, todo, patched, record, troubles>>
  PROVE  PalettesInv'
<1>1. PaletteTypes /\ InstallHolds /\ Installing
  BY DEF PalettesInv, Installing
<1>2. PlanIs /\ PlanIs' /\ items' = items
  BY <1>1, SamePlan DEF InstallHolds
<1>3. /\ at \in DOMAIN items /\ dest = items[at].dest /\ dest \in Names /\ dest \in Ours(items)
      /\ items[at].over /\ at \notin stashed /\ plan.mode = "replace" /\ at \notin copied
  BY <1>1, <1>2, PlanFacts DEF InstallHolds, StepIs, HasToStash, dest
<1>4. PaletteTypes'
  BY <1>1, <1>3 DEF PaletteTypes, Contents
<1>5. \A n \in Names \ {dest} : folder'[n] = folder[n] /\ stash'[n] = stash[n]
  BY <1>1 DEF PaletteTypes
<1>6. folder'[dest] = "none" /\ stash'[dest] = folder[dest]
  BY <1>1, <1>3 DEF PaletteTypes
<1>7. ASSUME "undo" \notin troubles, NEW i \in DOMAIN items PROVE PaletteAt(i)'
  <2>1. PaletteAt(i)
    BY <1>1, <1>7 DEF InstallHolds, TheseAre
  <2>2. CASE i = at
    BY <1>2, <1>3, <1>6, <2>1, <2>2 DEF PaletteAt
  <2>3. CASE i # at
    <3>1. items[i].dest \in Names \ {dest}
      BY <1>2, <1>3, <2>3, PlanFacts
    <3> QED
      BY <1>2, <1>5, <2>1, <2>3, <3>1 DEF PaletteAt
  <2> QED
    BY <2>2, <2>3
<1>8. StepIs'
  <2>1. stashed' \subseteq {i \in DOMAIN items : items[i].over}
    BY <1>1, <1>3 DEF InstallHolds, StepIs
  <2>2. at \in Nat
    BY <1>2, <1>3, PlanFacts
  <2>3. \A i \in stashed' : i <= at
    BY <1>1, <2>2 DEF InstallHolds, StepIs
  <2> QED
    BY <1>1, <1>2, <1>3, <2>1, <2>3 DEF InstallHolds, StepIs
<1>9. OthersAre'
  BY <1>1, <1>2, <1>3, <1>5 DEF InstallHolds, OthersAre
<1>10. TheseAre'
  BY <1>1, <1>2, <1>7 DEF InstallHolds, TheseAre
<1> QED
  BY <1>2, <1>4, <1>8, <1>9, <1>10 DEF PalettesInv, InstallHolds, Installing

(* One of ours is copied in.                                                *)
LEMMA PalettesCopy ==
  ASSUME PalettesInv, pc = "apply", ~HasToStash,
         folder' = [folder EXCEPT ![dest] = "ours"], copied' = copied \cup {at},
         IF at = Len(items) THEN pc' = "rest" /\ UNCHANGED at ELSE at' = at + 1 /\ UNCHANGED pc,
         UNCHANGED <<plan, stashed, todo, stash, patched, record, troubles>>
  PROVE  PalettesInv'
<1>1. PaletteTypes /\ InstallHolds /\ Installing
  BY DEF PalettesInv, Installing
<1>2. PlanIs /\ PlanIs' /\ items' = items
  BY <1>1, SamePlan DEF InstallHolds
<1>3. /\ at \in DOMAIN items /\ dest = items[at].dest /\ dest \in Names /\ dest \in Ours(items)
      /\ DOMAIN items = 1 .. Len(items) /\ Len(items) \in Nat
      /\ copied = 1 .. (at - 1) /\ \A i \in stashed : i <= at
  BY <1>1, <1>2, PlanFacts DEF InstallHolds, StepIs, dest
<1>4. /\ pc' \in {"rest", "apply"} /\ copied' = 1 .. at /\ copied' \subseteq DOMAIN items
      /\ (pc' = "apply" => at' \in DOMAIN items /\ copied' = 1 .. (at' - 1)
                          /\ \A i \in stashed : i <= at')
      /\ (pc' = "rest" => copied' = DOMAIN items)
  <2>1. copied' = 1 .. at
    BY <1>3
  <2>2. CASE at = Len(items)
    BY <1>3, <2>1, <2>2
  <2>3. CASE at # Len(items)
    <3>1. stashed \subseteq DOMAIN items
      BY <1>1 DEF InstallHolds, StepIs
    <3> QED
      BY <1>3, <2>1, <2>3, <3>1
  <2> QED
    BY <2>2, <2>3
<1>5. PaletteTypes'
  BY <1>1, <1>3, <1>4 DEF PaletteTypes, Contents
<1>6. \A n \in Names \ {dest} : folder'[n] = folder[n]
  BY <1>1 DEF PaletteTypes
<1>7. folder'[dest] = "ours"
  BY <1>1, <1>3 DEF PaletteTypes
<1>8. "undo" \notin troubles => (items[at].over => at \in stashed)
  BY <1>1, <1>2, <1>3, PlanFacts DEF InstallHolds, TheseAre, PaletteAt, HasToStash, dest
<1>9. ASSUME "undo" \notin troubles, NEW i \in DOMAIN items PROVE PaletteAt(i)'
  <2>1. PaletteAt(i)
    BY <1>1, <1>9 DEF InstallHolds, TheseAre
  <2>2. CASE i = at
    BY <1>2, <1>3, <1>4, <1>7, <1>8, <1>9, <2>1, <2>2 DEF PaletteAt
  <2>3. CASE i # at
    <3>1. items[i].dest \in Names \ {dest}
      BY <1>2, <1>3, <2>3, PlanFacts
    <3> QED
      BY <1>2, <1>4, <1>6, <2>1, <2>3, <3>1 DEF PaletteAt
  <2> QED
    BY <2>2, <2>3
<1>10. StepIs'
  BY <1>1, <1>2, <1>4 DEF InstallHolds, StepIs
<1>11. OthersAre'
  <2>1. \A n \in Names \ Ours(items)' : folder'[n] = plan'.folder[n] /\ stash'[n] = plan'.stash[n]
    BY <1>1, <1>2, <1>3, <1>6 DEF InstallHolds, OthersAre
  <2>2. ASSUME plan'.mode # "replace", NEW i \in DOMAIN items PROVE folder'[items[i].dest] # "theirs"
    BY <1>1, <1>2, <1>6, <1>7, <2>2, PlanFacts DEF InstallHolds, OthersAre
  <2> QED
    BY <1>2, <2>1, <2>2 DEF OthersAre
<1>12. TheseAre'
  BY <1>1, <1>2, <1>9 DEF InstallHolds, TheseAre
<1> QED
  BY <1>2, <1>4, <1>5, <1>10, <1>11, <1>12 DEF PalettesInv, InstallHolds, Installing

(* Something fails, and what was done so far is to be undone.               *)
LEMMA PalettesFail ==
  ASSUME PalettesInv, pc \in {"apply", "rest"}, Undo,
         \/ folder' = folder
         \/ pc = "apply" /\ ~HasToStash /\ folder' = [folder EXCEPT ![dest] = "part"],
         UNCHANGED <<stash, patched, record, troubles>>
  PROVE  PalettesInv'
<1>1. PaletteTypes /\ InstallHolds /\ Installing
  BY DEF PalettesInv, Installing
<1>2. PlanIs /\ DOMAIN items = 1 .. Len(items) /\ Len(items) \in Nat /\ (items = <<>> <=> DOMAIN items = {})
  BY <1>1, PlanFacts DEF InstallHolds
<1>p. PaletteTypes /\ PaletteTypes'
  BY <1>1, PlanFacts DEF PaletteTypes, Contents, Undo, Return
<1>3. CASE items = <<>>
  <2>1. /\ pc' = "idle" /\ copied' = {} /\ stashed' = {} /\ todo' = {}
        /\ pc = "rest" /\ folder' = folder /\ ~patched
    BY <1>1, <1>2, <1>3 DEF Undo, Return, InstallHolds, StepIs
  <2>2. troubles = {} => Kept({})
    <3>1. \A n \in Names : folder[n] = plan.folder[n] /\ stash[n] = plan.stash[n]
      BY <1>1, <1>2, <1>3 DEF InstallHolds, OthersAre, Ours
    <3> QED
      BY <1>1, <3>1 DEF InstallHolds, TheseAre, Clean, Kept
  <2>3. IdleHolds'
    BY <2>1, <2>2 DEF IdleHolds, Kept
  <2> QED
    BY <1>p, <2>1, <2>3 DEF PalettesInv, Installing
<1>4. CASE items # <<>>
  <2>1. pc' = "undo" /\ at' = Len(items) /\ UNCHANGED <<plan, copied, stashed, todo>>
    BY <1>4 DEF Undo
  <2>2. PlanIs' /\ items' = items /\ Len(items) \in DOMAIN items /\ \A i \in DOMAIN items : i <= Len(items)
    BY <1>1, <1>2, <1>4, <2>1, SamePlan
  <2>3. StepIs'
    BY <1>1, <2>1, <2>2 DEF InstallHolds, StepIs
  <2>4. /\ \A n \in Names \ Ours(items) : folder'[n] = folder[n]
        /\ \A i \in DOMAIN items : folder'[items[i].dest] \in {folder[items[i].dest], "part"}
    <3>1. pc = "apply" => at \in DOMAIN items /\ dest = items[at].dest /\ dest \in Names /\ dest \in Ours(items)
      BY <1>1, <1>2, PlanFacts DEF InstallHolds, StepIs, dest
    <3>2. \A i \in DOMAIN items : items[i].dest \in Names
      BY <1>2, PlanFacts
    <3> QED
      BY <1>1, <3>1, <3>2 DEF PaletteTypes
  <2>5. OthersAre'
    BY <1>1, <2>1, <2>2, <2>4 DEF InstallHolds, OthersAre
  <2>6. ASSUME "undo" \notin troubles, NEW i \in DOMAIN items PROVE PaletteAt(i)'
    <3>1. PaletteAt(i)
      BY <1>1, <2>6 DEF InstallHolds, TheseAre
    <3>2. i <= Len(items) /\ ~(i > Len(items))
      BY <1>2
    <3> QED
      BY <2>1, <2>2, <3>1, <3>2 DEF PaletteAt
  <2>7. TheseAre'
    BY <1>1, <2>1, <2>2, <2>6 DEF InstallHolds, TheseAre
  <2> QED
    BY <1>p, <2>1, <2>2, <2>3, <2>5, <2>7 DEF PalettesInv, InstallHolds, Installing
<1> QED
  BY <1>3, <1>4

(* All palettes are in, and so is the rest of the install.                  *)
LEMMA PalettesRest ==
  ASSUME PalettesInv, RestOfInstall
  PROVE  PalettesInv'
<1>1. PaletteTypes /\ InstallHolds /\ Installing /\ pc = "rest"
  BY DEF PalettesInv, Installing, RestOfInstall
<1>2. CASE UNCHANGED patched /\ Undo
  BY <1>1, <1>2, PalettesFail DEF RestOfInstall, folders
<1>3. CASE /\ patched' = TRUE /\ pc' = IF items = <<>> THEN "record" ELSE "commit"
           /\ at' = 1 /\ UNCHANGED <<plan, copied, stashed, todo, stuck>>
  <2>1. UNCHANGED <<folder, stash, record, troubles>>
    BY DEF RestOfInstall, folders
  <2>2. PlanIs /\ PlanIs' /\ items' = items
    BY <1>1, <1>3, SamePlan DEF InstallHolds
  <2>3. DOMAIN items = 1 .. Len(items) /\ Len(items) \in Nat /\ (items = <<>> <=> DOMAIN items = {})
    BY <2>2, PlanFacts
  <2>4. /\ (pc' = "commit" => at' \in DOMAIN items) /\ (pc' = "record" => DOMAIN items = {})
        /\ pc' \in {"commit", "record"} /\ \A i \in DOMAIN items : i >= at'
    BY <1>3, <2>3
  <2>5. StepIs'
    BY <1>1, <1>3, <2>2, <2>4 DEF InstallHolds, StepIs
  <2>6. OthersAre'
    BY <1>1, <1>3, <2>1, <2>2 DEF InstallHolds, OthersAre
  <2>7. ASSUME "undo" \notin troubles, NEW i \in DOMAIN items PROVE PaletteAt(i)'
    <3>1. PaletteAt(i) /\ i \in copied
      BY <1>1, <2>7 DEF InstallHolds, StepIs, TheseAre
    <3> QED
      BY <1>1, <1>3, <2>1, <2>2, <2>4, <3>1 DEF PaletteAt
  <2>8. TheseAre'
    BY <1>1, <1>3, <2>1, <2>2, <2>7 DEF InstallHolds, TheseAre
  <2>9. PaletteTypes'
    BY <1>1, <1>3, <2>1 DEF PaletteTypes
  <2> QED
    BY <2>2, <2>4, <2>5, <2>6, <2>8, <2>9 DEF PalettesInv, InstallHolds, Installing
<1> QED
  BY <1>2, <1>3 DEF RestOfInstall

(* One palette of the undo: no other folder is touched, and it is as the    *)
(* install found it, or is no more, unless that fails.                      *)
LEMMA UndoingOne ==
  ASSUME PalettesInv, UndoOne
  PROVE  /\ InstallHolds /\ PaletteTypes /\ PaletteTypes'
         /\ at \in DOMAIN items /\ items[at].dest \in Names
         /\ \A n \in Names : n # items[at].dest => folder'[n] = folder[n] /\ stash'[n] = stash[n]
         /\ at \notin stashed => folder'[items[at].dest] \in {folder[items[at].dest], "none", "part"}
         /\ troubles \subseteq troubles'
         /\ "undo" \notin troubles' => \A i \in DOMAIN items : i >= at =>
              /\ folder'[items[i].dest] = IF i \in stashed THEN plan.folder[items[i].dest] ELSE "none"
              /\ stash'[items[i].dest] = plan.stash[items[i].dest]
<1>1. PaletteTypes /\ InstallHolds /\ pc = "undo"
  BY DEF PalettesInv, Installing, UndoOne
<1>2. /\ PlanIs /\ DOMAIN items = 1 .. Len(items) /\ Len(items) \in Nat
      /\ at \in DOMAIN items /\ items[at].dest \in Names /\ dest = items[at].dest
      /\ \A i \in DOMAIN items : items[i].dest \in Names
      /\ \A i \in DOMAIN items : items[i].dest = items[at].dest => i = at
  BY <1>1, PlanFacts DEF InstallHolds, StepIs, dest
<1>3. troubles \subseteq troubles' /\ UNCHANGED patched
  BY DEF UndoOne, Meets, Smooth
<1>4. pc' \in {"undo", "idle"}
  BY <1>1 DEF UndoOne, Undone, Return
<1>5. CASE /\ folder' = [folder EXCEPT ![dest] = IF at \in stashed THEN stash[dest] ELSE "none"]
           /\ stash' = IF at \in stashed THEN [stash EXCEPT ![dest] = "none"] ELSE stash
           /\ Smooth
  <2>1. /\ \A n \in Names : n # dest => folder'[n] = folder[n] /\ stash'[n] = stash[n]
        /\ folder'[dest] = IF at \in stashed THEN stash[dest] ELSE "none"
        /\ stash'[dest] = IF at \in stashed THEN "none" ELSE stash[dest]
    BY <1>1, <1>2, <1>5 DEF PaletteTypes
  <2>2. PaletteTypes'
    BY <1>1, <1>2, <1>3, <1>4, <1>5 DEF PaletteTypes, Contents
  <2>3. ASSUME "undo" \notin troubles', NEW i \in DOMAIN items, i >= at
        PROVE  /\ folder'[items[i].dest] = IF i \in stashed THEN plan.folder[items[i].dest] ELSE "none"
               /\ stash'[items[i].dest] = plan.stash[items[i].dest]
    <3>1. PaletteAt(i)
      BY <1>1, <1>3, <2>3 DEF InstallHolds, TheseAre
    <3>2. CASE i = at
      <4>1. i <= at
        BY <1>2, <3>2
      <4> QED
        BY <1>1, <1>2, <2>1, <3>1, <3>2, <4>1 DEF PaletteAt
    <3>3. CASE i # at
      <4>1. i > at
        BY <1>2, <2>3, <3>3
      <4> QED
        BY <1>1, <1>2, <2>1, <3>1, <3>3, <4>1 DEF PaletteAt
    <3> QED
      BY <3>2, <3>3
  <2> QED
    BY <1>1, <1>2, <1>3, <2>1, <2>2, <2>3
<1>6. CASE /\ folder[dest] # "none" \/ at \in stashed
           /\ \/ at \in stashed /\ folder' = [folder EXCEPT ![dest] = "none"]
              \/ folder[dest] # "none" /\ folder' \in {folder, [folder EXCEPT ![dest] = "part"]}
           /\ UNCHANGED stash /\ Meets("undo")
  <2>1. /\ \A n \in Names : n # dest => folder'[n] = folder[n] /\ stash'[n] = stash[n]
        /\ folder'[dest] \in {folder[dest], "none", "part"}
    BY <1>1, <1>2, <1>6 DEF PaletteTypes
  <2>2. PaletteTypes'
    BY <1>1, <1>2, <1>3, <1>4, <1>6 DEF PaletteTypes, Contents
  <2>3. "undo" \in troubles'
    BY <1>6 DEF Meets
  <2> QED
    BY <1>1, <1>2, <1>3, <2>1, <2>2, <2>3
<1> QED
  BY <1>5, <1>6 DEF UndoOne

(* With the last one, everything is as the install found it.                *)
LEMMA PalettesUndo ==
  ASSUME PalettesInv, UndoOne
  PROVE  PalettesInv'
<1>1. /\ InstallHolds /\ PaletteTypes /\ PaletteTypes' /\ pc = "undo" /\ Undone
      /\ UNCHANGED <<patched, record>> /\ troubles \subseteq troubles'
  BY UndoingOne DEF UndoOne
<1>2. /\ PlanIs /\ DOMAIN items = 1 .. Len(items) /\ Len(items) \in Nat /\ at \in DOMAIN items
      /\ \A i \in DOMAIN items : items[i].dest \in Names /\ items[i].dest \in Ours(items)
      /\ \A i \in DOMAIN items : items[i].over => plan.mode = "replace"
  BY <1>1, PlanFacts DEF InstallHolds, StepIs
<1>3. /\ \A n \in Names \ Ours(items) : folder'[n] = folder[n] /\ stash'[n] = stash[n]
      /\ \A n \in Names \ Ours(items) : folder'[n] = plan.folder[n] /\ stash'[n] = plan.stash[n]
  <2>1. items[at].dest \in Ours(items)
    BY <1>2
  <2> QED
    BY <1>1, <2>1, UndoingOne DEF InstallHolds, OthersAre
<1>4. CASE at = 1
  <2>1. pc' = "idle" /\ copied' = {} /\ stashed' = {} /\ todo' = {}
    BY <1>1, <1>4 DEF Undone, Return
  <2>2. ~patched'
    BY <1>1 DEF InstallHolds, StepIs
  <2>3. ASSUME troubles' = {}, NEW n \in Names
        PROVE  stash'[n] = "none" /\ folder'[n] \in {"none", "theirs"}
    <3>1. troubles = {} /\ Clean(plan.folder, plan.stash)
      BY <1>1, <2>3 DEF InstallHolds, TheseAre
    <3>2. CASE n \in Names \ Ours(items)
      BY <1>3, <3>1, <3>2 DEF Clean
    <3>3. CASE n \in Ours(items)
      <4>1. PICK i \in DOMAIN items : n = items[i].dest
        BY <3>3 DEF Ours
      <4>2. i >= at
        BY <1>2, <1>4
      <4>3. /\ folder'[n] = IF i \in stashed THEN plan.folder[n] ELSE "none"
            /\ stash'[n] = plan.stash[n]
        BY <2>3, <4>1, <4>2, UndoingOne
      <4> QED
        BY <3>1, <4>3 DEF Clean
    <3> QED
      BY <3>2, <3>3
  <2>4. IdleHolds'
    BY <2>1, <2>2, <2>3 DEF IdleHolds, Kept
  <2> QED
    BY <1>1, <2>1, <2>4 DEF PalettesInv, Installing
<1>5. CASE at # 1
  <2>1. at' = at - 1 /\ pc' = "undo" /\ UNCHANGED <<plan, copied, stashed, todo>>
    BY <1>1, <1>5 DEF Undone
  <2>2. PlanIs' /\ items' = items /\ at' \in DOMAIN items
    BY <1>1, <1>2, <1>5, <2>1, SamePlan
  <2>3. StepIs'
    BY <1>1, <2>1, <2>2 DEF InstallHolds, StepIs
  <2>4. OthersAre'
    <3>1. ASSUME plan.mode # "replace", NEW i \in DOMAIN items PROVE folder'[items[i].dest] # "theirs"
      <4>1. at \notin stashed
        BY <1>1, <1>2, <3>1 DEF InstallHolds, StepIs
      <4>2. folder[items[i].dest] # "theirs"
        BY <1>1, <3>1 DEF InstallHolds, OthersAre
      <4> QED
        BY <1>2, <4>1, <4>2, UndoingOne
    <3> QED
      BY <1>3, <2>1, <2>2, <3>1 DEF OthersAre
  <2>5. ASSUME "undo" \notin troubles', NEW i \in DOMAIN items PROVE PaletteAt(i)'
    <3>1. PaletteAt(i)
      BY <1>1, <2>5 DEF InstallHolds, TheseAre
    <3>2. CASE i >= at
      <4>1. i > at' /\ ~(i <= at')
        BY <1>2, <2>1, <3>2
      <4>2. /\ folder'[items[i].dest] = IF i \in stashed THEN plan.folder[items[i].dest] ELSE "none"
            /\ stash'[items[i].dest] = plan.stash[items[i].dest]
        BY <2>5, <3>2, UndoingOne
      <4> QED
        BY <2>1, <2>2, <3>1, <4>1, <4>2 DEF PaletteAt
    <3>3. CASE ~(i >= at)
      <4>1. i <= at' /\ ~(i > at') /\ i <= at /\ i # at
        BY <1>2, <2>1, <3>3
      <4>2. items[i].dest # items[at].dest
        BY <1>2, <4>1, PlanFacts
      <4>3. stash'[items[i].dest] = stash[items[i].dest]
        BY <1>2, <4>2, UndoingOne
      <4> QED
        BY <1>1, <2>1, <2>2, <3>1, <4>1, <4>3 DEF PaletteAt
    <3> QED
      BY <3>2, <3>3
  <2>6. TheseAre'
    BY <1>1, <2>1, <2>2, <2>5 DEF InstallHolds, TheseAre
  <2> QED
    BY <1>1, <2>1, <2>2, <2>3, <2>4, <2>6 DEF PalettesInv, InstallHolds, Installing
<1> QED
  BY <1>4, <1>5

(* A predecessor is deleted for good.                                       *)
LEMMA PalettesCommit ==
  ASSUME PalettesInv, CommitOne
  PROVE  PalettesInv'
<1>1. /\ InstallHolds /\ PaletteTypes /\ pc = "commit"
      /\ UNCHANGED <<folder, patched, record, plan, copied, stashed, todo>>
      /\ troubles \subseteq troubles'
  BY DEF CommitOne, PalettesInv, Installing, Meets, Smooth
<1>2. /\ PlanIs /\ DOMAIN items = 1 .. Len(items) /\ Len(items) \in Nat /\ at \in DOMAIN items
      /\ \A i \in DOMAIN items : items[i].dest \in Names /\ items[i].dest \in Ours(items)
      /\ \A i, j \in DOMAIN items : items[i].dest = items[j].dest => i = j
      /\ dest = items[at].dest /\ PlanIs' /\ items' = items
  BY <1>1, PlanFacts, SamePlan DEF InstallHolds, StepIs, dest
<1>3. /\ PaletteTypes'
      /\ \A n \in Names : n # dest => stash'[n] = stash[n]
      /\ "undo" \notin troubles' => stash'[dest] = IF at \in stashed THEN "none" ELSE stash[dest]
  <2>1. pc' \in {"commit", "record"}
    BY <1>1 DEF CommitOne
  <2> QED
    BY <1>1, <1>2, <2>1 DEF CommitOne, PaletteTypes, Contents, Meets
<1>4. /\ pc' \in {"commit", "record"}
      /\ pc' = "commit" => at' = at + 1 /\ at' \in DOMAIN items
      /\ pc' = "record" => at = Len(items)
  BY <1>1, <1>2 DEF CommitOne
<1>5. StepIs'
  BY <1>1, <1>2, <1>4 DEF InstallHolds, StepIs
<1>6. OthersAre'
  BY <1>1, <1>2, <1>3 DEF InstallHolds, OthersAre
<1>7. ASSUME "undo" \notin troubles', NEW i \in DOMAIN items PROVE PaletteAt(i)'
  <2>1. PaletteAt(i)
    BY <1>1, <1>7 DEF InstallHolds, TheseAre
  <2>2. CASE i = at
    <3>1. i >= at /\ ~(pc' = "commit" /\ i >= at')
      BY <1>2, <1>4, <2>2
    <3> QED
      BY <1>1, <1>2, <1>3, <1>4, <1>7, <2>1, <2>2, <3>1 DEF PaletteAt
  <2>3. CASE i # at
    <3>1. /\ pc' = "commit" => (i >= at <=> i >= at')
          /\ pc' = "record" => ~(i >= at)
      BY <1>2, <1>4, <2>3
    <3>2. stash'[items[i].dest] = stash[items[i].dest]
      BY <1>2, <1>3, <2>3
    <3> QED
      BY <1>1, <1>2, <1>4, <2>1, <3>1, <3>2 DEF PaletteAt
  <2> QED
    BY <2>2, <2>3
<1>8. TheseAre'
  BY <1>1, <1>2, <1>7 DEF InstallHolds, TheseAre
<1> QED
  BY <1>2, <1>3, <1>4, <1>5, <1>6, <1>8 DEF PalettesInv, InstallHolds, Installing

(* The install is put on record.                                            *)
LEMMA PalettesRecord ==
  ASSUME NamesAssumption, PalettesInv, RecordInstall
  PROVE  PalettesInv'
<1>1. /\ InstallHolds /\ PaletteTypes /\ pc = "record"
      /\ UNCHANGED <<folder, stash, patched>>
      /\ pc' = "idle" /\ copied' = {} /\ stashed' = {} /\ todo' = {}
      /\ (troubles' = {} => troubles = {} /\ record' = Made)
  BY DEF RecordInstall, PalettesInv, Installing, Meets, Smooth, Return, folders
<1>2. /\ PlanIs /\ copied = DOMAIN items /\ patched
      /\ \A i \in DOMAIN items : items[i].dest \in Names
  BY <1>1, PlanFacts DEF InstallHolds, StepIs
<1>3. Made = Ours(items) /\ Made # Unknown
  <2>1. Made = Ours(items)
    BY <1>2 DEF Made, Ours
  <2>2. Ours(items) \in SUBSET Names
    BY <1>2 DEF Ours
  <2> QED
    BY <2>1, <2>2 DEF NamesAssumption
<1>4. ASSUME troubles' = {}, NEW n \in Names
      PROVE  stash'[n] = "none" /\ (folder'[n] \in {"none", "theirs"} \/ n \in record')
  <2>1. troubles = {} /\ Clean(plan.folder, plan.stash)
    BY <1>1, <1>4 DEF InstallHolds, TheseAre
  <2>2. CASE n \in Ours(items)
    <3>1. PICK i \in DOMAIN items : n = items[i].dest
      BY <2>2 DEF Ours
    <3>2. PaletteAt(i)
      BY <1>1, <2>1 DEF InstallHolds, TheseAre
    <3>3. stash[n] = plan.stash[n]
      BY <1>1, <3>1, <3>2 DEF PaletteAt
    <3> QED
      BY <1>1, <1>3, <1>4, <2>1, <2>2, <3>3 DEF Clean
  <2>3. CASE n \notin Ours(items)
    BY <1>1, <2>1, <2>3 DEF InstallHolds, OthersAre, Clean
  <2> QED
    BY <2>2, <2>3
<1>5. IdleHolds'
  BY <1>1, <1>2, <1>3, <1>4 DEF IdleHolds, Kept
<1>6. PaletteTypes'
  BY <1>1 DEF PaletteTypes
<1> QED
  BY <1>1, <1>5, <1>6 DEF PalettesInv, Installing

(* An uninstall, from its first step to its record.                         *)
LEMMA PalettesOut ==
  ASSUME PalettesInv,
         BeginUninstall \/ RecordUninstall \/ \E n \in Names : RemoveOne(n)
  PROVE  PalettesInv'
<1>1. CASE BeginUninstall
  <2>1. /\ pc = "idle" /\ patched /\ pc' = "remove" /\ patched' = FALSE
        /\ UNCHANGED <<folder, stash, record, copied, stashed>>
        /\ todo' \in {ToRemove, {}} /\ (troubles' = {} => troubles = {} /\ todo' = ToRemove)
    BY <1>1 DEF BeginUninstall, Meets, Smooth, folders
  <2>2. PaletteTypes /\ IdleHolds
    BY <2>1 DEF PalettesInv
  <2>3. record # Unknown => ToRemove = record
    BY DEF ToRemove
  <2>4. RemoveHolds'
    BY <2>1, <2>2, <2>3 DEF RemoveHolds, IdleHolds, Kept
  <2>5. PaletteTypes'
    BY <2>1, <2>2 DEF PaletteTypes
  <2> QED
    BY <2>1, <2>4, <2>5 DEF PalettesInv, Installing
<1>2. CASE RecordUninstall
  <2>1. /\ pc = "remove" /\ todo = {} /\ pc' = "idle" /\ copied' = {} /\ stashed' = {} /\ todo' = {}
        /\ UNCHANGED <<folder, stash, patched>> /\ (troubles' = {} => troubles = {})
    BY <1>2 DEF RecordUninstall, Meets, Smooth, folders, Return
  <2>2. PaletteTypes /\ RemoveHolds
    BY <2>1 DEF PalettesInv
  <2>3. IdleHolds'
    BY <2>1, <2>2 DEF RemoveHolds, IdleHolds, Kept
  <2>4. PaletteTypes'
    BY <2>1, <2>2 DEF PaletteTypes
  <2> QED
    BY <2>1, <2>3, <2>4 DEF PalettesInv, Installing
<1>3. ASSUME NEW m \in Names, RemoveOne(m) PROVE PalettesInv'
  <2>1. /\ pc = "remove" /\ pc' = "remove" /\ m \in todo /\ todo' = todo \ {m}
        /\ UNCHANGED <<stash, patched, record, copied, stashed>>
        /\ folder' \in {folder, [folder EXCEPT ![m] = "none"], [folder EXCEPT ![m] = "part"]}
        /\ (troubles' = {} => troubles = {} /\ folder' = [folder EXCEPT ![m] = "none"])
    BY <1>3 DEF RemoveOne, Meets, Smooth
  <2>2. PaletteTypes /\ RemoveHolds
    BY <2>1 DEF PalettesInv
  <2>3. PaletteTypes'
    BY <2>1, <2>2 DEF PaletteTypes, Contents
  <2>4. troubles' = {} => Kept(todo)'
    BY <2>1, <2>2 DEF RemoveHolds, Kept, PaletteTypes
  <2>5. RemoveHolds'
    BY <2>1, <2>2, <2>4 DEF RemoveHolds
  <2> QED
    BY <2>1, <2>3, <2>5 DEF PalettesInv, Installing
<1> QED
  BY <1>1, <1>2, <1>3

(* The process ends, wherever it is, or the user puts a palette in or takes *)
(* one out.                                                                 *)
LEMMA PalettesOutside ==
  ASSUME PalettesInv, Crash \/ \E n \in Names : UserAdds(n) \/ UserDeletes(n)
  PROVE  PalettesInv'
<1>1. CASE Crash
  <2>1. /\ PaletteTypes /\ pc' = "idle" /\ copied' = {} /\ stashed' = {} /\ todo' = {}
        /\ troubles' # {}
    BY <1>1 DEF PalettesInv, Crash, Meets, Return
  <2>2. PaletteTypes'
    <3>1. folder' \in [Names -> Contents]
      BY <1>1, <2>1 DEF Crash, PaletteTypes, Contents, folders
    <3>2. stash' \in [Names -> Contents] /\ patched' \in BOOLEAN
      BY <1>1, <2>1 DEF Crash, PaletteTypes, Contents, folders
    <3> QED
      BY <2>1, <3>1, <3>2 DEF PaletteTypes
  <2> QED
    BY <2>1, <2>2 DEF PalettesInv, Installing, IdleHolds
<1>2. ASSUME NEW n \in Names, UserAdds(n) \/ UserDeletes(n) PROVE PalettesInv'
  <2>1. /\ pc = "idle" /\ UNCHANGED <<stash, patched, record, pc, copied, stashed, todo, troubles>>
        /\ folder' \in {[folder EXCEPT ![n] = "theirs"], [folder EXCEPT ![n] = "none"]}
    BY <1>2 DEF UserAdds, UserDeletes, progress
  <2>2. PaletteTypes /\ IdleHolds
    BY <2>1 DEF PalettesInv
  <2>3. PaletteTypes'
    BY <2>1, <2>2 DEF PaletteTypes, Contents
  <2>4. \A names : Kept(names) => Kept(names)'
    BY <2>1, <2>2 DEF Kept, PaletteTypes
  <2>5. IdleHolds'
    BY <2>1, <2>2, <2>4 DEF IdleHolds
  <2> QED
    BY <2>1, <2>3, <2>5 DEF PalettesInv, Installing
<1> QED
  BY <1>1, <1>2

(* Every step keeps it.                                                     *)
LEMMA PalettesStep ==
  NamesAssumption /\ RoomAssumption /\ PalettesInv /\ [Next]_vars => PalettesInv'
<1> SUFFICES ASSUME NamesAssumption, RoomAssumption, PalettesInv, [Next]_vars PROVE PalettesInv'
  OBVIOUS
<1>1. CASE StashTheirs
  <2>1. pc = "apply" /\ HasToStash /\ UNCHANGED <<patched, record, troubles>>
    BY <1>1 DEF StashTheirs
  <2>2. CASE UNCHANGED folders /\ Undo
    BY <2>1, <2>2, PalettesFail DEF folders
  <2>3. CASE ~(UNCHANGED folders /\ Undo)
    BY <1>1, <2>1, <2>3, PalettesStash DEF StashTheirs
  <2> QED
    BY <2>2, <2>3
<1>2. CASE CopyOurs
  <2>1. pc = "apply" /\ ~HasToStash /\ UNCHANGED <<stash, patched, record, troubles>>
    BY <1>2 DEF CopyOurs
  <2>2. CASE folder' \in {folder, [folder EXCEPT ![dest] = "part"]} /\ Undo
    BY <2>1, <2>2, PalettesFail
  <2>3. CASE ~(folder' \in {folder, [folder EXCEPT ![dest] = "part"]} /\ Undo)
    BY <1>2, <2>1, <2>3, PalettesCopy DEF CopyOurs
  <2> QED
    BY <2>2, <2>3
<1>3. CASE UNCHANGED vars
  <2>1. UNCHANGED <<folder, stash, patched, record, pc, plan, at, copied, stashed, todo, troubles>>
    BY <1>3 DEF vars, folders, progress
  <2>2. items' = items
    BY <2>1 DEF items
  <2>3. \A i : PaletteAt(i)' = PaletteAt(i)
    BY <2>1, <2>2 DEF PaletteAt
  <2>4. InstallHolds' = InstallHolds
    BY <2>1, <2>2, <2>3 DEF InstallHolds, PlanIs, StepIs, OthersAre, TheseAre
  <2> QED
    BY <2>1, <2>4 DEF PalettesInv, PaletteTypes, Installing, IdleHolds, RemoveHolds, Kept
<1> QED
  BY <1>1, <1>2, <1>3, PalettesBegin, PalettesRest, PalettesUndo, PalettesCommit, PalettesRecord,
     PalettesOut, PalettesOutside DEF Next

-----------------------------------------------------------------------------
(* An install that goes through does not take the game past the palettes it *)
(* parses, unless the user's own were past it already (`LimitKept`).        *)
THEOREM TheLimitIsKept == Spec => []LimitKept
<1>1. ASSUME NamesAssumption, PalettesInv PROVE LimitKept
  <2> SUFFICES ASSUME pc = "record", "undo" \notin troubles
               PROVE  \/ Counted(folder, stash) <= Room
                      \/ Counted(folder, stash) <= Counted(plan.folder, plan.stash)
    BY DEF LimitKept
  <2>1. InstallHolds /\ PlanIs
    BY <1>1 DEF PalettesInv, Installing, InstallHolds
  <2>2. \A i \in DOMAIN items : folder[items[i].dest] = "ours" /\ stash[items[i].dest] = plan.stash[items[i].dest]
    <3>1. \A i \in DOMAIN items : PaletteAt(i)
      BY <2>1 DEF InstallHolds, TheseAre
    <3> QED
      BY <3>1 DEF PaletteAt
  <2>3. \A n \in Names \ Ours(items) : folder[n] = plan.folder[n] /\ stash[n] = plan.stash[n]
    BY <2>1 DEF InstallHolds, OthersAre
  <2>4. Seen(folder, Baked) = Seen(plan.folder, Baked) \cup Ours(items)
    <3>1. Seen(folder, Baked) \subseteq Seen(plan.folder, Baked) \cup Ours(items)
      BY <2>3 DEF Seen
    <3>2. ASSUME NEW n \in Ours(items) PROVE n \in Seen(folder, Baked)
      BY <2>1, <2>2, PlanFacts DEF Seen, Ours
    <3>3. ASSUME NEW n \in Seen(plan.folder, Baked), n \notin Ours(items) PROVE n \in Seen(folder, Baked)
      BY <2>3, <3>3 DEF Seen
    <3> QED
      BY <3>1, <3>2, <3>3
  <2>5. Seen(stash, {}) = Seen(plan.stash, {})
    <3>1. \A n \in Names : stash[n] = plan.stash[n]
      BY <2>2, <2>3 DEF Ours
    <3> QED
      BY <3>1 DEF Seen
  <2>6. \A f, s : Counted(f, s) = Cardinality(Seen(f, Baked)) + Cardinality(Seen(s, {}))
    <3>1. Names \ {} = Names
      OBVIOUS
    <3> QED
      BY <3>1 DEF Counted, Seen
  <2>7. CASE \A k \in DOMAIN items : items[k].over
    <3>1. Ours(items) \subseteq Seen(plan.folder, Baked)
      BY <2>1, <2>7, PlanFacts DEF Seen, Ours
    <3>2. Seen(folder, Baked) = Seen(plan.folder, Baked)
      BY <2>4, <3>1
    <3>3. Counted(folder, stash) = Counted(plan.folder, plan.stash)
      BY <2>5, <2>6, <3>2
    <3>4. Counted(folder, stash) \in Nat
      <4>1. /\ Seen(folder, Baked) \in SUBSET Names /\ Seen(stash, {}) \in SUBSET Names
            /\ IsFiniteSet(Names)
        BY <1>1 DEF Seen, NamesAssumption
      <4>2. Cardinality(Seen(folder, Baked)) \in Nat /\ Cardinality(Seen(stash, {})) \in Nat
        BY <4>1, FS_Subset, FS_CardinalityType
      <4> QED
        BY <2>6, <4>2
    <3> QED
      BY <3>3, <3>4
  <2>8. CASE ~ \A k \in DOMAIN items : items[k].over
    BY <2>1, <2>4, <2>5, <2>6, <2>8 DEF PlanIs, Fits
  <2> QED
    BY <2>7, <2>8
<1> QED
  BY <1>1, PalettesStart, PalettesStep, NamesAssumption, RoomAssumption, PTL DEF Spec

(* Uninstalling leaves nothing of what an install made (`NothingLeft`).     *)
THEOREM NothingIsLeft == Spec => []NothingLeft
<1>1. PalettesInv => NothingLeft
  BY DEF PalettesInv, IdleHolds, Kept, NothingLeft
<1> QED
  BY <1>1, PalettesStart, PalettesStep, NamesAssumption, RoomAssumption, PTL DEF Spec

(* What a step of any call does to a folder of the user's, when the install *)
(* was not told to replace palettes.                                        *)
LEMMA TheirsSpared ==
  ASSUME PalettesInv, Next, record # Unknown, NEW n \in Names \ record, Spared(n)
  PROVE  folder'[n] = "theirs"
<1>1. PaletteTypes /\ pc # "idle" /\ plan.mode # "replace" /\ folder[n] = "theirs"
  BY DEF PalettesInv, Spared
<1>2. CASE Installing
  <2>1. InstallHolds /\ PlanIs /\ todo = {} /\ stashed = {}
    <3>1. InstallHolds /\ PlanIs /\ todo = {}
      BY <1>2 DEF PalettesInv, InstallHolds, StepIs
    <3>2. stashed = {}
      BY <1>1, <3>1, PlanFacts DEF InstallHolds, StepIs
    <3> QED
      BY <3>1, <3>2
  <2>2. \A i \in DOMAIN items : items[i].dest # n /\ ~items[i].over
    BY <1>1, <2>1, PlanFacts DEF InstallHolds, OthersAre
  <2>3. pc \in {"apply", "undo", "commit"} => dest # n /\ ~items[at].over
    BY <2>1, <2>2 DEF InstallHolds, StepIs, dest
  <2>4. CASE UndoOne
    BY <1>1, <2>3, <2>4 DEF UndoOne, PaletteTypes
  <2>5. CASE CopyOurs
    BY <1>1, <2>3, <2>5 DEF CopyOurs, PaletteTypes
  <2>6. CASE StashTheirs
    BY <2>3, <2>6 DEF StashTheirs, HasToStash
  <2>7. CASE Crash
    BY <1>1, <2>1, <2>3, <2>7 DEF Crash, PaletteTypes, folders
  <2> QED
    BY <1>1, <1>2, <2>4, <2>5, <2>6, <2>7
       DEF Next, Installing, BeginInstall, RestOfInstall, CommitOne, RecordInstall, BeginUninstall,
           RecordUninstall, RemoveOne, UserAdds, UserDeletes, folders
<1>3. CASE ~Installing
  <2>1. pc = "remove" /\ todo \subseteq record
    BY <1>1, <1>3 DEF PalettesInv, PaletteTypes, Installing, RemoveHolds
  <2>2. ASSUME NEW m \in Names, RemoveOne(m) PROVE folder'[n] = "theirs"
    BY <1>1, <2>1, <2>2 DEF RemoveOne, PaletteTypes
  <2>3. CASE Crash
    BY <1>1, <2>1, <2>3 DEF Crash, PaletteTypes, folders
  <2> QED
    BY <1>1, <2>1, <2>2, <2>3
       DEF Next, BeginInstall, StashTheirs, CopyOurs, RestOfInstall, UndoOne, CommitOne,
           RecordInstall, BeginUninstall, RecordUninstall, UserAdds, UserDeletes, folders
<1> QED
  BY <1>2, <1>3

(* Only replacing can cost the user a palette (`RecordedKept`).             *)
THEOREM TheirsAreKept == Spec => RecordedKept
<1> DEFINE Spares == record # Unknown => \A n \in Names \ record : Spared(n) => folder'[n] = "theirs"
<1>1. PalettesInv /\ [Next]_vars => [Spares]_vars
  BY TheirsSpared
<1> QED
  BY <1>1, PalettesStart, PalettesStep, NamesAssumption, RoomAssumption, PTL DEF Spec, RecordedKept

(* A rollback with no palette of the user's in the way, or after all of     *)
(* ours had gone in, leaves every folder as it found it.                    *)
LEMMA UndoneWhole ==
  ASSUME PalettesInv, Next, GivesUp, plan.mode # "replace" \/ copied = DOMAIN items
  PROVE  folder' = plan.folder /\ stash' = plan.stash
<1>1. UndoOne
  <2>1. pc = "undo" /\ pc' = "idle" /\ "crash" \notin troubles'
    BY DEF GivesUp
  <2> QED
    BY <2>1 DEF Next, BeginInstall, StashTheirs, CopyOurs, RestOfInstall, CommitOne, RecordInstall,
                BeginUninstall, RecordUninstall, RemoveOne, Crash, Meets, UserAdds, UserDeletes
<1>2. /\ InstallHolds /\ PaletteTypes' /\ PlanIs /\ at = 1 /\ "undo" \notin troubles'
      /\ "undo" \notin troubles
  <2>1. pc = "undo" /\ pc' = "idle" /\ "undo" \notin troubles' /\ troubles \subseteq troubles'
    BY <1>1, UndoingOne DEF GivesUp
  <2>2. at = 1
    BY <1>1, <2>1 DEF UndoOne, Undone
  <2> QED
    BY <1>1, <2>1, <2>2, UndoingOne DEF InstallHolds
<1>3. ASSUME NEW n \in Names PROVE folder'[n] = plan.folder[n] /\ stash'[n] = plan.stash[n]
  <2>1. CASE n \in Ours(items)
    <3>1. PICK i \in DOMAIN items : n = items[i].dest
      BY <2>1 DEF Ours
    <3>2. i >= at
      BY <1>2, PlanFacts
    <3>3. /\ folder'[n] = IF i \in stashed THEN plan.folder[n] ELSE "none"
          /\ stash'[n] = plan.stash[n]
      BY <1>1, <1>2, <3>1, <3>2, UndoingOne
    <3>4. i \in stashed \/ plan.folder[n] = "none"
      <4>1. items[i].over => plan.mode = "replace" /\ copied = DOMAIN items
        BY <1>2, PlanFacts
      <4>2. PaletteAt(i)
        BY <1>2 DEF InstallHolds, TheseAre
      <4>3. items[i].over <=> plan.folder[n] # "none"
        BY <1>2, <3>1, PlanFacts
      <4> QED
        BY <4>1, <4>2, <4>3 DEF PaletteAt
    <3> QED
      BY <3>3, <3>4
  <2>2. CASE n \notin Ours(items)
    <3>1. at \in DOMAIN items /\ n # items[at].dest
      BY <1>1, <2>2, UndoingOne DEF Ours
    <3> QED
      BY <1>1, <1>2, <2>2, <3>1, UndoingOne DEF InstallHolds, OthersAre
  <2> QED
    BY <2>1, <2>2
<1> QED
  BY <1>2, <1>3 DEF PlanIs, PaletteTypes

(* An install that gives up leaves both names of every folder as it found   *)
(* them, but for the hole it can leave where it was to replace a palette it *)
(* had not come to (`RollbackWhole`).                                       *)
THEOREM RollbacksAreWhole == Spec => RollbackWhole
<1> DEFINE Whole == (/\ GivesUp
                     /\ plan.mode # "replace" \/ copied = DOMAIN items)
                    => folder' = plan.folder /\ stash' = plan.stash
<1>1. PalettesInv /\ [Next]_vars => [Whole]_vars
  BY UndoneWhole
<1> QED
  BY <1>1, PalettesStart, PalettesStep, NamesAssumption, RoomAssumption, PTL DEF Spec, RollbackWhole
=============================================================================
