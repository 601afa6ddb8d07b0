---------------------------- MODULE FormatsProofs ----------------------------
(***************************************************************************)
(* Why no file of an archive is unpacked outside the folder, for archives   *)
(* of any content, damaged or not, and why what is not damaged is read as   *)
(* it was packed.                                                           *)
(***************************************************************************)
EXTENDS Archive, CodesProofs

(***************************************************************************)
(* Names: one that zip_name_is_safe passes does not lead out of the folder. *)
(***************************************************************************)
Walks == [depth : Int, part : Seq(Nat), out : BOOLEAN]

(* One unit of a name, and the walk is still one.                           *)
LEMMA IntoIs ==
  ASSUME NEW walk \in Walks, NEW u \in Nat
  PROVE  Into(walk, u) \in Walks
<1>1. CASE ~Separator(u)
  <2>1. Append(walk.part, u) \in Seq(Nat)
    BY AppendProperties DEF Walks
  <2> QED
    BY <1>1, <2>1 DEF Into, Walks
<1>2. CASE Separator(u)
  <2> DEFINE depth == IF walk.part = <<Dot, Dot>> THEN walk.depth - 1
                      ELSE IF walk.part \in {<<>>, <<Dot>>} THEN walk.depth ELSE walk.depth + 1
  <2>1. depth \in Int
    BY DEF Walks
  <2>2. Into(walk, u) = [depth |-> depth, part |-> <<>>, out |-> walk.out \/ depth < 0]
    BY <1>2 DEF Into
  <2>3. (walk.out \/ depth < 0) \in BOOLEAN
    OBVIOUS
  <2> HIDE DEF depth
  <2> QED
    BY <2>1, <2>2, <2>3, EmptySeq DEF Walks
<1> QED
  BY <1>1, <1>2

(* The walk along a name is a function of how far it has come.              *)
Along(f, path) ==
  /\ f[0] = [depth |-> 0, part |-> <<>>, out |-> FALSE]
  /\ \A i \in 1 .. Len(path) : f[i] = Into(f[i - 1], path[i])

(* Walked is the end of such a walk.                                        *)
LEMMA WalkedIs ==
  ASSUME NEW name \in Seq(Nat)
  PROVE  LET path == Append(name, Slash)
         IN \E f : Along(f, path) /\ Walked(name) = f[Len(path)]
<1> DEFINE path == Append(name, Slash)
           n == Len(path)
           a == [depth |-> 0, part |-> <<>>, out |-> FALSE]
           Is(f) == f = [i \in 0 .. n |-> IF i = 0 THEN a ELSE Into(f[i - 1], path[i])]
           G == [x \in Walks \X (1 .. n) |-> Into(x[1], path[x[2]])]
<1>1. n \in Nat /\ path \in Seq(Nat)
  BY AppendProperties, LenProperties DEF Slash
<1>2. ASSUME NEW i \in 1 .. n PROVE path[i] \in Nat
  <2> HIDE DEF path
  <2> QED BY <1>1, ElementOfSeq
<1>3. a \in Walks
  BY EmptySeq DEF Walks
<1>4. ASSUME NEW walk \in Walks, NEW i \in 1 .. n PROVE Into(walk, path[i]) \in Walks
  BY <1>2, IntoIs
<1>5. G \in [Walks \X (1 .. n) -> Walks]
  BY <1>4
<1>6. ASSUME NEW walk \in Walks, NEW i \in 1 .. n PROVE G[<<walk, i>>] = Into(walk, path[i])
  OBVIOUS
<1> HIDE DEF G, a, path, n
<1>7. PICK g \in [0 .. n -> Walks] : Follows(g, n, a, G)
  BY <1>1, <1>3, <1>5, Recursion
<1>8. Is(g)
  <2>1. ASSUME NEW i \in 0 .. n
        PROVE  g[i] = (IF i = 0 THEN a ELSE Into(g[i - 1], path[i]))
    <3>1. i # 0 => i \in 1 .. n /\ g[i - 1] \in Walks
      BY <1>1
    <3> QED BY <1>6, <1>7, <3>1 DEF Follows
  <2>2. g = [i \in 0 .. n |-> g[i]]
    OBVIOUS
  <2> QED
    BY <2>1, <2>2
<1> DEFINE f == CHOOSE f : Is(f)
<1>9. Is(f)
  BY <1>8
<1>10. Walked(name) = f[n]
  BY DEF Walked, path, a, n
<1> HIDE DEF f
<1>11. f[0] = a
  BY <1>1, <1>9
<1>12. ASSUME NEW i \in 1 .. n PROVE f[i] = Into(f[i - 1], path[i])
  BY <1>1, <1>9
<1>13. Along(f, path)
  BY <1>11, <1>12 DEF Along, a, n
<1> QED
  BY <1>10, <1>13 DEF path, n

(* What the walk has of the component it is in, which begins at k.          *)
Since(walk, path, k, i) ==
  /\ k = 0 \/ Separator(path[k])
  /\ walk.part \in Seq(Nat) /\ Len(walk.part) = i - k
  /\ \A j \in 1 .. (i - k) : walk.part[j] = path[k + j]

Inward(walk, path, i) ==
  /\ walk \in Walks /\ walk.depth >= 0 /\ ~walk.out
  /\ \E k \in 0 .. i : Since(walk, path, k, i)

(* A walk that has not gone out does not with the next unit of a safe name. *)
LEMMA InwardOn ==
  ASSUME NEW name \in Seq(Nat), ~GoesUp(name), NEW path, path = Append(name, Slash),
         NEW i \in 1 .. Len(path), NEW walk, Inward(walk, path, i - 1)
  PROVE  Inward(Into(walk, path[i]), path, i)
<1> DEFINE u == path[i]
<1>1. /\ path \in Seq(Nat) /\ Len(name) \in Nat /\ Len(path) = Len(name) + 1
      /\ \A j \in 1 .. Len(name) : path[j] = name[j] /\ path[Len(name) + 1] = Slash
  BY AppendProperties, LenProperties DEF Slash
<1>2. PICK k \in 0 .. (i - 1) : Since(walk, path, k, i - 1)
  BY DEF Inward
<1>3. u \in Nat /\ Into(walk, u) \in Walks
  BY <1>1, ElementOfSeq, IntoIs DEF Inward
<1>4. CASE ~Separator(u)
  <2>1. Into(walk, u) = [walk EXCEPT !.part = Append(walk.part, u)]
    BY <1>4 DEF Into
  <2>2. /\ Into(walk, u).part = Append(walk.part, u)
        /\ Into(walk, u).depth = walk.depth /\ Into(walk, u).out = walk.out
    BY <2>1 DEF Inward, Walks
  <2>3. /\ Append(walk.part, u) \in Seq(Nat) /\ Len(Append(walk.part, u)) = i - k
        /\ \A j \in 1 .. (i - 1 - k) : Append(walk.part, u)[j] = walk.part[j]
        /\ Append(walk.part, u)[i - k] = u
    <3>1. walk.part \in Seq(Nat) /\ Len(walk.part) = i - 1 - k /\ i - 1 - k + 1 = i - k
      BY <1>1, <1>2 DEF Since
    <3>2. /\ Append(walk.part, u) \in Seq(Nat)
          /\ Len(Append(walk.part, u)) = Len(walk.part) + 1
          /\ \A j \in 1 .. Len(walk.part) : Append(walk.part, u)[j] = walk.part[j]
          /\ Append(walk.part, u)[Len(walk.part) + 1] = u
      BY <1>3, <3>1, AppendProperties
    <3> HIDE DEF u
    <3> QED BY <3>1, <3>2
  <2>4. ASSUME NEW j \in 1 .. (i - k) PROVE Append(walk.part, u)[j] = path[k + j]
    <3>1. CASE j = i - k
      BY <2>3, <3>1
    <3>2. CASE j # i - k
      BY <1>2, <2>3, <3>2 DEF Since
    <3> QED BY <3>1, <3>2
  <2>5. Since(Into(walk, u), path, k, i)
    BY <1>2, <2>2, <2>3, <2>4 DEF Since
  <2> QED
    BY <1>3, <2>2, <2>5 DEF Inward
<1>5. CASE Separator(u)
  <2>1. walk.part # <<Dot, Dot>>
    <3> SUFFICES ASSUME walk.part = <<Dot, Dot>> PROVE FALSE
      OBVIOUS
    <3>1. Len(walk.part) = 2 /\ walk.part[1] = Dot /\ walk.part[2] = Dot
      OBVIOUS
    <3>2. i - 1 - k = 2 /\ path[k + 1] = Dot /\ path[k + 2] = Dot
      <4>1. i - 1 - k = 2
        BY <1>1, <1>2, <3>1 DEF Since
      <4>2. walk.part[1] = path[k + 1] /\ walk.part[2] = path[k + 2]
        BY <1>2, <4>1 DEF Since
      <4> QED BY <3>1, <4>1, <4>2
    <3>3. k + 1 \in 1 .. Len(name) /\ k + 2 \in 1 .. Len(name) /\ k + 3 = i
      BY <1>1, <3>2
    <3>4. name[k + 1] = Dot /\ name[k + 2] = Dot
      BY <1>1, <3>2, <3>3
    <3>5. k = 0 \/ Separator(name[k])
      BY <1>1, <1>2, <3>3 DEF Since
    <3>6. k + 2 = Len(name) \/ Separator(name[k + 3])
      BY <1>1, <1>5, <3>3
    <3>7. DOMAIN name = 1 .. Len(name)
      BY LenProperties
    <3> DEFINE w == k + 1
    <3>8. /\ w \in DOMAIN name /\ w < Len(name)
          /\ name[w] = Dot /\ name[w + 1] = Dot
          /\ w = 1 \/ Separator(name[w - 1])
          /\ w + 1 = Len(name) \/ Separator(name[w + 2])
      <4>1. w - 1 = k /\ w + 1 = k + 2 /\ w + 2 = k + 3 /\ w < Len(name)
        <5>1. k \in Nat /\ k + 2 <= Len(name)
          BY <1>1, <3>3
        <5>2. k - 1 + 1 = k /\ k + 1 - 1 = k /\ k + 1 + 1 = k + 2 /\ k + 1 + 2 = k + 3
          BY <5>1
        <5> QED
          BY <1>1, <5>1, <5>2
      <4>2. (w = 1 \/ Separator(name[w - 1])) /\ (w + 1 = Len(name) \/ Separator(name[w + 2]))
        BY <3>5, <3>6, <4>1
      <4> QED
        BY <3>3, <3>4, <3>7, <4>1, <4>2
    <3> HIDE DEF w
    <3> QED
      BY <3>8 DEF GoesUp, UpBetween
  <2>2. /\ Into(walk, u).part = <<>> /\ Into(walk, u).depth >= 0 /\ ~Into(walk, u).out
    <3> DEFINE d == IF walk.part \in {<<>>, <<Dot>>} THEN walk.depth ELSE walk.depth + 1
    <3>1. walk.depth \in Int /\ walk.depth >= 0 /\ walk.out = FALSE
      BY DEF Inward, Walks
    <3>2. d >= 0 /\ ~(d < 0)
      BY <3>1
    <3>3. Into(walk, u) = [depth |-> d, part |-> <<>>, out |-> walk.out \/ d < 0]
      BY <1>5, <2>1 DEF Into
    <3> HIDE DEF d, u
    <3>4. Into(walk, u).part = <<>> /\ Into(walk, u).depth = d
          /\ Into(walk, u).out = (walk.out \/ d < 0)
      BY <3>3
    <3> QED
      BY <3>1, <3>2, <3>4
  <2>3. Since(Into(walk, u), path, i, i)
    BY <1>5, <2>2, EmptySeq DEF Since
  <2> QED
    BY <1>3, <2>2, <2>3 DEF Inward
<1> QED
  BY <1>4, <1>5

(* zip_name_is_safe looks at each component once; what it passes never      *)
(* leaves the folder, whatever dots and separators it is made of.           *)
LEMMA SafeNamesStay ==
  ASSUME NEW name \in Seq(Nat), NameIsSafe(name)
  PROVE  StaysInside(name)
<1> DEFINE path == Append(name, Slash)
<1>1. PICK f : Along(f, path) /\ Walked(name) = f[Len(path)]
  BY WalkedIs
<1>2. Len(path) \in Nat
  BY AppendProperties, LenProperties DEF Slash
<1> HIDE DEF path
<1> DEFINE P == {i \in 0 .. Len(path) : Inward(f[i], path, i)}
<1>3. 0 \in P
  <2>1. f[0] = [depth |-> 0, part |-> <<>>, out |-> FALSE]
    BY <1>1, <1>2 DEF Along
  <2>2. Since(f[0], path, 0, 0)
    BY <2>1, EmptySeq DEF Since
  <2>3. f[0] \in Walks /\ f[0].depth >= 0 /\ ~f[0].out
    BY <2>1, EmptySeq DEF Walks
  <2>4. Inward(f[0], path, 0)
    BY <2>2, <2>3 DEF Inward
  <2> QED
    BY <1>2, <2>4
<1>4. ASSUME NEW i \in 1 .. Len(path), i - 1 \in P PROVE i \in P
  <2>1. f[i] = Into(f[i - 1], path[i])
    BY <1>1, <1>2 DEF Along
  <2>2. Inward(Into(f[i - 1], path[i]), path, i)
    BY <1>4, InwardOn DEF path, NameIsSafe
  <2> QED
    BY <2>1, <2>2
<1>5. 0 .. Len(path) \subseteq P
  <2> HIDE DEF P
  <2> QED BY <1>2, <1>3, <1>4, Upward
<1>6. ~Walked(name).out
  BY <1>1, <1>2, <1>5 DEF Inward
<1> QED
  BY <1>6 DEF StaysInside, NameIsSafe

(***************************************************************************)
(* What an archive is made of is units, and what is read from it are the    *)
(* names that lie in it.                                                    *)
(***************************************************************************)
(* The records of a member are units, and so are an archive and a stream.   *)
LEMMA MemberUnits ==
  ASSUME NEW m \in Member
  PROVE  /\ m.name \in Bytes /\ m.data \in Bytes /\ Body(m) \in Bytes
         /\ Len(m.name) \in Nat /\ Len(m.data) \in Nat /\ Len(Body(m)) \in Nat
         /\ LocalRecord(m) \in Bytes
<1>1. /\ m.name \in Bytes /\ m.data \in Bytes /\ m.localExtra \in Bytes /\ m.method \in Nat
  BY DEF Member
<1>2. Len(m.name) \in Nat /\ Len(m.data) \in Nat /\ Len(m.localExtra) \in Nat
  BY <1>1, LenProperties DEF Bytes
<1>3. Body(m) \in Bytes
  <2>1. <<Len(m.data)>> \in Seq(Nat)
    BY <1>2
  <2>2. <<Len(m.data)>> \o m.data \in Seq(Nat)
    BY <1>1, <2>1, ConcatProperties DEF Bytes
  <2> QED
    BY <1>1, <2>2 DEF Body, Packed, Bytes
<1>4. LocalRecord(m) \in Bytes
  <2> DEFINE first == <<SigLocal, m.method, Len(m.name), Len(m.localExtra)>>
  <2>1. first \in Seq(Nat)
    BY <1>1, <1>2, ArchiveAssumption
  <2>2. LocalRecord(m) = first \o m.name \o m.localExtra \o Body(m)
    BY DEF LocalRecord
  <2> HIDE DEF first
  <2>3. first \o m.name \in Seq(Nat)
    BY <1>1, <2>1, ConcatProperties DEF Bytes
  <2>4. first \o m.name \o m.localExtra \in Seq(Nat)
    BY <1>1, <2>3, ConcatProperties DEF Bytes
  <2>5. first \o m.name \o m.localExtra \o Body(m) \in Seq(Nat)
    BY <1>3, <2>4, ConcatProperties DEF Bytes
  <2> QED
    BY <2>2, <2>5 DEF Bytes
<1> QED
  BY <1>1, <1>2, <1>3, <1>4, LenProperties DEF Bytes

(* The header of a member in the directory, with its ZIP64 block.           *)
LEMMA CentralUnits ==
  ASSUME NEW m \in Member, Checksum(m.data) \in Nat, NEW offset \in Nat
  PROVE  CentralRecord(m, offset) \in Bytes
<1>1. /\ m.flags \in Nat /\ m.method \in Nat /\ m.extra \in Bytes
      /\ Marker \in Nat /\ SigCentral \in Nat
  BY ArchiveAssumption DEF Member
<1> DEFINE sizes == IF "uncomp" \in m.zip64 THEN <<Len(m.data)>> ELSE <<>>
           packed == IF "comp" \in m.zip64 THEN <<Len(Body(m))>> ELSE <<>>
           places == IF "offset" \in m.zip64 THEN <<offset>> ELSE <<>>
           values == sizes \o packed \o places
           moved == <<Zip64Id, Len(values)>>
           extra == m.extra \o Zip64Block(m, offset)
           first == <<SigCentral, m.flags, m.method, Checksum(m.data),
                      Field(m, "comp", Len(Body(m))), Field(m, "uncomp", Len(m.data)),
                      Len(m.name), Len(extra), 0, Field(m, "offset", offset)>>
<1>2. sizes \in Seq(Nat) /\ packed \in Seq(Nat) /\ places \in Seq(Nat)
  BY MemberUnits, EmptySeq
<1>3. values \in Seq(Nat)
  <2> HIDE DEF sizes, packed, places
  <2>1. sizes \o packed \in Seq(Nat)
    BY <1>2, ConcatProperties
  <2> QED
    BY <1>2, <2>1, ConcatProperties
<1>4. Zip64Block(m, offset) \in Seq(Nat)
  <2>1. Zip64Block(m, offset) = (IF m.zip64 = {} THEN <<>> ELSE moved \o values)
    BY DEF Zip64Block
  <2> HIDE DEF values
  <2>2. moved \in Seq(Nat)
    BY <1>3, LenProperties DEF Zip64Id
  <2> HIDE DEF moved
  <2>3. moved \o values \in Seq(Nat)
    BY <1>3, <2>2, ConcatProperties
  <2> QED
    BY <2>1, <2>3, EmptySeq
<1>5. extra \in Seq(Nat) /\ Len(extra) \in Nat
  BY <1>1, <1>4, ConcatProperties, LenProperties DEF Bytes
<1> HIDE DEF extra
<1>6. first \in Seq(Nat)
  <2>1. /\ Field(m, "comp", Len(Body(m))) \in Nat /\ Field(m, "uncomp", Len(m.data)) \in Nat
        /\ Field(m, "offset", offset) \in Nat
    BY <1>1, MemberUnits DEF Field
  <2>2. Len(m.name) \in Nat
    BY MemberUnits
  <2> QED
    BY <1>1, <1>5, <2>1, <2>2
<1>7. CentralRecord(m, offset) = first \o m.name \o extra
  BY DEF CentralRecord, extra
<1> HIDE DEF first
<1>8. first \o m.name \in Seq(Nat)
  BY <1>6, MemberUnits, ConcatProperties DEF Bytes
<1>9. first \o m.name \o extra \in Seq(Nat)
  BY <1>5, <1>8, ConcatProperties
<1> QED
  BY <1>7, <1>9 DEF Bytes

(* The records before the directory.                                        *)
LEMMA LocalsUnits ==
  ASSUME NEW ms \in Seq(Member)
  PROVE  Locals(ms) \in Bytes /\ Len(Locals(ms)) \in Nat
<1> DEFINE n == Len(ms)
           records == [i \in 1 .. n |-> LocalRecord(ms[i])]
<1>1. n \in Nat /\ DOMAIN ms = 1 .. n /\ \A i \in 1 .. n : ms[i] \in Member
  BY LenProperties, ElementOfSeq
<1>2. Locals(ms) = FlattenSeq(records)
  BY <1>1 DEF Locals
<1> HIDE DEF n
<1>3. records \in Seq(Seq(Nat))
  BY <1>1, MemberUnits, IsASeq DEF Bytes
<1> HIDE DEF records
<1>4. FlattenSeq(records) \in Seq(Nat)
  BY <1>3, Flattened
<1> QED
  BY <1>2, <1>4, LenProperties DEF Bytes

(* All of an archive, whoever wrote it.                                     *)
LEMMA ArchiveUnits ==
  ASSUME NEW ms \in Archives, NEW comment \in Comments
  PROVE  ZipOf(ms, comment) \in Bytes
<1> DEFINE n == Len(ms)
           records == [i \in 1 .. n |-> CentralRecord(ms[i], Len(Locals(SubSeq(ms, 1, i - 1))))]
           end == <<SigEnd, Len(ms), Len(Directory(ms)), Len(Locals(ms)), Len(comment)>>
<1>1. /\ ms \in Seq(Member) /\ comment \in Seq(Nat) /\ SigEnd \in Nat
      /\ \A i \in DOMAIN ms : Checksum(ms[i].data) \in Nat
  BY ArchiveAssumption DEF Bytes
<1>2. n \in Nat /\ DOMAIN ms = 1 .. n /\ \A i \in 1 .. n : ms[i] \in Member
  BY <1>1, LenProperties, ElementOfSeq
<1>3. Directory(ms) = FlattenSeq(records)
  BY <1>2 DEF Directory
<1>4. ASSUME NEW i \in 1 .. n
      PROVE  CentralRecord(ms[i], Len(Locals(SubSeq(ms, 1, i - 1)))) \in Seq(Nat)
  <2>1. SubSeq(ms, 1, i - 1) \in Seq(Member)
    BY <1>2, SubSeqProperties
  <2> QED
    BY <1>1, <1>2, <2>1, LocalsUnits, CentralUnits DEF Bytes
<1> HIDE DEF n
<1>5. records \in Seq(Seq(Nat))
  BY <1>2, <1>4, IsASeq
<1> HIDE DEF records
<1>6. Directory(ms) \in Seq(Nat)
  BY <1>3, <1>5, Flattened
<1>7. Locals(ms) \in Seq(Nat)
  BY <1>1, LocalsUnits DEF Bytes
<1>8. end \in Seq(Nat)
  BY <1>1, <1>2, <1>6, <1>7, LenProperties DEF n
<1>9. EndRecord(ms, comment) = end \o comment
  BY DEF EndRecord
<1> HIDE DEF end
<1>10. end \o comment \in Seq(Nat) /\ Locals(ms) \o Directory(ms) \in Seq(Nat)
  BY <1>1, <1>6, <1>7, <1>8, ConcatProperties
<1>11. Locals(ms) \o Directory(ms) \o EndRecord(ms, comment) \in Seq(Nat)
  BY <1>9, <1>10, ConcatProperties
<1> QED
  BY <1>11 DEF ZipOf, Bytes

(* A gzip stream, with the fields its header may have.                      *)
LEMMA StreamUnits ==
  ASSUME NEW s \in Streams
  PROVE  Gzip(s) \in Bytes
<1> DEFINE first == <<Magic, Deflated, s.flags>>
           extra == IF s.extra # Nothing THEN <<Len(s.extra)>> \o s.extra ELSE <<>>
           name  == IF s.name # Nothing THEN s.name \o <<0>> ELSE <<>>
           trailer  == <<Checksum(s.data), Len(s.data)>>
<1>1. /\ s.flags \in Nat /\ s.data \in Seq(Nat) /\ Magic \in Nat /\ Checksum(s.data) \in Nat
      /\ s.extra # Nothing => s.extra \in Seq(Nat)
      /\ s.name # Nothing => s.name \in Seq(Nat)
  BY ArchiveAssumption DEF Stream, Bytes
<1>2. Len(s.data) \in Nat
  BY <1>1, LenProperties
<1>3. first \in Seq(Nat) /\ trailer \in Seq(Nat)
  BY <1>1, <1>2 DEF Deflated
<1>4. extra \in Seq(Nat)
  <2>1. CASE s.extra # Nothing
    <3>1. <<Len(s.extra)>> \in Seq(Nat)
      BY <1>1, <2>1, LenProperties
    <3>2. <<Len(s.extra)>> \o s.extra \in Seq(Nat)
      BY <1>1, <2>1, <3>1, ConcatProperties
    <3> QED BY <2>1, <3>2
  <2> QED
    BY <2>1, EmptySeq
<1>5. name \in Seq(Nat)
  <2>1. CASE s.name # Nothing
    <3>1. <<0>> \in Seq(Nat)
      OBVIOUS
    <3>2. s.name \o <<0>> \in Seq(Nat)
      BY <1>1, <2>1, <3>1, ConcatProperties
    <3> QED BY <2>1, <3>2
  <2> QED
    BY <2>1, EmptySeq
<1>6. Packed(s.data) \in Seq(Nat)
  <2>1. <<Len(s.data)>> \in Seq(Nat)
    BY <1>2
  <2> QED
    BY <1>1, <2>1, ConcatProperties DEF Packed
<1>7. Gzip(s) = first \o extra \o name \o Packed(s.data) \o trailer
  BY DEF Gzip
<1> HIDE DEF first, extra, name, trailer
<1>8. first \o extra \in Seq(Nat)
  BY <1>3, <1>4, ConcatProperties
<1>9. first \o extra \o name \in Seq(Nat)
  BY <1>5, <1>8, ConcatProperties
<1>10. first \o extra \o name \o Packed(s.data) \in Seq(Nat)
  BY <1>6, <1>9, ConcatProperties
<1>11. first \o extra \o name \o Packed(s.data) \o trailer \in Seq(Nat)
  BY <1>3, <1>10, ConcatProperties
<1> QED
  BY <1>7, <1>11 DEF Bytes

(* What zip_open reads of a header is a name that lies in the archive.      *)
LEMMA EntryNamed ==
  ASSUME units \in Bytes, NEW p \in 0 .. Size, EntryAt(p) # Nothing
  PROVE  EntryAt(p).name \in Bytes /\ p + HeaderSize(p) \in 0 .. Size
<1> DEFINE header == [name |-> Piece(p + CentralSize, At(p + CNameLen)),
                      method |-> At(p + CMethod), crc |-> At(p + CCrc),
                      comp |-> At(p + CComp), uncomp |-> At(p + CUncomp),
                      offset |-> At(p + COffset)]
           from == p + CentralSize + At(p + CNameLen)
           n == At(p + CExtraLen)
<1>1. Size \in Nat /\ p \in Nat /\ \A i \in 0 .. (Size - 1) : At(i) \in Nat
  <2>1. Size \in Nat /\ \A i \in 1 .. Size : units[i] \in Nat
    BY LenProperties, ElementOfSeq DEF Size, Bytes
  <2> QED
    BY <2>1 DEF At
<1>2. ~(Size - p < CentralSize) /\ ~(Size - p < HeaderSize(p))
      /\ EntryAt(p) = Zip64Fields(header, from, n)
  BY DEF EntryAt
<1>3. /\ At(p + CNameLen) \in Nat /\ At(p + CExtraLen) \in Nat
      /\ At(p + CCommentLen) \in Nat
  <2>1. /\ p + CNameLen \in 0 .. (Size - 1) /\ p + CExtraLen \in 0 .. (Size - 1)
        /\ p + CCommentLen \in 0 .. (Size - 1)
    BY <1>1, <1>2 DEF CentralSize, CNameLen, CExtraLen, CCommentLen
  <2> QED
    BY <1>1, <2>1
<1>4. p + HeaderSize(p) \in 0 .. Size
  BY <1>1, <1>2, <1>3 DEF HeaderSize, CentralSize
<1>5. header.name \in Bytes
  <2> DEFINE a == p + CentralSize + 1
             b == p + CentralSize + At(p + CNameLen)
  <2>1. a \in Int /\ b \in Int /\ a - 1 >= 0 /\ b <= Size
    BY <1>1, <1>2, <1>3 DEF HeaderSize, CentralSize
  <2>2. ASSUME NEW i \in a .. b PROVE units[i] \in Nat
    <3>1. i \in 1 .. Size
      BY <1>1, <2>1
    <3> QED
      BY <3>1, ElementOfSeq DEF Size, Bytes
  <2>3. header.name = SubSeq(units, a, b)
    BY DEF Piece
  <2> HIDE DEF a, b, header
  <2> QED
    BY <2>1, <2>2, <2>3, SubSeqProperties DEF Bytes
<1>6. Zip64Fields(header, from, n).name = header.name
  <2> HIDE DEF from, n
  <2>1. Zip64Fields(header, from, n) # Nothing
    BY <1>2 DEF from, n
  <2> QED
    BY <2>1 DEF Zip64Fields
<1> QED
  BY <1>2, <1>4, <1>5, <1>6

(* The headers of the directory, read one after the other: as many as are   *)
(* said to follow, from each place on.                                      *)
Good == {EntryAt(p) : p \in {q \in 0 .. Size : EntryAt(q) # Nothing}}
OneMore(f, p) ==
  LET entry == EntryAt(p)
      rest  == f[p + HeaderSize(p)]
  IN IF entry = Nothing THEN Nothing
     ELSE IF rest = Nothing THEN Nothing ELSE <<entry>> \o rest

(* A list of headers is the one at its start and those of the list after it.*)
LEMMA HeadersFollow ==
  ASSUME units \in Bytes, NEW at \in 0 .. Size, NEW count \in Nat
  PROVE  \E h \in [0 .. count -> [0 .. Size -> {Nothing} \cup Seq(Good)]] :
            /\ ReadHeaders(at, count) = h[count][at]
            /\ \A p \in 0 .. Size : h[0][p] = <<>>
            /\ \A n \in 1 .. count : \A p \in 0 .. Size : h[n][p] = OneMore(h[n - 1], p)
<1> DEFINE Some == {Nothing} \cup Seq(Good)
           V == [0 .. Size -> Some]
           One(f, p) == OneMore(f, p)
           G == [x \in V \X (1 .. count) |-> [p \in 0 .. Size |-> One(x[1], p)]]
           a == [p \in 0 .. Size |-> <<>>]
           Is(f) == f = [n \in 0 .. count |-> [p \in 0 .. Size |->
                           IF n = 0 THEN <<>> ELSE One(f[n - 1], p)]]
<1>1. a \in V
  BY EmptySeq
<1>2. ASSUME NEW f \in V, NEW p \in 0 .. Size PROVE One(f, p) \in Some
  <2>1. CASE EntryAt(p) = Nothing
    BY <2>1 DEF OneMore
  <2>2. CASE EntryAt(p) # Nothing
    <3>1. p + HeaderSize(p) \in 0 .. Size
      BY <2>2, EntryNamed
    <3>2. f[p + HeaderSize(p)] \in Some
      BY <3>1
    <3>3. <<EntryAt(p)>> \in Seq(Good)
      BY <2>2 DEF Good
    <3>4. f[p + HeaderSize(p)] # Nothing => <<EntryAt(p)>> \o f[p + HeaderSize(p)] \in Seq(Good)
      <4> QED BY <3>2, <3>3, ConcatProperties
    <3> QED
      BY <3>2, <3>4 DEF OneMore
  <2> QED
    BY <2>1, <2>2
<1>3. G \in [V \X (1 .. count) -> V]
  <2> HIDE DEF One, Some
  <2> QED BY <1>2
<1>4. ASSUME NEW f \in V, NEW n \in 1 .. count
      PROVE  G[<<f, n>>] = [p \in 0 .. Size |-> One(f, p)]
  <2> HIDE DEF One, V
  <2> QED OBVIOUS
<1>5. ReadHeaders(at, count) = (CHOOSE f : Is(f))[count][at]
  BY DEF ReadHeaders, OneMore
<1> HIDE DEF a, V, G, One
<1>6. PICK g \in [0 .. count -> V] : Follows(g, count, a, G)
  BY <1>1, <1>3, Recursion
<1>7. Is(g)
  <2>1. ASSUME NEW n \in 0 .. count
        PROVE  g[n] = [p \in 0 .. Size |-> IF n = 0 THEN <<>> ELSE One(g[n - 1], p)]
    <3>1. CASE n = 0
      BY <1>6, <3>1 DEF Follows, a
    <3>2. CASE n # 0
      <4>1. n \in 1 .. count /\ n - 1 \in 0 .. count
        BY <3>2
      <4>2. g[n] = [p \in 0 .. Size |-> One(g[n - 1], p)]
        BY <1>4, <1>6, <4>1 DEF Follows
      <4> QED
        BY <3>2, <4>2
    <3> QED
      BY <3>1, <3>2
  <2>2. g = [n \in 0 .. count |-> g[n]]
    OBVIOUS
  <2> QED
    BY <2>1, <2>2
<1> DEFINE h == CHOOSE f : Is(f)
<1>8. Is(h)
  BY <1>7
<1> HIDE DEF h
<1> DEFINE P == {n \in 0 .. count : h[n] \in V}
<1>9. 0 \in P
  BY <1>1, <1>8 DEF a
<1>10. ASSUME NEW n \in 1 .. count, n - 1 \in P PROVE n \in P
  <2>1. n \in 0 .. count /\ n # 0
    OBVIOUS
  <2>2. h[n] = [p \in 0 .. Size |-> IF n = 0 THEN <<>> ELSE One(h[n - 1], p)]
    BY <1>8, <2>1
  <2>3. h[n] = [p \in 0 .. Size |-> One(h[n - 1], p)]
    BY <2>1, <2>2
  <2>4. h[n] \in V
    BY <1>2, <1>10, <2>3 DEF V
  <2> QED
    BY <2>4
<1>11. 0 .. count \subseteq P
  <2> HIDE DEF P
  <2> QED BY <1>9, <1>10, Upward
<1>12. h \in [0 .. count -> V]
  <2>1. \A n \in 0 .. count : h[n] \in V
    BY <1>11
  <2>2. h = [n \in 0 .. count |-> h[n]]
    <3> DEFINE Layer(n) == [p \in 0 .. Size |-> IF n = 0 THEN <<>> ELSE One(h[n - 1], p)]
    <3>1. h = [n \in 0 .. count |-> Layer(n)]
      BY <1>8
    <3> HIDE DEF Layer
    <3> QED BY <3>1
  <2> QED BY <2>1, <2>2
<1>13. \A p \in 0 .. Size : h[0][p] = <<>>
  BY <1>8
<1>14. \A n \in 1 .. count : \A p \in 0 .. Size : h[n][p] = OneMore(h[n - 1], p)
  <2>1. ASSUME NEW n \in 1 .. count, NEW p \in 0 .. Size PROVE h[n][p] = OneMore(h[n - 1], p)
    <3>1. n \in 0 .. count /\ n # 0
      OBVIOUS
    <3>2. h[n] = [q \in 0 .. Size |-> IF n = 0 THEN <<>> ELSE One(h[n - 1], q)]
      BY <1>8, <3>1
    <3>3. h[n][p] = One(h[n - 1], p)
      BY <3>1, <3>2
    <3> QED BY <3>3 DEF One
  <2> QED BY <2>1
<1> QED
  BY <1>5, <1>12, <1>13, <1>14 DEF h, V

(* So each entry is a header that was found.                                *)
LEMMA HeadersNamed ==
  ASSUME units \in Bytes, NEW at \in 0 .. Size, NEW count \in Nat,
         ReadHeaders(at, count) # Nothing
  PROVE  ReadHeaders(at, count) \in Seq(Good)
<1>1. PICK h \in [0 .. count -> [0 .. Size -> {Nothing} \cup Seq(Good)]] :
             ReadHeaders(at, count) = h[count][at]
  BY HeadersFollow
<1>2. h[count][at] \in {Nothing} \cup Seq(Good)
  <2> HIDE DEF Good
  <2>1. count \in 0 .. count
    OBVIOUS
  <2> QED BY <1>1, <2>1
<1> QED BY <1>1, <1>2

(* So what zip_open leaves are entries whose names are units.               *)
LEMMA OpenedNamed ==
  ASSUME units \in Bytes, ZipOpen # Nothing
  PROVE  \A i \in DOMAIN ZipOpen : ZipOpen[i].name \in Bytes
<1> DEFINE e == EndAt
<1>1. Size \in Nat /\ \A i \in 0 .. (Size - 1) : At(i) \in Nat
  <2>1. Size \in Nat /\ \A i \in 1 .. Size : units[i] \in Nat
    BY LenProperties, ElementOfSeq DEF Size, Bytes
  <2> QED
    BY <2>1 DEF At
<1>2. e # Nothing /\ EndPlaces # {}
  BY DEF ZipOpen, EndAt
<1>3. EndPlaces \in SUBSET (0 .. Size)
  BY <1>1 DEF EndPlaces, EndSize
<1>4. \E m \in EndPlaces : \A j \in EndPlaces : j <= m
  BY <1>1, <1>2, <1>3, Greatest
<1>5. e \in 0 .. (Size - EndSize)
  <2>1. e \in EndPlaces
    BY <1>2, <1>4 DEF EndAt
  <2> QED
    BY <2>1 DEF EndPlaces
<1>6. At(e + ECdSize) \in Nat /\ At(e + ECdOffset) \in Nat /\ At(e + ECount) \in Nat
  <2>1. /\ e + ECdSize \in 0 .. (Size - 1) /\ e + ECdOffset \in 0 .. (Size - 1)
        /\ e + ECount \in 0 .. (Size - 1)
    BY <1>1, <1>5 DEF EndSize, ECdSize, ECdOffset, ECount
  <2> HIDE DEF e
  <2> QED
    BY <1>1, <2>1
<1>7. /\ ZipOpen = ReadHeaders(At(e + ECdOffset), At(e + ECount))
      /\ Inside(At(e + ECdOffset), At(e + ECdSize))
  BY <1>2 DEF ZipOpen
<1>8. At(e + ECdOffset) \in 0 .. Size
  BY <1>1, <1>6, <1>7 DEF Inside
<1> HIDE DEF e
<1>9. ZipOpen \in Seq(Good)
  BY <1>6, <1>7, <1>8, HeadersNamed
<1>10. ASSUME NEW x \in Good PROVE x.name \in Bytes
  BY <1>10, EntryNamed DEF Good
<1>11. DOMAIN ZipOpen = 1 .. Len(ZipOpen) /\ \A i \in 1 .. Len(ZipOpen) : ZipOpen[i] \in Good
  BY <1>9, LenProperties, ElementOfSeq
<1> QED
  BY <1>10, <1>11

(* The archive is made of units, what was read of it are names, and nothing *)
(* is unpacked outside the folder.                                          *)
ArchiveInv ==
  /\ units \in Bytes
  /\ \A i \in DOMAIN entries : entries[i].name \in Bytes
  /\ NothingOutside

(* An archive or a stream, nothing read of it yet.                          *)
LEMMA ArchiveStarts == ArchiveInit => ArchiveInv
<1> SUFFICES ASSUME ArchiveInit PROVE ArchiveInv
  OBVIOUS
<1>1. units \in Bytes
  BY ArchiveUnits, StreamUnits DEF ArchiveInit
<1>2. entries = <<>> /\ stage # "all"
  BY DEF ArchiveInit
<1> QED
  BY <1>1, <1>2 DEF ArchiveInv, NothingOutside

(* Damage leaves units.                                                     *)
LEMMA SpoilKeeps == ArchiveInv /\ Spoil => ArchiveInv'
<1> SUFFICES ASSUME ArchiveInv, Spoil PROVE ArchiveInv'
  OBVIOUS
<1>1. units' \in Bytes
  <2>1. CASE UNCHANGED <<units, damaged>>
    BY <2>1 DEF ArchiveInv
  <2>2. ASSUME NEW i \in DOMAIN units, NEW v \in Damages \cup {units[i] + 1, units[i] - 1},
               v >= 0, units' = [units EXCEPT ![i] = v]
        PROVE  units' \in Bytes
    <3>1. units[i] \in Nat
      BY LenProperties, ElementOfSeq DEF ArchiveInv, Bytes
    <3>2. v \in Nat
      BY <2>2, <3>1, ArchiveAssumption
    <3> QED
      BY <2>2, <3>2, ExceptSeq, LenProperties DEF ArchiveInv, Bytes
  <2>3. ASSUME NEW n \in 0 .. (Size - 1), units' = SubSeq(units, 1, n) PROVE units' \in Bytes
    <3>1. ASSUME NEW i \in 1 .. n PROVE units[i] \in Nat
      <4>1. i \in 1 .. Len(units)
        BY LenProperties DEF ArchiveInv, Bytes, Size
      <4> QED
        BY <4>1, ElementOfSeq DEF ArchiveInv, Bytes
    <3> QED
      BY <2>3, <3>1, SubSeqProperties DEF Bytes
  <2> QED
    BY <2>1, <2>2, <2>3 DEF Spoil
<1>2. UNCHANGED entries /\ stage' # "all"
  BY DEF Spoil
<1> QED
  BY <1>1, <1>2 DEF ArchiveInv, NothingOutside

(* Every step of its life.                                                  *)
LEMMA ArchiveSteps == ArchiveInv /\ [ArchiveNext]_archive => ArchiveInv'
<1> SUFFICES ASSUME ArchiveInv, [ArchiveNext]_archive PROVE ArchiveInv'
  OBVIOUS
<1>1. CASE Spoil
  BY <1>1, SpoilKeeps
<1>2. CASE Open
  <2>1. units' = units /\ stage' # "all"
    BY <1>2 DEF Open
  <2>2. entries' = entries \/ (ZipOpen # Nothing /\ entries' = ZipOpen)
    BY <1>2 DEF Open
  <2>3. \A i \in DOMAIN entries' : entries'[i].name \in Bytes
    BY <2>2, OpenedNamed DEF ArchiveInv
  <2> QED
    BY <2>1, <2>3 DEF ArchiveInv, NothingOutside
<1>3. CASE FindSave \/ ReadSave \/ Extract
  <2>1. UNCHANGED <<units, entries>> /\ stage' # "all"
    BY <1>3 DEF FindSave, ReadSave, Extract
  <2> QED
    BY <2>1 DEF ArchiveInv, NothingOutside
<1>4. CASE ReadAll
  <2>1. UNCHANGED <<units, entries>>
    BY <1>4 DEF ReadAll
  <2>2. ASSUME stage' = "all" PROVE \A f \in DOMAIN taken' : StaysInside(taken'[f].name)
    <3> DEFINE files == {i \in DOMAIN entries : ~IsDir(entries[i].name)}
    <3>1. /\ \A i \in DOMAIN entries : NameIsSafe(entries[i].name)
          /\ taken' = [i \in files |-> [name |-> entries[i].name,
                                        data |-> ZipRead(entries[i])]]
      BY <1>4, <2>2 DEF ReadAll
    <3>2. ASSUME NEW f \in files PROVE StaysInside(taken'[f].name)
      <4>1. entries[f].name \in Seq(Nat) /\ NameIsSafe(entries[f].name)
        BY <3>1 DEF ArchiveInv, Bytes
      <4>2. taken'[f].name = entries[f].name
        BY <3>1
      <4> QED
        BY <4>1, <4>2, SafeNamesStay
    <3> QED
      BY <3>1, <3>2
  <2> QED
    BY <2>1, <2>2 DEF ArchiveInv, NothingOutside
<1>5. CASE Untouched \/ UNCHANGED archive
  BY <1>5 DEF Untouched, archive, ArchiveInv, NothingOutside
<1> QED
  BY <1>1, <1>2, <1>3, <1>4, <1>5 DEF ArchiveNext

(* No file of an archive is unpacked outside the folder: the names that     *)
(* zip_name_is_safe passes, whatever they and the archive are made of,      *)
(* never lead out of it (tab_fetch).                                        *)
THEOREM NothingGoesOutside == ArchiveSpec => []NothingOutside
<1>1. ArchiveInv => NothingOutside
  BY DEF ArchiveInv
<1> QED
  BY <1>1, ArchiveStarts, ArchiveSteps, PTL DEF ArchiveSpec
(***************************************************************************)
(* What lies where in an archive that is whole.                             *)
(***************************************************************************)
(* A piece of what two pieces make, one after the other.                    *)
LEMMA UnitsOfBoth ==
  ASSUME NEW W \in Seq(Nat), NEW i \in Nat, NEW a \in Seq(Nat), NEW b \in Seq(Nat),
         Holds(W, i, a \o b)
  PROVE  /\ Holds(W, i, a) /\ Holds(W, i + Len(a), b)
         /\ Len(a \o b) = Len(a) + Len(b) /\ Len(a) \in Nat /\ Len(b) \in Nat
<1>1. /\ Len(a) \in Nat /\ Len(b) \in Nat /\ Len(W) \in Nat /\ Len(a \o b) = Len(a) + Len(b)
      /\ \A k \in 1 .. Len(a) + Len(b) : (a \o b)[k] = IF k <= Len(a) THEN a[k] ELSE b[k - Len(a)]
  BY LenProperties, ConcatProperties
<1>2. /\ i + (Len(a) + Len(b)) <= Len(W)
      /\ \A k \in 1 .. Len(a) + Len(b) : W[i + k] = (a \o b)[k]
  BY <1>1 DEF Holds
<1>3. ASSUME NEW k \in 1 .. Len(a) PROVE W[i + k] = a[k]
  <2>1. k \in 1 .. Len(a) + Len(b) /\ k <= Len(a)
    BY <1>1
  <2> QED BY <1>1, <1>2, <2>1
<1>4. ASSUME NEW k \in 1 .. Len(b) PROVE W[i + Len(a) + k] = b[k]
  <2>1. Len(a) + k \in 1 .. Len(a) + Len(b) /\ ~(Len(a) + k <= Len(a))
        /\ Len(a) + k - Len(a) = k /\ i + (Len(a) + k) = i + Len(a) + k
    BY <1>1
  <2>2. W[i + (Len(a) + k)] = (a \o b)[Len(a) + k]
    BY <1>2, <2>1
  <2>3. (a \o b)[Len(a) + k] = b[Len(a) + k - Len(a)]
    BY <1>1, <2>1
  <2> QED BY <2>1, <2>2, <2>3
<1> QED
  BY <1>1, <1>2, <1>3, <1>4 DEF Holds

(* The first pieces of a sequence of them, put together one by one.         *)
LEMMA FlattenUpTo ==
  ASSUME NEW seqs \in Seq(Seq(Nat))
  PROVE  /\ FlattenSeq(SubSeq(seqs, 1, 0)) = <<>>
         /\ FlattenSeq(SubSeq(seqs, 1, Len(seqs))) = FlattenSeq(seqs)
         /\ \A k \in 1 .. Len(seqs) :
              /\ FlattenSeq(SubSeq(seqs, 1, k - 1)) \in Seq(Nat)
              /\ FlattenSeq(SubSeq(seqs, 1, k)) = FlattenSeq(SubSeq(seqs, 1, k - 1)) \o seqs[k]
<1> DEFINE n == Len(seqs)
           To(k) == SubSeq(seqs, 1, k)
<1>1. n \in Nat /\ \A k \in 1 .. n : seqs[k] \in Seq(Nat)
  BY LenProperties, ElementOfSeq
<1>2. PICK f \in [0 .. n -> Seq(Nat)] :
            /\ f[0] = <<>> /\ f[n] = FlattenSeq(seqs)
            /\ \A k \in 1 .. n : f[k] = f[k - 1] \o seqs[k]
  BY FlattenSteps
<1>3. ASSUME NEW k \in 0 .. n PROVE FlattenSeq(To(k)) = f[k]
  <2>1. /\ To(k) \in Seq(Seq(Nat)) /\ Len(To(k)) = k /\ k \in Nat
        /\ \A j \in 1 .. k : To(k)[j] = seqs[j]
    <3>1. 1 \in Int /\ k \in Int /\ \A j \in 1 .. k : seqs[j] \in Seq(Nat)
      BY <1>1
    <3>2. k - 1 + 1 = k /\ (1 <= k \/ k = 0) /\ \A j \in 1 .. k : 1 + j - 1 = j
      BY <1>1
    <3>3. /\ SubSeq(seqs, 1, k) \in Seq(Seq(Nat))
          /\ Len(SubSeq(seqs, 1, k)) = IF 1 <= k THEN k - 1 + 1 ELSE 0
          /\ \A j \in 1 .. (k - 1 + 1) : SubSeq(seqs, 1, k)[j] = seqs[1 + j - 1]
      BY <3>1, SubSeqProperties
    <3> QED BY <3>2, <3>3
  <2> HIDE DEF To
  <2> DEFINE t == To(k)
  <2> HIDE DEF t
  <2>2. PICK g \in [0 .. Len(t) -> Seq(Nat)] :
            /\ g[0] = <<>> /\ g[Len(t)] = FlattenSeq(t)
            /\ \A j \in 1 .. Len(t) : g[j] = g[j - 1] \o t[j]
    <3>1. t \in Seq(Seq(Nat))
      BY <2>1 DEF t
    <3> QED BY <3>1, FlattenSteps
  <2>9. /\ Len(t) = k /\ \A j \in 1 .. k : t[j] = seqs[j]
        /\ g[0] = <<>> /\ \A j \in 1 .. k : g[j] = g[j - 1] \o t[j]
        /\ g[k] = FlattenSeq(To(k))
    BY <2>1, <2>2 DEF t
  <2> DEFINE P == {j \in 0 .. k : g[j] = f[j]}
  <2>3. 0 \in P
    BY <1>2, <2>1, <2>9
  <2>4. ASSUME NEW j \in 1 .. k, j - 1 \in P PROVE j \in P
    <3>1. j \in 1 .. n /\ j \in 0 .. k
      BY <1>1
    <3> QED BY <1>2, <2>9, <2>4, <3>1
  <2>5. 0 .. k \subseteq P
    <3> HIDE DEF P
    <3> QED BY <2>1, <2>3, <2>4, Upward
  <2> QED BY <2>1, <2>9, <2>5
<1> HIDE DEF n, To
<1>4. 0 \in 0 .. n /\ n \in 0 .. n /\ \A k \in 1 .. n : k \in 0 .. n /\ k - 1 \in 0 .. n
  BY <1>1
<1>5. FlattenSeq(To(0)) = <<>> /\ FlattenSeq(To(n)) = FlattenSeq(seqs)
  BY <1>2, <1>3, <1>4
<1>6. ASSUME NEW k \in 1 .. n
      PROVE  /\ FlattenSeq(To(k - 1)) \in Seq(Nat)
             /\ FlattenSeq(To(k)) = FlattenSeq(To(k - 1)) \o seqs[k]
  BY <1>2, <1>3, <1>4
<1> QED BY <1>5, <1>6 DEF n, To

(* Where pieces lie one after the other, each lies where those before end.  *)
After(seqs, k) == Len(FlattenSeq(SubSeq(seqs, 1, k)))

(* Within units that hold them all, each piece lies at its own place.       *)
LEMMA UnitPieces ==
  ASSUME NEW W \in Seq(Nat), NEW i \in Nat, NEW seqs \in Seq(Seq(Nat)),
         Holds(W, i, FlattenSeq(seqs))
  PROVE  /\ After(seqs, 0) = 0 /\ After(seqs, Len(seqs)) = Len(FlattenSeq(seqs))
         /\ \A k \in 0 .. Len(seqs) : After(seqs, k) \in Nat
         /\ \A k \in 1 .. Len(seqs) : /\ After(seqs, k) = After(seqs, k - 1) + Len(seqs[k])
                                      /\ Holds(W, i + After(seqs, k - 1), seqs[k])
<1> DEFINE n == Len(seqs)
           F(k) == FlattenSeq(SubSeq(seqs, 1, k))
<1>1. n \in Nat /\ \A k \in 1 .. n : seqs[k] \in Seq(Nat)
  BY LenProperties, ElementOfSeq
<1>2. /\ F(0) = <<>> /\ F(n) = FlattenSeq(seqs)
      /\ \A k \in 1 .. n : F(k - 1) \in Seq(Nat) /\ F(k) = F(k - 1) \o seqs[k]
  BY FlattenUpTo
<1> HIDE DEF n, F
<1>3. FlattenSeq(seqs) \in Seq(Nat) /\ F(0) \in Seq(Nat)
  BY <1>2, Flattened, EmptySeq
<1>4. ASSUME NEW k \in 0 .. n PROVE F(k) \in Seq(Nat)
  <2>1. CASE k = n
    BY <1>2, <1>3, <2>1
  <2>2. CASE k # n
    <3> DEFINE m == k + 1
    <3>1. m \in 1 .. n /\ m - 1 = k
      BY <1>1, <2>2
    <3> HIDE DEF m
    <3>2. F(m - 1) \in Seq(Nat)
      BY <1>2, <3>1
    <3> QED BY <3>1, <3>2
  <2> QED BY <2>1, <2>2
<1> DEFINE P == {j \in 0 .. n : Holds(W, i, F(n - j))}
<1>5. 0 \in P
  BY <1>1, <1>2
<1>6. ASSUME NEW j \in 1 .. n, j - 1 \in P PROVE j \in P
  <2> DEFINE k == n - j + 1
  <2>1. k \in 1 .. n /\ n - (j - 1) = k /\ n - j = k - 1
    BY <1>1
  <2> HIDE DEF k
  <2>2. Holds(W, i, F(k - 1) \o seqs[k])
    BY <1>2, <1>6, <2>1
  <2>3. F(k - 1) \in Seq(Nat) /\ seqs[k] \in Seq(Nat)
    BY <1>1, <1>2, <2>1
  <2>4. Holds(W, i, F(k - 1))
    BY <2>2, <2>3, UnitsOfBoth
  <2> QED BY <2>1, <2>4
<1>7. 0 .. n \subseteq P
  <2> HIDE DEF P
  <2> QED BY <1>1, <1>5, <1>6, Upward
<1>8. ASSUME NEW k \in 1 .. n
      PROVE  Len(F(k)) = Len(F(k - 1)) + Len(seqs[k]) /\ Holds(W, i + Len(F(k - 1)), seqs[k])
  <2>1. n - k \in 0 .. n /\ n - (n - k) = k
    BY <1>1
  <2>2. Holds(W, i, F(k))
    BY <1>7, <2>1
  <2>3. /\ Holds(W, i, F(k - 1) \o seqs[k]) /\ F(k) = F(k - 1) \o seqs[k]
        /\ F(k - 1) \in Seq(Nat) /\ seqs[k] \in Seq(Nat)
    BY <1>1, <1>2, <2>2
  <2> QED BY <2>3, UnitsOfBoth
<1>9. \A k \in 0 .. n : Len(F(k)) \in Nat
  BY <1>4, LenProperties
<1>10. Len(F(0)) = 0 /\ Len(F(n)) = Len(FlattenSeq(seqs))
  BY <1>2, EmptySeq
<1> QED BY <1>8, <1>9, <1>10 DEF n, F, After

(* The records of an archive, and where each of them begins.                *)
Locs(ms) == [i \in DOMAIN ms |-> LocalRecord(ms[i])]
Offset(ms, i) == Len(Locals(SubSeq(ms, 1, i - 1)))
Header(ms, i) == CentralRecord(ms[i], Offset(ms, i))
Heads(ms) == [i \in DOMAIN ms |-> Header(ms, i)]
HeaderAt(ms, i) == Len(Locals(ms)) + After(Heads(ms), i - 1)

(* The first records are those of the first members.                        *)
LEMMA FirstRecords ==
  ASSUME NEW ms \in Seq(Member), NEW k \in 0 .. Len(ms)
  PROVE  /\ Locs(ms) \in Seq(Seq(Nat)) /\ Len(Locs(ms)) = Len(ms)
         /\ Locals(SubSeq(ms, 1, k)) = FlattenSeq(SubSeq(Locs(ms), 1, k))
<1> DEFINE n == Len(ms)
           to == SubSeq(ms, 1, k)
           L == Locs(ms)
<1>1. /\ n \in Nat /\ DOMAIN ms = 1 .. n /\ \A i \in 1 .. n : ms[i] \in Member
      /\ k \in Nat /\ k <= n
  BY LenProperties, ElementOfSeq
<1>2. \A i \in 1 .. n : LocalRecord(ms[i]) \in Seq(Nat)
  BY <1>1, MemberUnits DEF Bytes
<1>3. L = [i \in 1 .. n |-> LocalRecord(ms[i])]
  BY <1>1 DEF Locs
<1>4. L \in Seq(Seq(Nat)) /\ Len(L) = n /\ \A i \in 1 .. n : L[i] = LocalRecord(ms[i])
  <2>1. L \in Seq(Seq(Nat))
    <3> HIDE DEF L, n
    <3> QED BY <1>1, <1>2, <1>3, IsASeq
  <2>2. DOMAIN L = 1 .. n /\ DOMAIN L = 1 .. Len(L) /\ Len(L) \in Nat
    <3> HIDE DEF L, n
    <3> QED BY <1>3, <2>1, LenProperties
  <2> HIDE DEF L, n
  <2> QED BY <1>1, <1>3, <2>1, <2>2, SameUpTo
<1>5. k - 1 + 1 = k /\ (1 <= k \/ k = 0) /\ 1 \in Int /\ k \in Int
      /\ \A j \in 1 .. k : 1 + j - 1 = j /\ j \in 1 .. n
  BY <1>1
<1>6. to \in Seq(Member) /\ Len(to) = k /\ \A j \in 1 .. k : to[j] = ms[j]
  <2>1. \A j \in 1 .. k : ms[j] \in Member
    BY <1>1, <1>5
  <2>2. /\ to \in Seq(Member) /\ Len(to) = IF 1 <= k THEN k - 1 + 1 ELSE 0
        /\ \A j \in 1 .. (k - 1 + 1) : to[j] = ms[1 + j - 1]
    BY <1>5, <2>1, SubSeqProperties
  <2> HIDE DEF to, n
  <2> QED BY <1>5, <2>2
<1> DEFINE cut1 == SubSeq(L, 1, k)
<1>7. cut1 \in Seq(Seq(Nat)) /\ Len(cut1) = k /\ \A j \in 1 .. k : cut1[j] = L[j]
  <2> HIDE DEF L, n
  <2>1. \A j \in 1 .. k : L[j] \in Seq(Nat)
    BY <1>2, <1>4, <1>5
  <2>2. /\ cut1 \in Seq(Seq(Nat)) /\ Len(cut1) = IF 1 <= k THEN k - 1 + 1 ELSE 0
        /\ \A j \in 1 .. (k - 1 + 1) : cut1[j] = L[1 + j - 1]
    BY <1>5, <2>1, SubSeqProperties
  <2> HIDE DEF cut1
  <2> QED BY <1>5, <2>2
<1> DEFINE fresh == Locs(to)
<1>8. fresh = [i \in 1 .. k |-> LocalRecord(to[i])]
  <2>1. DOMAIN to = 1 .. k
    BY <1>6, LenProperties
  <2> QED BY <2>1 DEF Locs
<1>9. fresh = cut1
  <2> HIDE DEF L, n, to, cut1
  <2>1. DOMAIN cut1 = 1 .. k /\ cut1 \in [1 .. k -> Seq(Nat)]
    BY <1>7, LenProperties
  <2>2. \A j \in 1 .. k : fresh[j] = cut1[j]
    BY <1>4, <1>5, <1>6, <1>7, <1>8
  <2> HIDE DEF fresh
  <2> QED BY <1>8, <2>1, <2>2
<1>10. Locals(to) = FlattenSeq(fresh)
  BY DEF Locals, Locs
<1> HIDE DEF to, L, cut1, fresh, n
<1>11. Locals(to) = FlattenSeq(cut1)
  BY <1>9, <1>10
<1> QED BY <1>4, <1>11 DEF to, L, cut1, n

(* Every record of an archive lies where the ones before it end.            *)
Laid(ms, c) ==
  /\ units \in Seq(Nat) /\ Len(Locals(ms)) \in Nat /\ Len(Directory(ms)) \in Nat
  /\ \A i \in 1 .. Len(ms) : Offset(ms, i) \in Nat /\ Holds(units, Offset(ms, i), LocalRecord(ms[i]))
  /\ HeaderAt(ms, 1) = Len(Locals(ms))
  /\ HeaderAt(ms, Len(ms) + 1) = Len(Locals(ms)) + Len(Directory(ms))
  /\ \A i \in 1 .. (Len(ms) + 1) : HeaderAt(ms, i) \in Nat
  /\ \A i \in 1 .. Len(ms) : /\ Header(ms, i) \in Seq(Nat)
                             /\ Holds(units, HeaderAt(ms, i), Header(ms, i))
                             /\ HeaderAt(ms, i + 1) = HeaderAt(ms, i) + Len(Header(ms, i))
  /\ Holds(units, Len(Locals(ms)) + Len(Directory(ms)), EndRecord(ms, c))
  /\ EndRecord(ms, c) \in Seq(Nat)
  /\ Size = Len(Locals(ms)) + Len(Directory(ms)) + Len(EndRecord(ms, c))

(* In units that are the whole archive every record is where it belongs.    *)
LEMMA ZipIsLaid ==
  ASSUME NEW ms \in Archives, NEW c \in Comments, units = ZipOf(ms, c)
  PROVE  Laid(ms, c)
<1> DEFINE n == Len(ms)
           L == Locs(ms)
           H == Heads(ms)
           E == EndRecord(ms, c)
           end == <<SigEnd, Len(ms), Len(Directory(ms)), Len(Locals(ms)), Len(c)>>
<1>1. /\ ms \in Seq(Member) /\ c \in Seq(Nat) /\ SigEnd \in Nat
      /\ \A i \in DOMAIN ms : Checksum(ms[i].data) \in Nat
  BY ArchiveAssumption DEF Bytes
<1>2. n \in Nat /\ DOMAIN ms = 1 .. n /\ \A i \in 1 .. n : ms[i] \in Member
  BY <1>1, LenProperties, ElementOfSeq
<1>3. Locals(ms) = FlattenSeq(L) /\ Directory(ms) = FlattenSeq(H)
  BY DEF Locals, Locs, Directory, Heads, Header, Offset
<1>4. L \in Seq(Seq(Nat)) /\ Len(L) = n
  <2>1. n \in 0 .. n
    BY <1>2
  <2> QED BY <1>1, <2>1, FirstRecords
<1>5. ASSUME NEW i \in 1 .. n
      PROVE  /\ Offset(ms, i) = After(L, i - 1) /\ L[i] = LocalRecord(ms[i])
             /\ Offset(ms, i) \in Nat /\ Header(ms, i) \in Seq(Nat)
  <2>1. i - 1 \in 0 .. n /\ i \in DOMAIN ms
    BY <1>2
  <2>2. Locals(SubSeq(ms, 1, i - 1)) = FlattenSeq(SubSeq(L, 1, i - 1))
    BY <1>1, <2>1, FirstRecords
  <2>3. SubSeq(ms, 1, i - 1) \in Seq(Member)
    <3>1. \A j \in 1 .. (i - 1) : ms[j] \in Member
      BY <1>2
    <3>2. 1 \in Int /\ i - 1 \in Int
      OBVIOUS
    <3> QED BY <3>1, <3>2, SubSeqProperties
  <2>4. Offset(ms, i) \in Nat
    BY <2>3, LocalsUnits DEF Offset
  <2>5. Header(ms, i) \in Seq(Nat)
    BY <1>1, <1>2, <2>1, <2>4, CentralUnits DEF Header, Bytes
  <2>6. L[i] = LocalRecord(ms[i])
    BY <2>1 DEF Locs
  <2>7. Offset(ms, i) = After(L, i - 1)
    BY <2>2 DEF Offset, After
  <2> QED BY <2>4, <2>5, <2>6, <2>7
<1>6. H \in Seq(Seq(Nat)) /\ Len(H) = n /\ \A i \in 1 .. n : H[i] = Header(ms, i)
  <2>1. H = [i \in 1 .. n |-> Header(ms, i)]
    BY <1>2 DEF Heads
  <2> HIDE DEF H, n
  <2>2. H \in Seq(Seq(Nat))
    BY <1>2, <1>5, <2>1, IsASeq
  <2>3. DOMAIN H = 1 .. n /\ DOMAIN H = 1 .. Len(H) /\ Len(H) \in Nat
    BY <2>1, <2>2, LenProperties
  <2> QED BY <1>2, <2>1, <2>2, <2>3, SameUpTo
<1>7. /\ Locals(ms) \in Seq(Nat) /\ Directory(ms) \in Seq(Nat)
      /\ Len(Locals(ms)) \in Nat /\ Len(Directory(ms)) \in Nat
  <2> HIDE DEF L, H
  <2> QED BY <1>3, <1>4, <1>6, Flattened, LenProperties
<1>8. E \in Seq(Nat)
  <2>1. Len(c) \in Nat
    BY <1>1, LenProperties
  <2>2. end \in Seq(Nat)
    BY <1>1, <1>2, <1>7, <2>1
  <2>3. E = end \o c
    BY DEF EndRecord
  <2> HIDE DEF E, end
  <2> QED BY <1>1, <2>2, <2>3, ConcatProperties
<1>9. units = Locals(ms) \o Directory(ms) \o E
  BY DEF ZipOf
<1> HIDE DEF E, H, L, n
<1>10. Locals(ms) \o Directory(ms) \in Seq(Nat) /\ units \in Seq(Nat)
       /\ Len(units) = Len(Locals(ms) \o Directory(ms)) + Len(E)
       /\ Len(Locals(ms) \o Directory(ms)) = Len(Locals(ms)) + Len(Directory(ms))
  <2>1. /\ Locals(ms) \o Directory(ms) \in Seq(Nat)
        /\ Len(Locals(ms) \o Directory(ms)) = Len(Locals(ms)) + Len(Directory(ms))
    BY <1>7, ConcatProperties
  <2> QED BY <1>8, <1>9, <2>1, ConcatProperties
<1>11. Holds(units, 0, units)
  <2>1. Len(units) \in Nat /\ \A k \in 1 .. Len(units) : 0 + k = k
    BY <1>10, LenProperties
  <2> QED BY <2>1 DEF Holds
<1>12. /\ Holds(units, 0, Locals(ms) \o Directory(ms))
       /\ Holds(units, 0 + Len(Locals(ms) \o Directory(ms)), E)
  <2>1. Holds(units, 0, (Locals(ms) \o Directory(ms)) \o E) /\ 0 \in Nat
    BY <1>9, <1>11
  <2> QED BY <1>8, <1>10, <2>1, UnitsOfBoth
<1>13. Holds(units, 0, Locals(ms)) /\ Holds(units, 0 + Len(Locals(ms)), Directory(ms))
  <2>1. 0 \in Nat
    OBVIOUS
  <2> QED BY <1>7, <1>10, <1>12, <2>1, UnitsOfBoth
<1>14. \A i \in 1 .. n : Holds(units, Offset(ms, i), LocalRecord(ms[i]))
  <2>1. 0 \in Nat /\ Holds(units, 0, FlattenSeq(L))
    BY <1>3, <1>13
  <2>2. \A k \in 0 .. Len(L) : After(L, k) \in Nat
    BY <1>4, <1>10, <2>1, UnitPieces
  <2>3. \A k \in 1 .. Len(L) : Holds(units, 0 + After(L, k - 1), L[k])
    BY <1>4, <1>10, <2>1, UnitPieces
  <2>4. ASSUME NEW i \in 1 .. n PROVE Holds(units, Offset(ms, i), LocalRecord(ms[i]))
    <3>1. Holds(units, 0 + Offset(ms, i), LocalRecord(ms[i])) /\ Offset(ms, i) \in Nat
      BY <1>4, <1>5, <2>3
    <3>2. 0 + Offset(ms, i) = Offset(ms, i)
      BY <3>1
    <3> QED BY <3>1, <3>2
  <2> QED BY <2>4
<1>15. /\ After(H, 0) = 0 /\ After(H, n) = Len(Directory(ms))
       /\ \A k \in 0 .. n : After(H, k) \in Nat
       /\ \A k \in 1 .. n : After(H, k) = After(H, k - 1) + Len(Header(ms, k))
       /\ \A k \in 1 .. n : Holds(units, Len(Locals(ms)) + After(H, k - 1), Header(ms, k))
  <2>1. 0 + Len(Locals(ms)) = Len(Locals(ms))
    BY <1>7
  <2>2. Holds(units, Len(Locals(ms)), FlattenSeq(H))
    BY <1>3, <1>13, <2>1
  <2>3. /\ After(H, 0) = 0 /\ After(H, Len(H)) = Len(FlattenSeq(H))
        /\ \A k \in 0 .. Len(H) : After(H, k) \in Nat
        /\ \A k \in 1 .. Len(H) : /\ After(H, k) = After(H, k - 1) + Len(H[k])
                                  /\ Holds(units, Len(Locals(ms)) + After(H, k - 1), H[k])
    BY <1>6, <1>7, <1>10, <2>2, UnitPieces
  <2> QED BY <1>3, <1>6, <2>3
<1>16. /\ HeaderAt(ms, 1) = Len(Locals(ms))
       /\ HeaderAt(ms, n + 1) = Len(Locals(ms)) + Len(Directory(ms))
  <2>1. 1 - 1 = 0 /\ n + 1 - 1 = n /\ Len(Locals(ms)) + 0 = Len(Locals(ms))
    BY <1>2, <1>7
  <2>2. \A i \in Nat : HeaderAt(ms, i) = Len(Locals(ms)) + After(H, i - 1)
    BY DEF HeaderAt, H
  <2>3. After(H, 1 - 1) = 0 /\ After(H, n + 1 - 1) = Len(Directory(ms))
    BY <1>15, <2>1
  <2>4. 1 \in Nat /\ n + 1 \in Nat
    BY <1>2
  <2>5. HeaderAt(ms, 1) = Len(Locals(ms)) + 0
    BY <2>2, <2>3, <2>4
  <2>6. HeaderAt(ms, n + 1) = Len(Locals(ms)) + Len(Directory(ms))
    <3> DEFINE k == n + 1
    <3>1. k \in Nat /\ k - 1 = n
      BY <1>2
    <3> HIDE DEF k
    <3>2. After(H, k - 1) = Len(Directory(ms))
      BY <1>15, <3>1
    <3>3. HeaderAt(ms, k) = Len(Locals(ms)) + Len(Directory(ms))
      BY <2>2, <3>1, <3>2
    <3> QED BY <3>3 DEF k
  <2> QED BY <2>1, <2>5, <2>6
<1>17. ASSUME NEW i \in 1 .. (n + 1) PROVE HeaderAt(ms, i) \in Nat
  <2>1. i - 1 \in 0 .. n
    BY <1>2
  <2>2. After(H, i - 1) \in Nat
    BY <1>15, <2>1
  <2> QED BY <1>7, <2>2 DEF HeaderAt, H
<1>18. ASSUME NEW i \in 1 .. n
       PROVE  /\ Header(ms, i) \in Seq(Nat) /\ Holds(units, HeaderAt(ms, i), Header(ms, i))
              /\ HeaderAt(ms, i + 1) = HeaderAt(ms, i) + Len(Header(ms, i))
  <2>1. i + 1 - 1 = i /\ i - 1 \in 0 .. n
    BY <1>2
  <2>2. After(H, i - 1) \in Nat /\ Len(Header(ms, i)) \in Nat
    BY <1>5, <1>15, <2>1, LenProperties
  <2>3. HeaderAt(ms, i + 1) = Len(Locals(ms)) + After(H, i)
    BY <2>1 DEF HeaderAt, H
  <2>4. HeaderAt(ms, i) = Len(Locals(ms)) + After(H, i - 1)
    BY DEF HeaderAt, H
  <2>5. After(H, i) = After(H, i - 1) + Len(Header(ms, i))
    BY <1>15
  <2>6. HeaderAt(ms, i + 1) = HeaderAt(ms, i) + Len(Header(ms, i))
    BY <1>7, <2>2, <2>3, <2>4, <2>5
  <2> QED BY <1>5, <1>15, <2>4, <2>6
<1>19. Holds(units, Len(Locals(ms)) + Len(Directory(ms)), E)
  <2>1. 0 + Len(Locals(ms) \o Directory(ms)) = Len(Locals(ms)) + Len(Directory(ms))
    BY <1>7, <1>10
  <2> QED BY <1>12, <2>1
<1> QED
  BY <1>5, <1>7, <1>8, <1>10, <1>14, <1>16, <1>17, <1>18, <1>19 DEF Laid, Size, n, E


(***************************************************************************)
(* What is read at the place where a record lies.                           *)
(***************************************************************************)
(* A piece of a sequence is what lies there.                                *)
LEMMA PieceHeld ==
  ASSUME NEW W \in Seq(Nat), NEW i \in Nat, NEW a \in Seq(Nat), Holds(W, i, a)
  PROVE  /\ SubSeq(W, i + 1, i + Len(a)) = a
         /\ i + Len(a) <= Len(W) /\ \A k \in 1 .. Len(a) : W[i + k] = a[k]
<1>1. Len(W) \in Nat /\ Len(a) \in Nat
  BY LenProperties
<1>2. i + Len(a) <= Len(W) /\ \A k \in 1 .. Len(a) : W[i + k] = a[k]
  BY DEF Holds
<1>3. SubSeq(W, i + 1, i + Len(a)) = a
  <2> DEFINE from == i + 1
             to == i + Len(a)
             p == SubSeq(W, from, to)
  <2>1. from \in Int /\ to \in Int /\ to - from + 1 = Len(a)
        /\ (from <= to \/ (~(from <= to) /\ Len(a) = 0))
    BY <1>1
  <2>2. ASSUME NEW k \in from .. to PROVE W[k] \in Nat
    <3>1. k \in 1 .. Len(W)
      BY <1>1, <1>2
    <3> QED BY <3>1, ElementOfSeq
  <2>3. \A k \in 1 .. Len(a) : from + k - 1 = i + k
    BY <1>1
  <2> HIDE DEF from, to
  <2>4. /\ p \in Seq(Nat) /\ Len(p) = IF from <= to THEN to - from + 1 ELSE 0
        /\ \A k \in 1 .. (to - from + 1) : p[k] = W[from + k - 1]
    BY <2>1, <2>2, SubSeqProperties
  <2>5. Len(p) = Len(a)
    BY <2>1, <2>4
  <2>6. DOMAIN p = 1 .. Len(a) /\ p \in [1 .. Len(a) -> Nat] /\ a \in [1 .. Len(a) -> Nat]
    BY <1>1, <2>4, <2>5, LenProperties
  <2>7. ASSUME NEW k \in 1 .. Len(a) PROVE p[k] = a[k]
    BY <1>2, <2>1, <2>3, <2>4
  <2>8. p = a
    <3> HIDE DEF p
    <3> QED BY <2>6, <2>7
  <2> QED BY <2>8 DEF p, from, to
<1> QED BY <1>2, <1>3

(* A unit and a piece of what lies somewhere.                               *)
LEMMA UnitHeld ==
  ASSUME units \in Seq(Nat), NEW i \in Nat, NEW a \in Seq(Nat), Holds(units, i, a)
  PROVE  /\ \A j \in 0 .. (Len(a) - 1) : At(i + j) = a[j + 1]
         /\ Piece(i, Len(a)) = a
         /\ Inside(i, Len(a)) /\ Size \in Nat /\ i + Len(a) <= Size
<1>1. Len(units) \in Nat /\ Len(a) \in Nat /\ DOMAIN a = 1 .. Len(a)
      /\ \A k \in 1 .. Len(a) : a[k] \in Nat
  BY LenProperties, ElementOfSeq
<1>2. i + Len(a) <= Len(units) /\ \A k \in 1 .. Len(a) : units[i + k] = a[k]
  BY DEF Holds
<1>3. ASSUME NEW j \in 0 .. (Len(a) - 1) PROVE At(i + j) = a[j + 1]
  <2>1. j + 1 \in 1 .. Len(a) /\ i + (j + 1) = i + j + 1
    BY <1>1
  <2>2. units[i + (j + 1)] = a[j + 1]
    BY <1>2, <2>1
  <2> QED BY <2>1, <2>2 DEF At
<1>4. Piece(i, Len(a)) = a
  BY PieceHeld DEF Piece
<1>5. Inside(i, Len(a)) /\ Size \in Nat /\ i + Len(a) <= Size
  BY <1>1, <1>2 DEF Inside, Size
<1> QED BY <1>3, <1>4, <1>5

(* What a local header tells, and the body behind it.                       *)
LEMMA LocalRead ==
  ASSUME units \in Seq(Nat), NEW m \in Member, NEW o \in Nat, Holds(units, o, LocalRecord(m))
  PROVE  /\ At(o) = SigLocal /\ At(o + LNameLen) = Len(m.name)
         /\ Inside(o, LocalSize)
         /\ Holds(units, o + LocalSize + At(o + LNameLen) + At(o + LExtraLen), Body(m))
         /\ o + LocalSize + At(o + LNameLen) + At(o + LExtraLen) \in Nat
<1> DEFINE first == <<SigLocal, m.method, Len(m.name), Len(m.localExtra)>>
<1>1. /\ m.name \in Seq(Nat) /\ m.localExtra \in Seq(Nat) /\ Body(m) \in Seq(Nat)
      /\ m.method \in Nat /\ SigLocal \in Nat
      /\ Len(m.name) \in Nat /\ Len(m.localExtra) \in Nat
  <2>1. m.localExtra \in Seq(Nat) /\ m.method \in Nat
    BY DEF Member, Bytes
  <2> QED BY <2>1, MemberUnits, LenProperties, ArchiveAssumption DEF Bytes
<1>2. first \in Seq(Nat) /\ Len(first) = 4 /\ first[1] = SigLocal
      /\ first[3] = Len(m.name) /\ first[4] = Len(m.localExtra)
  BY <1>1
<1>3. LocalRecord(m) = first \o m.name \o m.localExtra \o Body(m)
  BY DEF LocalRecord
<1> HIDE DEF first
<1>4. first \o m.name \in Seq(Nat) /\ first \o m.name \o m.localExtra \in Seq(Nat)
      /\ Len(first \o m.name) = Len(first) + Len(m.name)
      /\ Len(first \o m.name \o m.localExtra) = Len(first \o m.name) + Len(m.localExtra)
  <2>1. first \o m.name \in Seq(Nat) /\ Len(first \o m.name) = Len(first) + Len(m.name)
    BY <1>1, <1>2, ConcatProperties
  <2> QED BY <1>1, <2>1, ConcatProperties
<1> DEFINE before == first \o m.name \o m.localExtra
<1>5. Holds(units, o, before) /\ Holds(units, o + Len(before), Body(m))
  <2>1. Holds(units, o, before \o Body(m)) /\ before \in Seq(Nat)
    BY <1>3, <1>4
  <2> HIDE DEF before
  <2> QED BY <1>1, <2>1, UnitsOfBoth
<1>6. Holds(units, o, first)
  <2>1. Holds(units, o, first \o m.name)
    BY <1>1, <1>4, <1>5, UnitsOfBoth
  <2> QED BY <1>1, <1>2, <2>1, UnitsOfBoth
<1>7. /\ \A j \in 0 .. 3 : At(o + j) = first[j + 1]
      /\ Inside(o, 4)
  <2>1. Len(first) - 1 = 3
    BY <1>2
  <2> QED BY <1>2, <1>6, <2>1, UnitHeld
<1>8. At(o + 0) = first[0 + 1] /\ At(o + 2) = first[2 + 1] /\ At(o + 3) = first[3 + 1]
  BY <1>7
<1>9. o + 0 = o /\ 0 + 1 = 1 /\ 2 + 1 = 3 /\ 3 + 1 = 4
  OBVIOUS
<1>10. At(o) = SigLocal /\ At(o + 2) = Len(m.name) /\ At(o + 3) = Len(m.localExtra)
  BY <1>2, <1>8, <1>9
<1>11. o + Len(before) = o + 4 + At(o + 2) + At(o + 3)
  <2>1. Len(before) = 4 + Len(m.name) + Len(m.localExtra)
    BY <1>1, <1>2, <1>4
  <2>2. Len(m.name) \in Nat /\ Len(m.localExtra) \in Nat
    BY <1>1
  <2>3. At(o + 2) = Len(m.name) /\ At(o + 3) = Len(m.localExtra)
    BY <1>10
  <2> DEFINE x == Len(before)
             y == Len(m.name)
             z == Len(m.localExtra)
  <2>4. x = 4 + y + z /\ y \in Nat /\ z \in Nat
    BY <2>1, <2>2
  <2> HIDE DEF x, y, z
  <2>5. o + x = o + 4 + y + z
    BY <2>4
  <2> QED BY <2>3, <2>5 DEF x, y, z
<1>12. o + 4 + At(o + 2) + At(o + 3) \in Nat
  BY <1>1, <1>10
<1> QED
  BY <1>5, <1>7, <1>10, <1>11, <1>12 DEF LocalSize, LNameLen, LExtraLen

(* What a member is entered as.                                             *)
Read(m, o) ==
  [name |-> m.name, method |-> m.method, crc |-> Checksum(m.data),
   comp |-> Len(Body(m)), uncomp |-> Len(m.data), offset |-> o]

(* What is unpacked is what was packed.                                     *)
LEMMA UnpackedAgain ==
  ASSUME NEW d \in Seq(Nat)
  PROVE  Unpacked(Packed(d), Len(d)) = d /\ Packed(d) \in Seq(Nat)
<1> DEFINE one == <<Len(d)>>
           b == Packed(d)
           n == Len(d)
<1>1. n \in Nat /\ one \in Seq(Nat) /\ Len(one) = 1 /\ one[1] = n /\ b = one \o d
  BY LenProperties DEF Packed
<1> HIDE DEF one, b
<1>2. /\ b \in Seq(Nat) /\ Len(b) = 1 + n
      /\ \A i \in 1 .. (1 + n) : b[i] = IF i <= 1 THEN one[i] ELSE d[i - 1]
  BY <1>1, ConcatProperties
<1>3. b[1] = n /\ b # <<>> /\ Len(b) > n
  <2>1. 1 \in 1 .. (1 + n) /\ 1 <= 1
    BY <1>1
  <2>2. b[1] = n
    BY <1>1, <1>2, <2>1
  <2>3. Len(b) # 0
    BY <1>1, <1>2
  <2> QED BY <1>1, <1>2, <2>2, <2>3, EmptySeq
<1> DEFINE s == SubSeq(b, 2, n + 1)
<1>4. /\ s \in Seq(Nat) /\ Len(s) = n /\ \A k \in 1 .. n : s[k] = d[k]
  <2>1. 2 \in Int /\ n + 1 \in Int /\ n + 1 - 2 + 1 = n /\ (2 <= n + 1 \/ n = 0)
    BY <1>1
  <2>2. \A k \in 2 .. (n + 1) : b[k] \in Nat
    <3>1. \A k \in 2 .. (n + 1) : k \in 1 .. Len(b)
      BY <1>1, <1>2
    <3> QED BY <1>2, <3>1, ElementOfSeq
  <2>3. /\ s \in Seq(Nat) /\ Len(s) = IF 2 <= n + 1 THEN n + 1 - 2 + 1 ELSE 0
        /\ \A k \in 1 .. (n + 1 - 2 + 1) : s[k] = b[2 + k - 1]
    BY <2>1, <2>2, SubSeqProperties
  <2>4. Len(s) = n
    BY <1>1, <2>1, <2>3
  <2>5. ASSUME NEW k \in 1 .. n PROVE s[k] = d[k]
    <3> DEFINE j == 2 + k - 1
    <3>1. j \in 1 .. (1 + n) /\ ~(j <= 1) /\ j - 1 = k
      BY <1>1
    <3>2. s[k] = b[j]
      BY <2>1, <2>3
    <3> HIDE DEF j, s
    <3>3. b[j] = d[j - 1]
      BY <1>2, <3>1
    <3> QED BY <3>1, <3>2, <3>3
  <2> QED BY <2>3, <2>4, <2>5
<1>5. s = d
  <2> HIDE DEF s, n
  <2>1. DOMAIN s = 1 .. n /\ s \in [1 .. n -> Nat]
    BY <1>4, LenProperties
  <2>2. d \in [1 .. n -> Nat]
    BY LenProperties DEF n
  <2> QED BY <1>4, <2>1, <2>2
<1> QED BY <1>2, <1>3, <1>5 DEF Unpacked, b

(* A member is read back whole from where its record lies.                  *)
LEMMA MemberRead ==
  ASSUME units \in Seq(Nat), NEW m \in Member, NEW o \in Nat, Holds(units, o, LocalRecord(m))
  PROVE  ZipRead(Read(m, o)) = m.data
<1> DEFINE e == Read(m, o)
           from == DataAt(e)
           got == IF e.method = Deflated THEN Unpacked(Piece(from, e.comp), e.uncomp)
                  ELSE Piece(from, e.uncomp)
<1>1. /\ e.offset = o /\ e.method = m.method /\ e.crc = Checksum(m.data)
      /\ e.comp = Len(Body(m)) /\ e.uncomp = Len(m.data)
  BY DEF Read
<1>2. m.data \in Seq(Nat) /\ Body(m) \in Seq(Nat) /\ m.method \in {0, 8}
  BY MemberUnits DEF Member, Bytes
<1> HIDE DEF e
<1>3. /\ At(e.offset) = SigLocal /\ Inside(e.offset, LocalSize)
      /\ Holds(units, from, Body(m)) /\ from \in Nat
  BY <1>1, LocalRead DEF DataAt
<1>4. Piece(from, e.comp) = Body(m) /\ Inside(from, e.comp)
  BY <1>1, <1>2, <1>3, UnitHeld
<1>5. got = m.data /\ (e.method = Stored => e.comp = e.uncomp)
  <2>1. CASE m.method = Deflated
    <3>1. Body(m) = Packed(m.data)
      BY <2>1 DEF Body
    <3> QED BY <1>1, <1>2, <1>4, <2>1, <3>1, UnpackedAgain DEF Deflated, Stored
  <2>2. CASE m.method # Deflated
    <3>1. Body(m) = m.data
      BY <2>2 DEF Body
    <3> QED BY <1>1, <1>4, <2>2, <3>1
  <2> QED BY <2>1, <2>2
<1>6. got # Nothing
  BY <1>2, <1>5, WrittenAssumption DEF Bytes
<1>7. Checked(got, e.crc)
  BY <1>1, <1>5 DEF Checked
<1>8. e.method \in {Stored, Deflated}
  BY <1>1, <1>2 DEF Stored, Deflated
<1>9. ZipRead(e) = got
  <2> HIDE DEF from
  <2>1. ZipRead(e) = (IF ~Inside(e.offset, LocalSize) THEN Nothing
     ELSE IF At(e.offset) # SigLocal THEN Nothing
     ELSE IF ~Inside(from, e.comp) \/ e.method \notin {Stored, Deflated} THEN Nothing
     ELSE IF e.method = Stored /\ e.comp # e.uncomp THEN Nothing
     ELSE IF got = Nothing THEN Nothing
     ELSE IF ~Checked(got, e.crc) THEN Nothing ELSE got)
    BY DEF ZipRead, from
  <2> HIDE DEF got
  <2> QED BY <1>3, <1>4, <1>5, <1>6, <1>7, <1>8, <2>1
<1> QED BY <1>5, <1>9 DEF e

(* How many of the fields that may be moved are.                            *)
Moved(z, f) == IF f \in z THEN 1 ELSE 0

(* Of the fields that may be moved, those that were, counted one by one.    *)
LEMMA MovedAre ==
  ASSUME NEW z \in SUBSET Movable
  PROVE  /\ Cardinality(z \cap {}) = 0
         /\ Cardinality(z \cap {"uncomp"}) = Moved(z, "uncomp")
         /\ Cardinality(z \cap {"uncomp", "comp"}) = Moved(z, "uncomp") + Moved(z, "comp")
         /\ Cardinality(z) = Moved(z, "uncomp") + Moved(z, "comp") + Moved(z, "offset")
<1>1. ASSUME NEW S, NEW x, IsFiniteSet(S), x \notin S
      PROVE  IsFiniteSet(S \cup {x}) /\ Cardinality(S \cup {x}) = Cardinality(S) + 1
  BY <1>1, FS_AddElement
<1> DEFINE a == z \cap {"uncomp"}
           b == z \cap {"uncomp", "comp"}
<1>2. z \cap {} = {} /\ Cardinality({}) = 0 /\ IsFiniteSet({})
  BY FS_EmptySet
<1>3. IsFiniteSet(a) /\ Cardinality(a) = Moved(z, "uncomp")
  <2>1. CASE "uncomp" \in z
    <3>1. a = {} \cup {"uncomp"} /\ "uncomp" \notin {}
      BY <2>1
    <3>2. IsFiniteSet({} \cup {"uncomp"}) /\ Cardinality({} \cup {"uncomp"}) = 0 + 1
      BY <1>1, <1>2, <3>1
    <3> QED BY <2>1, <3>1, <3>2 DEF Moved
  <2>2. CASE "uncomp" \notin z
    <3>1. a = {}
      BY <2>2
    <3> QED BY <1>2, <2>2, <3>1 DEF Moved
  <2> QED BY <2>1, <2>2
<1>4. IsFiniteSet(b) /\ Cardinality(b) = Moved(z, "uncomp") + Moved(z, "comp")
  <2>1. CASE "comp" \in z
    <3>1. b = a \cup {"comp"} /\ "comp" \notin a
      BY <2>1
    <3> HIDE DEF a, b
    <3>2. IsFiniteSet(a \cup {"comp"}) /\ Cardinality(a \cup {"comp"}) = Cardinality(a) + 1
      BY <1>1, <1>3, <3>1
    <3> QED BY <1>3, <2>1, <3>1, <3>2 DEF Moved
  <2>2. CASE "comp" \notin z
    <3>1. b = a
      BY <2>2
    <3> HIDE DEF a, b
    <3> QED BY <1>3, <2>2, <3>1 DEF Moved
  <2> QED BY <2>1, <2>2
<1>5. Cardinality(z) = Moved(z, "uncomp") + Moved(z, "comp") + Moved(z, "offset")
  <2>1. CASE "offset" \in z
    <3>1. z = b \cup {"offset"} /\ "offset" \notin b
      BY <2>1 DEF Movable
    <3> HIDE DEF b
    <3>2. IsFiniteSet(b \cup {"offset"}) /\ Cardinality(b \cup {"offset"}) = Cardinality(b) + 1
      BY <1>1, <1>4, <3>1
    <3> QED BY <1>4, <2>1, <3>1, <3>2 DEF Moved
  <2>2. CASE "offset" \notin z
    <3>1. z = b
      BY <2>2 DEF Movable
    <3> HIDE DEF b
    <3> QED BY <1>4, <2>2, <3>1 DEF Moved
  <2> QED BY <2>1, <2>2
<1> QED BY <1>2, <1>3, <1>4, <1>5

(* Two sequences of known lengths, one after the other.                     *)
LEMMA Joined ==
  ASSUME NEW a \in Seq(Nat), NEW b \in Seq(Nat), NEW i, NEW j, Len(a) = i, Len(b) = j
  PROVE  /\ a \o b \in Seq(Nat) /\ Len(a \o b) = i + j
         /\ \A k \in 1 .. (i + j) : (a \o b)[k] = IF k <= i THEN a[k] ELSE b[k - i]
<1>1. /\ a \o b \in Seq(Nat) /\ Len(a \o b) = Len(a) + Len(b)
      /\ \A k \in 1 .. Len(a) + Len(b) : (a \o b)[k] = IF k <= Len(a) THEN a[k] ELSE b[k - Len(a)]
  BY ConcatProperties
<1> QED BY <1>1, Zenon

(* One value or none.                                                       *)
LEMMA OneOrNone ==
  ASSUME NEW x \in Nat, NEW z, NEW f
  PROVE  LET s == IF f \in z THEN <<x>> ELSE <<>>
         IN s \in Seq(Nat) /\ Len(s) = Moved(z, f) /\ (f \in z => s[1] = x)
<1>1. <<x>> \in Seq(Nat) /\ Len(<<x>>) = 1 /\ <<x>>[1] = x
  OBVIOUS
<1> QED BY <1>1, EmptySeq DEF Moved

(* The ZIP64 block of a header: how long it says it is, and each value at   *)
(* the place that the fields moved before it leave it.                      *)
LEMMA BlockIs ==
  ASSUME NEW m \in Member, NEW o \in Nat
  PROVE  LET z == m.zip64
             b == Zip64Block(m, o)
         IN /\ b \in Seq(Nat)
            /\ z # {} =>
                 /\ Len(b) = 2 + Cardinality(z) /\ b[1] = Zip64Id /\ b[2] = Cardinality(z)
                 /\ Cardinality(z) \in Nat
                 /\ "uncomp" \in z => b[3] = Len(m.data)
                 /\ "comp" \in z => b[3 + Moved(z, "uncomp")] = Len(Body(m))
                 /\ "offset" \in z => b[3 + (Moved(z, "uncomp") + Moved(z, "comp"))] = o
<1> DEFINE z == m.zip64
           x == IF "uncomp" \in z THEN <<Len(m.data)>> ELSE <<>>
           y == IF "comp" \in z THEN <<Len(Body(m))>> ELSE <<>>
           w == IF "offset" \in z THEN <<o>> ELSE <<>>
           v == x \o y \o w
           nx == Moved(z, "uncomp")
           ny == Moved(z, "comp")
           nw == Moved(z, "offset")
<1>1. /\ z \in SUBSET Movable /\ Len(m.data) \in Nat /\ Len(Body(m)) \in Nat
      /\ nx \in 0 .. 1 /\ ny \in 0 .. 1 /\ nw \in 0 .. 1
      /\ "uncomp" \in z => nx = 1
      /\ "comp" \in z => ny = 1
      /\ "offset" \in z => nw = 1
  <2>1. z \in SUBSET Movable
    BY DEF Member, Movable
  <2> QED BY <2>1, MemberUnits DEF Moved
<1>2. /\ x \in Seq(Nat) /\ Len(x) = nx /\ ("uncomp" \in z => x[1] = Len(m.data))
      /\ y \in Seq(Nat) /\ Len(y) = ny /\ ("comp" \in z => y[1] = Len(Body(m)))
      /\ w \in Seq(Nat) /\ Len(w) = nw /\ ("offset" \in z => w[1] = o)
  BY <1>1, OneOrNone
<1>3. Zip64Block(m, o) = IF z = {} THEN <<>> ELSE <<Zip64Id, Len(v)>> \o v
  BY DEF Zip64Block
<1>4. Cardinality(z) = nx + ny + nw
  BY <1>1, MovedAre
<1> HIDE DEF x, y, w, nx, ny, nw, z
<1>5. /\ x \o y \in Seq(Nat) /\ Len(x \o y) = nx + ny
      /\ \A k \in 1 .. (nx + ny) : (x \o y)[k] = IF k <= nx THEN x[k] ELSE y[k - nx]
  BY <1>2, Joined
<1> DEFINE xy == x \o y
<1>6. /\ v \in Seq(Nat) /\ Len(v) = nx + ny + nw
      /\ \A k \in 1 .. (nx + ny + nw) : v[k] = IF k <= nx + ny THEN xy[k] ELSE w[k - (nx + ny)]
  <2> HIDE DEF xy
  <2>1. xy \in Seq(Nat) /\ Len(xy) = nx + ny /\ v = xy \o w
    BY <1>5 DEF xy
  <2>2. /\ xy \o w \in Seq(Nat) /\ Len(xy \o w) = (nx + ny) + nw
        /\ \A k \in 1 .. ((nx + ny) + nw) :
             (xy \o w)[k] = IF k <= nx + ny THEN xy[k] ELSE w[k - (nx + ny)]
    <3> DEFINE i == nx + ny
    <3>1. Len(xy) = i /\ Len(w) = nw
      BY <1>2, <2>1
    <3> HIDE DEF i, v
    <3>2. /\ xy \o w \in Seq(Nat) /\ Len(xy \o w) = i + nw
          /\ \A k \in 1 .. (i + nw) : (xy \o w)[k] = IF k <= i THEN xy[k] ELSE w[k - i]
      BY <1>2, <2>1, <3>1, Joined
    <3> QED BY <3>2, Zenon DEF i
  <2> HIDE DEF v
  <2> QED BY <2>1, <2>2, Zenon
<1> HIDE DEF v
<1>7. "uncomp" \in z => v[1] = Len(m.data)
  <2> SUFFICES ASSUME "uncomp" \in z PROVE v[1] = Len(m.data)
    OBVIOUS
  <2>1. nx = 1 /\ 1 \in 1 .. (nx + ny) /\ 1 \in 1 .. (nx + ny + nw) /\ 1 <= nx + ny /\ 1 <= nx
    BY <1>1
  <2>2. v[1] = xy[1]
    BY <1>6, <2>1
  <2>3. xy[1] = x[1]
    BY <1>5, <2>1
  <2> QED BY <1>2, <2>2, <2>3
<1>8. "comp" \in z => v[1 + nx] = Len(Body(m))
  <2> SUFFICES ASSUME "comp" \in z PROVE v[1 + nx] = Len(Body(m))
    OBVIOUS
  <2> DEFINE k == 1 + nx
  <2>1. k \in 1 .. (nx + ny) /\ k \in 1 .. (nx + ny + nw) /\ k <= nx + ny /\ ~(k <= nx) /\ k - nx = 1
    BY <1>1
  <2> HIDE DEF k
  <2>2. v[k] = xy[k]
    BY <1>6, <2>1
  <2>3. xy[k] = y[1]
    BY <1>5, <2>1
  <2> QED BY <1>2, <2>2, <2>3 DEF k
<1>9. "offset" \in z => v[1 + (nx + ny)] = o
  <2> SUFFICES ASSUME "offset" \in z PROVE v[1 + (nx + ny)] = o
    OBVIOUS
  <2> DEFINE k == 1 + (nx + ny)
  <2>1. k \in 1 .. (nx + ny + nw) /\ ~(k <= nx + ny) /\ k - (nx + ny) = 1
    BY <1>1
  <2> HIDE DEF k
  <2>2. v[k] = w[1]
    BY <1>6, <2>1
  <2> QED BY <1>2, <2>2 DEF k
<1> DEFINE head == <<Zip64Id, Len(v)>>
           b == head \o v
<1>10. head \in Seq(Nat) /\ Len(head) = 2 /\ head[1] = Zip64Id /\ head[2] = nx + ny + nw
  BY <1>1, <1>6 DEF Zip64Id
<1>11. nx + ny + nw \in Nat
  BY <1>1
<1>12. /\ b \in Seq(Nat) /\ Len(b) = 2 + (nx + ny + nw)
       /\ \A k \in 1 .. (2 + (nx + ny + nw)) : b[k] = IF k <= 2 THEN head[k] ELSE v[k - 2]
  <2> DEFINE n == nx + ny + nw
             two == 2
  <2>1. Len(head) = two /\ Len(v) = n /\ head \in Seq(Nat) /\ v \in Seq(Nat)
    BY <1>6, <1>10
  <2> HIDE DEF head, n, two
  <2>2. /\ head \o v \in Seq(Nat) /\ Len(head \o v) = two + n
        /\ \A k \in 1 .. (two + n) : (head \o v)[k] = IF k <= two THEN head[k] ELSE v[k - two]
    BY <2>1, Joined
  <2> QED BY <2>2, Zenon DEF n, two, b
<1>13. b[1] = Zip64Id /\ b[2] = nx + ny + nw
  <2> HIDE DEF b, head
  <2>1. 1 \in 1 .. (2 + (nx + ny + nw)) /\ 2 \in 1 .. (2 + (nx + ny + nw)) /\ 1 <= 2 /\ 2 <= 2
    BY <1>11
  <2> QED BY <1>10, <1>12, <2>1
<1>14. ASSUME NEW k \in 1 .. (nx + ny + nw) PROVE b[2 + k] = v[k]
  <2> HIDE DEF b, head
  <2> DEFINE j == 2 + k
  <2>1. j \in 1 .. (2 + (nx + ny + nw)) /\ ~(j <= 2) /\ j - 2 = k
    BY <1>11
  <2> HIDE DEF j
  <2> QED BY <1>12, <2>1 DEF j
<1> HIDE DEF b
<1>15. "uncomp" \in z => b[3] = Len(m.data)
  <2> SUFFICES ASSUME "uncomp" \in z PROVE b[3] = Len(m.data)
    OBVIOUS
  <2>1. 1 \in 1 .. (nx + ny + nw) /\ 2 + 1 = 3
    BY <1>1
  <2>2. b[2 + 1] = v[1]
    BY <1>14, <2>1
  <2> QED BY <1>7, <2>1, <2>2
<1>16. "comp" \in z => b[3 + nx] = Len(Body(m))
  <2> SUFFICES ASSUME "comp" \in z PROVE b[3 + nx] = Len(Body(m))
    OBVIOUS
  <2>1. 1 + nx \in 1 .. (nx + ny + nw) /\ 2 + (1 + nx) = 3 + nx
    BY <1>1
  <2>2. b[2 + (1 + nx)] = v[1 + nx]
    BY <1>14, <2>1
  <2> QED BY <1>8, <2>1, <2>2
<1>17. "offset" \in z => b[3 + (nx + ny)] = o
  <2> SUFFICES ASSUME "offset" \in z PROVE b[3 + (nx + ny)] = o
    OBVIOUS
  <2>1. 1 + (nx + ny) \in 1 .. (nx + ny + nw) /\ 2 + (1 + (nx + ny)) = 3 + (nx + ny)
    BY <1>1
  <2>2. b[2 + (1 + (nx + ny))] = v[1 + (nx + ny)]
    BY <1>14, <2>1
  <2> QED BY <1>9, <2>1, <2>2
<1>18. z # {} => Zip64Block(m, o) = b
  BY <1>3 DEF b, head
<1>19. Zip64Block(m, o) \in Seq(Nat)
  BY <1>3, <1>12, <1>18, EmptySeq
<1>20. z # {} =>
         /\ Len(b) = 2 + Cardinality(z) /\ b[1] = Zip64Id /\ b[2] = Cardinality(z)
         /\ Cardinality(z) \in Nat
  BY <1>4, <1>11, <1>12, <1>13
<1> QED BY <1>15, <1>16, <1>17, <1>18, <1>19, <1>20 DEF nx, ny, z

(* Past the blocks of another kind, the walk comes to the one of ZIP64.     *)
LEMMA BlockFound ==
  ASSUME units \in Seq(Nat), NEW from \in Nat, NEW x \in Seq(Nat), Blocks(x),
         NEW b \in Seq(Nat), NEW n \in Nat, Len(b) = 2 + n, b[1] = Zip64Id, b[2] = n,
         Holds(units, from, x \o b)
  PROVE  Zip64At(from, from + Len(x \o b)) = from + Len(x)
<1> DEFINE end == from + Len(x \o b)
           N == end - from
           L == Len(x)
           holds(i) == i + 2 <= end /\ i + 2 + At(i + 1) <= end
           Go(i) == IF holds(i) /\ At(i) # Zip64Id THEN i + 2 + At(i + 1) ELSE i
           Is(f) == f = [k \in 0 .. N |-> IF k = 0 THEN from ELSE Go(f[k - 1])]
           G == [y \in Nat \X (1 .. N) |-> Go(y[1])]
<1> DEFINE M == Len(b)
<1>a. Len(x \o b) = L + M /\ L \in Nat /\ M \in Nat /\ x \o b \in Seq(Nat)
  BY ConcatProperties, LenProperties
<1>b. from + Len(x \o b) <= Size /\ Size \in Nat
  BY <1>a, UnitHeld
<1>c. \A k \in 1 .. L : x[k] \in Nat
  BY ElementOfSeq
<1>2. Holds(units, from, x) /\ Holds(units, from + L, b)
  BY UnitsOfBoth
<1>3. ASSUME NEW q \in 0 .. (L - 1) PROVE At(from + q) = x[q + 1]
  BY <1>2, UnitHeld
<1>d. M = 2 + n
  OBVIOUS
<1>e. \A j \in 0 .. (M - 1) : At(from + L + j) = b[j + 1]
  <2> DEFINE i == from + L
  <2>1. i \in Nat /\ Holds(units, i, b)
    BY <1>a, <1>2
  <2> HIDE DEF i
  <2>2. \A j \in 0 .. (M - 1) : At(i + j) = b[j + 1]
    BY <2>1, UnitHeld
  <2> QED BY <2>2 DEF i
<1> HIDE DEF L, M
<1>1. /\ L \in Nat /\ M \in Nat /\ N = L + M /\ end = from + L + M /\ end <= Size /\ Size \in Nat
      /\ \A k \in 1 .. L : x[k] \in Nat
      /\ M = 2 + n
  <2> DEFINE T == Len(x \o b)
  <2>1. T = L + M /\ from + T <= Size
    BY <1>a, <1>b
  <2> HIDE DEF T
  <2>2. end = from + T /\ N = from + T - from
    BY DEF T
  <2> HIDE DEF end, N
  <2> QED BY <1>a, <1>b, <1>c, <1>d, <2>1, <2>2
<1>4. At(from + L) = Zip64Id /\ At(from + L + 1) = n
  <2>2. 0 \in 0 .. (M - 1) /\ 1 \in 0 .. (M - 1) /\ from + L + 0 = from + L
        /\ 0 + 1 = 1 /\ 1 + 1 = 2
    BY <1>c, <1>d, <1>a
  <2>3. At(from + L + 0) = b[0 + 1] /\ At(from + L + 1) = b[1 + 1]
    BY <1>e, <2>2
  <2> QED BY <2>2, <2>3
<1> HIDE DEF end
<1>5. ASSUME NEW i \in Nat PROVE Go(i) \in Nat
  <2>1. CASE holds(i)
    <3>1. i + 1 + 1 \in 1 .. Len(units)
      BY <1>1, <2>1 DEF Size
    <3>2. At(i + 1) \in Nat
      BY <3>1, ElementOfSeq DEF At
    <3> HIDE DEF holds
    <3> QED BY <3>2
  <2> HIDE DEF holds
  <2> QED BY <2>1
<1> HIDE DEF N
<1>6. N \in Nat
  BY <1>1
<1> HIDE DEF Go
<1>7. G \in [Nat \X (1 .. N) -> Nat]
  BY <1>5
<1>8. PICK g \in [0 .. N -> Nat] : Follows(g, N, from, G)
  <2> HIDE DEF G
  <2> QED BY <1>6, <1>7, Recursion
<1>9. Is(g)
  <2>1. ASSUME NEW k \in 0 .. N PROVE g[k] = IF k = 0 THEN from ELSE Go(g[k - 1])
    <3>1. CASE k = 0
      BY <1>8, <3>1 DEF Follows
    <3>2. CASE k # 0
      <4>1. k \in 1 .. N /\ k - 1 \in 0 .. N
        BY <1>6, <3>2
      <4>2. g[k] = G[<<g[k - 1], k>>] /\ g[k - 1] \in Nat
        BY <1>8, <4>1 DEF Follows
      <4>3. g[k] = Go(g[k - 1])
        BY <4>1, <4>2
      <4> QED BY <3>2, <4>3
    <3> QED BY <3>1, <3>2
  <2>2. g = [k \in 0 .. N |-> g[k]]
    OBVIOUS
  <2> QED BY <2>1, <2>2
<1> DEFINE h == CHOOSE f : Is(f)
<1>10. Is(h)
  BY <1>9
<1>11. Zip64At(from, end) = IF holds(h[N]) THEN h[N] ELSE Nothing
  BY DEF Zip64At, N, Go, end
<1> HIDE DEF h
<1>12. h[0] = from /\ \A k \in 1 .. N : h[k] = Go(h[k - 1])
  BY <1>6, <1>10
<1>13. PICK starts \in SUBSET (0 .. L) :
         /\ 0 \in starts
         /\ \A i \in starts \ {L} : /\ i + 2 <= L /\ x[i + 1] # Zip64Id
                                    /\ i + 2 + x[i + 2] \in starts
  BY DEF Blocks, L
<1> DEFINE P == {k \in 0 .. N : \E q \in starts : h[k] = from + q /\ (q = L \/ q >= k)}
<1>14. 0 \in P
  <2>1. h[0] = from + 0 /\ 0 >= 0 /\ 0 \in 0 .. N
    BY <1>6, <1>12
  <2> QED BY <1>13, <2>1
<1>15. ASSUME NEW k \in 1 .. N, k - 1 \in P PROVE k \in P
  <2>1. PICK q \in starts : h[k - 1] = from + q /\ (q = L \/ q >= k - 1)
    BY <1>15
  <2>2. h[k] = Go(from + q) /\ k \in 0 .. N
    BY <1>6, <1>12, <2>1
  <2>3. CASE q = L
    <3>1. Go(from + q) = from + q
      BY <1>4, <2>3 DEF Go
    <3> QED BY <2>2, <2>3, <3>1
  <2>4. CASE q # L
    <3> DEFINE r == q + 2 + x[q + 2]
    <3>1. q + 2 <= L /\ x[q + 1] # Zip64Id /\ r \in starts /\ r \in 0 .. L /\ q \in 0 .. L
      BY <1>13, <2>4
    <3>2. At(from + q) = x[q + 1] /\ At(from + q + 1) = x[q + 2] /\ x[q + 2] \in Nat
      <4>1. q \in 0 .. (L - 1) /\ q + 1 \in 0 .. (L - 1) /\ from + (q + 1) = from + q + 1
            /\ q + 1 + 1 = q + 2 /\ q + 2 \in 1 .. L
        BY <1>1, <3>1
      <4>2. At(from + (q + 1)) = x[q + 1 + 1]
        BY <1>3, <4>1
      <4> QED BY <1>1, <1>3, <4>1, <4>2
    <3>3. /\ from + q + 2 <= end /\ from + q + 2 + x[q + 2] <= end
          /\ from + q + 2 + x[q + 2] = from + r /\ r >= k
      <4> DEFINE j == x[q + 2]
      <4>1. /\ j \in Nat /\ q \in 0 .. L /\ q + 2 <= L /\ r = q + 2 + j /\ r <= L /\ q >= k - 1
            /\ L \in Nat /\ M \in Nat /\ end = from + L + M /\ k \in Nat
        BY <1>1, <1>6, <2>1, <2>4, <3>1, <3>2
      <4> HIDE DEF j, r
      <4>2. from + q + 2 <= end /\ from + q + 2 + j <= end /\ from + q + 2 + j = from + r /\ r >= k
        BY <4>1
      <4> QED BY <4>2 DEF j
    <3>4. holds(from + q)
      BY <3>2, <3>3
    <3>5. Go(from + q) = from + r
      <4> HIDE DEF holds, r
      <4> QED BY <3>1, <3>2, <3>3, <3>4 DEF Go
    <3> HIDE DEF r
    <3> QED BY <2>2, <3>1, <3>3, <3>5
  <2> QED BY <2>3, <2>4
<1>16. 0 .. N \subseteq P
  <2> HIDE DEF P
  <2> QED BY <1>6, <1>14, <1>15, Upward
<1>17. h[N] = from + L
  <2>1. N \in P
    BY <1>6, <1>16
  <2>2. PICK q \in starts : h[N] = from + q /\ (q = L \/ q >= N)
    BY <2>1
  <2>3. N > L
    BY <1>1
  <2>4. q \in 0 .. L
    BY <1>13
  <2>5. ~(q >= N)
    BY <1>1, <1>6, <2>3, <2>4
  <2> QED BY <2>2, <2>5
<1>18. holds(from + L)
  BY <1>1, <1>4
<1> HIDE DEF holds, end
<1>19. Zip64At(from, end) = from + L
  BY <1>11, <1>17, <1>18
<1> QED BY <1>19 DEF end, L

(* A header's extra field as it is written: with its ZIP64 block behind.    *)
Extra(m, o) == m.extra \o Zip64Block(m, o)
Whole(m, o) ==
  /\ Checksum(m.data) \in Nat
  /\ m.zip64 # {} => Blocks(m.extra)
  /\ Len(m.data) # Marker /\ Len(Body(m)) # Marker /\ o # Marker
Header0(m, o) ==
  [name |-> m.name, method |-> m.method, crc |-> Checksum(m.data),
   comp |-> Field(m, "comp", Len(Body(m))), uncomp |-> Field(m, "uncomp", Len(m.data)),
   offset |-> Field(m, "offset", o)]

(* The fields that were moved to the ZIP64 block are found there.           *)
LEMMA FieldsRead ==
  ASSUME units \in Seq(Nat), NEW m \in Member, NEW o \in Nat, Whole(m, o),
         NEW from \in Nat, Holds(units, from, Extra(m, o))
  PROVE  Zip64Fields(Header0(m, o), from, Len(Extra(m, o))) = Read(m, o)
<1> DEFINE z == m.zip64
           x == m.extra
           b == Zip64Block(m, o)
           entry == Header0(m, o)
           n == Len(Extra(m, o))
           block == Zip64At(from, from + n)
           marked == {f \in Movable : entry[f] = Marker}
           value(f, before) == IF f \in marked
                               THEN At(block + 2 + Cardinality(marked \cap before)) ELSE entry[f]
           nx == Moved(z, "uncomp")
           ny == Moved(z, "comp")
<1>1. z \in SUBSET Movable /\ x \in Seq(Nat) /\ b \in Seq(Nat)
  <2>1. z \in SUBSET Movable /\ x \in Seq(Nat)
    BY DEF Member, Movable, Bytes
  <2> QED BY <2>1, BlockIs
<1>2. /\ entry.name = m.name /\ entry.method = m.method /\ entry.crc = Checksum(m.data)
      /\ entry["comp"] = (IF "comp" \in z THEN Marker ELSE Len(Body(m)))
      /\ entry["uncomp"] = (IF "uncomp" \in z THEN Marker ELSE Len(m.data))
      /\ entry["offset"] = (IF "offset" \in z THEN Marker ELSE o)
  BY DEF Header0, Field
<1>3. marked = z
  <2>1. /\ entry["comp"] = Marker <=> "comp" \in z
        /\ entry["uncomp"] = Marker <=> "uncomp" \in z
        /\ entry["offset"] = Marker <=> "offset" \in z
    <3> HIDE DEF entry, z
    <3> QED BY <1>2 DEF Whole
  <2>2. \A f \in Movable : entry[f] = Marker <=> f \in z
    <3> HIDE DEF entry, z
    <3> QED BY <2>1 DEF Movable
  <2> HIDE DEF entry, z
  <2> QED BY <1>1, <2>2
<1>4. Zip64Fields(entry, from, n) =
        IF marked = {} THEN entry
        ELSE IF block = Nothing THEN Nothing
        ELSE IF At(block + 1) < Cardinality(marked) THEN Nothing
        ELSE [entry EXCEPT !.uncomp = value("uncomp", {}),
                           !.comp   = value("comp", {"uncomp"}),
                           !.offset = value("offset", {"uncomp", "comp"})]
  BY DEF Zip64Fields
<1>5. CASE z = {}
  <2>1. Zip64Fields(entry, from, n) = entry
    BY <1>3, <1>4, <1>5
  <2>2. entry = Read(m, o)
    BY <1>5 DEF Header0, Field, Read
  <2> QED BY <2>1, <2>2
<1>6. CASE z # {}
  <2> DEFINE c == Cardinality(z)
             L == Len(x)
  <2>1. /\ c \in Nat /\ Len(b) = 2 + c /\ b[1] = Zip64Id /\ b[2] = c
        /\ "uncomp" \in z => b[3] = Len(m.data)
        /\ "comp" \in z => b[3 + nx] = Len(Body(m))
        /\ "offset" \in z => b[3 + (nx + ny)] = o
    BY <1>6, BlockIs
  <2>2. block = from + L /\ Holds(units, from + L, b) /\ L \in Nat
    <3>1. Extra(m, o) = x \o b /\ Blocks(x)
      BY <1>6 DEF Extra, Whole
    <3> HIDE DEF x, b, c
    <3>2. Holds(units, from, x \o b)
      BY <3>1
    <3>3. Zip64At(from, from + Len(x \o b)) = from + Len(x)
      BY <1>1, <2>1, <3>1, <3>2, BlockFound
    <3>4. Holds(units, from + Len(x), b) /\ Len(x) \in Nat
      BY <1>1, <3>2, UnitsOfBoth
    <3> QED BY <3>1, <3>3, <3>4
  <2> HIDE DEF block, L
  <2> DEFINE p == from + L
  <2>3. p \in Nat /\ block = p /\ block # Nothing
    BY <2>2, WrittenAssumption
  <2> HIDE DEF p, b, c
  <2>4. ASSUME NEW j \in 0 .. (c + 1) PROVE At(p + j) = b[j + 1]
    <3>1. \A i \in 0 .. (Len(b) - 1) : At(p + i) = b[i + 1]
      <4>1. Holds(units, p, b)
        BY <2>2 DEF p
      <4> QED BY <1>1, <2>3, <4>1, UnitHeld
    <3>2. Len(b) - 1 = c + 1
      BY <2>1
    <3> QED BY <3>1, <3>2
  <2>5. At(block + 1) = c
    <3>1. 1 \in 0 .. (c + 1) /\ 1 + 1 = 2
      BY <2>1
    <3>2. At(p + 1) = b[1 + 1]
      BY <2>4, <3>1
    <3> QED BY <2>1, <2>3, <3>1, <3>2
  <2>6. ASSUME NEW k \in Nat, k < c PROVE At(block + 2 + k) = b[3 + k]
    <3> DEFINE j == 2 + k
    <3>1. j \in 0 .. (c + 1) /\ p + j = p + 2 + k /\ j + 1 = 3 + k
      BY <2>1, <2>3, <2>6
    <3> HIDE DEF j
    <3>2. At(p + j) = b[j + 1]
      BY <2>4, <3>1
    <3> QED BY <2>3, <3>1, <3>2
  <2>7. /\ Cardinality(z \cap {}) = 0 /\ Cardinality(z \cap {"uncomp"}) = nx
        /\ Cardinality(z \cap {"uncomp", "comp"}) = nx + ny
        /\ c = nx + ny + Moved(z, "offset")
    BY <1>1, MovedAre DEF c
  <2>8. /\ nx \in 0 .. 1 /\ ny \in 0 .. 1 /\ Moved(z, "offset") \in 0 .. 1
        /\ "uncomp" \in z => 0 < c
        /\ "comp" \in z => nx < c
        /\ "offset" \in z => nx + ny < c
    BY <2>7 DEF Moved
  <2> HIDE DEF nx, ny, z, entry
  <2>9. value("uncomp", {}) = Len(m.data)
    <3>1. CASE "uncomp" \in z
      <4>1. At(block + 2 + 0) = b[3 + 0] /\ 3 + 0 = 3
        BY <2>6, <2>8, <3>1
      <4> QED BY <1>3, <2>1, <2>7, <3>1, <4>1
    <3>2. CASE "uncomp" \notin z
      BY <1>2, <1>3, <3>2
    <3> QED BY <3>1, <3>2
  <2>10. value("comp", {"uncomp"}) = Len(Body(m))
    <3>1. CASE "comp" \in z
      <4>1. At(block + 2 + nx) = b[3 + nx]
        BY <2>6, <2>8, <3>1
      <4> QED BY <1>3, <2>1, <2>7, <3>1, <4>1
    <3>2. CASE "comp" \notin z
      BY <1>2, <1>3, <3>2
    <3> QED BY <3>1, <3>2
  <2>11. value("offset", {"uncomp", "comp"}) = o
    <3>1. CASE "offset" \in z
      <4>1. nx + ny \in Nat
        BY <2>8
      <4>2. At(block + 2 + (nx + ny)) = b[3 + (nx + ny)]
        BY <2>6, <2>8, <3>1, <4>1
      <4> QED BY <1>3, <2>1, <2>7, <3>1, <4>2
    <3>2. CASE "offset" \notin z
      BY <1>2, <1>3, <3>2
    <3> QED BY <3>1, <3>2
  <2>12. ~(At(block + 1) < Cardinality(marked))
    <3>1. Cardinality(marked) = c
      BY <1>3 DEF c
    <3> HIDE DEF marked
    <3> QED BY <2>1, <2>5, <3>1
  <2> DEFINE u == value("uncomp", {})
             d == value("comp", {"uncomp"})
             w == value("offset", {"uncomp", "comp"})
  <2>13. marked # {}
    BY <1>3, <1>6
  <2> HIDE DEF u, d, w, marked
  <2>14. Zip64Fields(entry, from, n) = [entry EXCEPT !.uncomp = u, !.comp = d, !.offset = w]
    BY <1>4, <2>3, <2>12, <2>13 DEF u, d, w
  <2>15. u = Len(m.data) /\ d = Len(Body(m)) /\ w = o
    BY <2>9, <2>10, <2>11 DEF u, d, w
  <2>16. [entry EXCEPT !.uncomp = Len(m.data), !.comp = Len(Body(m)), !.offset = o] = Read(m, o)
    <3> DEFINE j == Field(m, "comp", Len(Body(m)))
               k == Field(m, "uncomp", Len(m.data))
               l == Field(m, "offset", o)
               s == Checksum(m.data)
               q == Len(m.data)
               r == Len(Body(m))
    <3>1. entry = [name |-> m.name, method |-> m.method, crc |-> s,
                   comp |-> j, uncomp |-> k, offset |-> l]
      BY DEF entry, Header0
    <3>2. Read(m, o) = [name |-> m.name, method |-> m.method, crc |-> s,
                        comp |-> r, uncomp |-> q, offset |-> o]
      BY DEF Read
    <3> HIDE DEF j, k, l, s, q, r
    <3>3. [entry EXCEPT !.uncomp = q, !.comp = r, !.offset = o] = Read(m, o)
      <4> DEFINE e == [name |-> m.name, method |-> m.method, crc |-> s,
                       comp |-> j, uncomp |-> k, offset |-> l]
                 e1 == [name |-> m.name, method |-> m.method, crc |-> s,
                        comp |-> j, uncomp |-> q, offset |-> l]
                 e2 == [name |-> m.name, method |-> m.method, crc |-> s,
                        comp |-> r, uncomp |-> q, offset |-> l]
                 e3 == [name |-> m.name, method |-> m.method, crc |-> s,
                        comp |-> r, uncomp |-> q, offset |-> o]
      <4>1. [e EXCEPT !.uncomp = q] = e1
        OBVIOUS
      <4>2. [e1 EXCEPT !.comp = r] = e2
        OBVIOUS
      <4>3. [e2 EXCEPT !.offset = o] = e3
        OBVIOUS
      <4>4. entry = e /\ Read(m, o) = e3
        BY <3>1, <3>2
      <4> HIDE DEF e, e1, e2, e3
      <4>5. [e EXCEPT !.uncomp = q, !.comp = r, !.offset = o]
              = [[[e EXCEPT !.uncomp = q] EXCEPT !.comp = r] EXCEPT !.offset = o]
        OBVIOUS
      <4> QED BY <4>1, <4>2, <4>3, <4>4, <4>5
    <3> QED BY <3>3 DEF q, r
  <2>17. [entry EXCEPT !.uncomp = u, !.comp = d, !.offset = w] = Read(m, o)
    BY <2>15, <2>16
  <2> QED BY <2>14, <2>17 DEF entry, n
<1> QED BY <1>5, <1>6

(* A header is read as what its member is entered as, and the next one lies *)
(* where it ends; one of an encrypted member is refused.                    *)
LEMMA HeaderRead ==
  ASSUME units \in Seq(Nat), NEW m \in Member, NEW o \in Nat, Whole(m, o),
         NEW p \in Nat, Holds(units, p, CentralRecord(m, o))
  PROVE  /\ EntryAt(p) = IF m.flags % 2 = Encrypted THEN Nothing ELSE Read(m, o)
         /\ p + HeaderSize(p) = p + Len(CentralRecord(m, o))
         /\ p \in 0 .. Size /\ p + HeaderSize(p) \in 0 .. Size
<1> DEFINE extra == Extra(m, o)
           c == Field(m, "comp", Len(Body(m)))
           u == Field(m, "uncomp", Len(m.data))
           w == Field(m, "offset", o)
           first == <<SigCentral, m.flags, m.method, Checksum(m.data), c, u,
                      Len(m.name), Len(extra), 0, w>>
           record == CentralRecord(m, o)
           nl == Len(m.name)
           xl == Len(extra)
<1>1. /\ m.name \in Seq(Nat) /\ m.extra \in Seq(Nat) /\ m.flags \in Nat /\ m.method \in Nat
      /\ SigCentral \in Nat /\ Marker \in Nat /\ Checksum(m.data) \in Nat
      /\ nl \in Nat /\ Len(m.data) \in Nat /\ Len(Body(m)) \in Nat
  <2>1. m.extra \in Seq(Nat) /\ m.flags \in Nat /\ m.method \in Nat
    BY DEF Member, Bytes
  <2> QED BY <2>1, MemberUnits, ArchiveAssumption DEF Bytes, Whole
<1>2. extra \in Seq(Nat) /\ xl \in Nat
  <2>1. Zip64Block(m, o) \in Seq(Nat)
    BY BlockIs
  <2> QED BY <1>1, <2>1, ConcatProperties, LenProperties DEF Extra
<1>3. c \in Nat /\ u \in Nat /\ w \in Nat
  BY <1>1 DEF Field
<1>4. record = first \o m.name \o extra
  BY DEF CentralRecord, Extra
<1> HIDE DEF extra, c, u, w, record
<1>5. /\ first \in Seq(Nat) /\ Len(first) = 10
      /\ first[1] = SigCentral /\ first[2] = m.flags /\ first[3] = m.method
      /\ first[4] = Checksum(m.data) /\ first[5] = c /\ first[6] = u
      /\ first[7] = nl /\ first[8] = xl /\ first[9] = 0 /\ first[10] = w
  BY <1>1, <1>2, <1>3
<1> HIDE DEF first, nl, xl
<1> DEFINE fn == first \o m.name
<1>6. /\ fn \in Seq(Nat) /\ Len(fn) = 10 + nl
      /\ record \in Seq(Nat) /\ Len(record) = 10 + nl + xl
  <2>1. fn \in Seq(Nat) /\ Len(fn) = Len(first) + Len(m.name)
    BY <1>1, <1>5, ConcatProperties
  <2> HIDE DEF fn
  <2>2. fn \o extra \in Seq(Nat) /\ Len(fn \o extra) = Len(fn) + Len(extra)
    BY <1>2, <2>1, ConcatProperties
  <2>3. record = fn \o extra
    BY <1>4 DEF fn
  <2> QED BY <1>1, <1>5, <2>1, <2>2, <2>3 DEF nl, xl
<1>7. Holds(units, p, fn) /\ Holds(units, p + Len(fn), extra)
  <2>1. record = fn \o extra /\ Holds(units, p, record)
    BY <1>4 DEF fn, record
  <2> HIDE DEF fn
  <2> QED BY <1>2, <1>6, <2>1, UnitsOfBoth
<1>8. Holds(units, p, first) /\ Holds(units, p + 10, m.name)
  <2>1. Holds(units, p, first) /\ Holds(units, p + Len(first), m.name)
    BY <1>1, <1>5, <1>7, UnitsOfBoth
  <2> QED BY <1>5, <2>1
<1>9. \A j \in 0 .. 9 : At(p + j) = first[j + 1]
  <2>1. Len(first) - 1 = 9
    BY <1>5
  <2>2. \A j \in 0 .. (Len(first) - 1) : At(p + j) = first[j + 1]
    BY <1>5, <1>8, UnitHeld
  <2> QED BY <2>1, <2>2
<1>10. /\ At(p) = SigCentral /\ At(p + CFlags) = m.flags /\ At(p + CMethod) = m.method
       /\ At(p + CCrc) = Checksum(m.data) /\ At(p + CComp) = c /\ At(p + CUncomp) = u
       /\ At(p + CNameLen) = nl /\ At(p + CExtraLen) = xl /\ At(p + CCommentLen) = 0
       /\ At(p + COffset) = w
  <2>1. /\ At(p + 0) = first[0 + 1] /\ At(p + 1) = first[1 + 1] /\ At(p + 2) = first[2 + 1]
        /\ At(p + 3) = first[3 + 1] /\ At(p + 4) = first[4 + 1] /\ At(p + 5) = first[5 + 1]
        /\ At(p + 6) = first[6 + 1] /\ At(p + 7) = first[7 + 1] /\ At(p + 8) = first[8 + 1]
        /\ At(p + 9) = first[9 + 1]
    BY <1>9
  <2>2. p + 0 = p
    OBVIOUS
  <2>3. /\ At(p) = first[1] /\ At(p + 1) = first[2] /\ At(p + 2) = first[3]
        /\ At(p + 3) = first[4] /\ At(p + 4) = first[5] /\ At(p + 5) = first[6]
        /\ At(p + 6) = first[7] /\ At(p + 7) = first[8] /\ At(p + 8) = first[9]
        /\ At(p + 9) = first[10]
    BY <2>1, <2>2
  <2> QED BY <1>5, <2>3 DEF CFlags, CMethod, CCrc, CComp, CUncomp, CNameLen, CExtraLen,
                            CCommentLen, COffset
<1>11. Piece(p + CentralSize, At(p + CNameLen)) = m.name
  <2>1. p + 10 \in Nat
    OBVIOUS
  <2>2. Piece(p + 10, Len(m.name)) = m.name
    BY <1>1, <1>8, <2>1, UnitHeld
  <2> QED BY <1>10, <2>2 DEF nl, CentralSize
<1>12. HeaderSize(p) = 10 + nl + xl + 0
  BY <1>10 DEF HeaderSize, CentralSize
<1>13. p + (10 + nl + xl) <= Size /\ Size \in Nat /\ nl \in Nat /\ xl \in Nat
  <2>1. p + Len(record) <= Size /\ Size \in Nat
    <3>1. Holds(units, p, record)
      BY DEF record
    <3> QED BY <1>6, <3>1, UnitHeld
  <2> QED BY <1>1, <1>2, <1>6, <2>1 DEF nl, xl
<1>14. /\ p + HeaderSize(p) = p + Len(record)
       /\ p \in 0 .. Size /\ p + HeaderSize(p) \in 0 .. Size
       /\ ~(Size - p < CentralSize) /\ ~(Size - p < HeaderSize(p))
  BY <1>6, <1>12, <1>13 DEF CentralSize
<1> DEFINE from == p + CentralSize + At(p + CNameLen)
<1>15. from = p + Len(fn) /\ from \in Nat
  BY <1>6, <1>10, <1>13 DEF CentralSize
<1> HIDE DEF from, fn
<1>16. Zip64Fields(Header0(m, o), from, At(p + CExtraLen)) = Read(m, o)
  <2>1. Holds(units, from, Extra(m, o))
    BY <1>7, <1>15 DEF extra
  <2>2. Zip64Fields(Header0(m, o), from, Len(Extra(m, o))) = Read(m, o)
    BY <1>15, <2>1, FieldsRead
  <2> QED BY <1>10, <2>2 DEF xl, extra
<1> DEFINE header == [name |-> Piece(p + CentralSize, At(p + CNameLen)),
                      method |-> At(p + CMethod), crc |-> At(p + CCrc),
                      comp |-> At(p + CComp), uncomp |-> At(p + CUncomp),
                      offset |-> At(p + COffset)]
<1>17. header = Header0(m, o)
  BY <1>10, <1>11 DEF Header0, c, u, w
<1>18. EntryAt(p) = (IF Size - p < CentralSize THEN Nothing
         ELSE IF At(p) # SigCentral THEN Nothing
         ELSE IF Size - p < HeaderSize(p) \/ At(p + CFlags) % 2 = Encrypted THEN Nothing
         ELSE Zip64Fields(header, from, At(p + CExtraLen)))
  BY DEF EntryAt, from
<1> HIDE DEF header
<1>19. EntryAt(p) = IF m.flags % 2 = Encrypted THEN Nothing ELSE Read(m, o)
  BY <1>10, <1>14, <1>16, <1>17, <1>18
<1> QED BY <1>14, <1>19 DEF record

(***************************************************************************)
(* An archive that is whole is opened as it was written.                    *)
(***************************************************************************)
(* Of what is read where a whole archive lies, each fits below the marker.  *)
LEMMA MembersWhole ==
  ASSUME NEW ms \in Archives, NEW c \in Comments, units = ZipOf(ms, c), NEW i \in 1 .. Len(ms)
  PROVE  ms[i] \in Member /\ Offset(ms, i) \in Nat /\ Whole(ms[i], Offset(ms, i))
<1> DEFINE m == ms[i]
           o == Offset(ms, i)
<1>1. Laid(ms, c)
  BY ZipIsLaid
<1>2. ms \in Seq(Member) /\ i \in DOMAIN ms /\ m \in Member
  <2>1. ms \in Seq(Member)
    BY ArchiveAssumption
  <2> QED BY <2>1, LenProperties, ElementOfSeq
<1>3. units \in Seq(Nat) /\ o \in Nat /\ Holds(units, o, LocalRecord(m))
  BY <1>1 DEF Laid
<1>4. Size < Marker /\ Marker \in Nat
  BY WrittenAssumption, ArchiveAssumption DEF Size
<1>5. Checksum(m.data) \in Nat /\ (m.zip64 # {} => Blocks(m.extra))
  BY <1>2, ArchiveAssumption, WrittenAssumption
<1> HIDE DEF m, o
<1>6. Size \in Nat /\ o <= Size /\ Len(Body(m)) <= Size
  <2> DEFINE from == o + LocalSize + At(o + LNameLen) + At(o + LExtraLen)
  <2>1. Holds(units, from, Body(m)) /\ from \in Nat /\ Inside(o, LocalSize)
    BY <1>2, <1>3, LocalRead
  <2> HIDE DEF from
  <2>2. Body(m) \in Seq(Nat) /\ Len(Body(m)) \in Nat
    BY <1>2, MemberUnits DEF Bytes
  <2>3. from + Len(Body(m)) <= Size /\ Size \in Nat
    BY <1>3, <2>1, <2>2, UnitHeld
  <2>4. o <= Size
    BY <2>1 DEF Inside
  <2> QED BY <2>1, <2>2, <2>3, <2>4
<1>7. Len(m.data) \in Nat /\ Len(m.data) <= Len(Body(m)) /\ Len(Body(m)) \in Nat
  <2>1. m.data \in Seq(Nat) /\ Len(m.data) \in Nat /\ Len(Body(m)) \in Nat
    BY <1>2, MemberUnits DEF Bytes
  <2>2. CASE m.method = Deflated
    <3>1. <<Len(m.data)>> \in Seq(Nat) /\ Len(<<Len(m.data)>>) = 1
      BY <2>1
    <3>2. Len(Packed(m.data)) = Len(<<Len(m.data)>>) + Len(m.data)
      BY <2>1, <3>1, ConcatProperties DEF Packed
    <3>3. Body(m) = Packed(m.data)
      BY <2>2 DEF Body
    <3> QED BY <2>1, <3>1, <3>2, <3>3
  <2>3. CASE m.method # Deflated
    BY <2>1, <2>3 DEF Body
  <2> QED BY <2>1, <2>2, <2>3
<1>8. Len(m.data) # Marker /\ Len(Body(m)) # Marker /\ o # Marker
  BY <1>3, <1>4, <1>6, <1>7
<1>9. Whole(m, o)
  BY <1>5, <1>8 DEF Whole
<1> QED BY <1>2, <1>3, <1>9 DEF m, o

(* The end record is the one that was written: nothing behind it looks like *)
(* another, and it is near enough to the end.                               *)
LEMMA EndFound ==
  ASSUME NEW ms \in Archives, NEW c \in Comments, units = ZipOf(ms, c)
  PROVE  LET e == Len(Locals(ms)) + Len(Directory(ms))
         IN /\ e \in Nat /\ EndAt = e
            /\ At(e + ECount) = Len(ms) /\ At(e + ECdSize) = Len(Directory(ms))
            /\ At(e + ECdOffset) = Len(Locals(ms))
<1> DEFINE dl == Len(Directory(ms))
           ll == Len(Locals(ms))
           e == ll + dl
           E == EndRecord(ms, c)
           five == <<SigEnd, Len(ms), Len(Directory(ms)), Len(Locals(ms)), Len(c)>>
           cl == Len(c)
<1>1. /\ units \in Seq(Nat) /\ ll \in Nat /\ dl \in Nat
      /\ Holds(units, e, E) /\ E \in Seq(Nat) /\ Size = ll + dl + Len(E)
  BY ZipIsLaid DEF Laid
<1>2. /\ c \in Seq(Nat) /\ cl \in Nat /\ Len(ms) \in Nat /\ SigEnd \in Nat /\ MaxBack \in Nat
      /\ cl <= MaxBack /\ \A i \in 2 .. (cl + 1) : E[i] # SigEnd
  <2>1. c \in Seq(Nat) /\ ms \in Seq(Member) /\ SigEnd \in Nat /\ MaxBack \in Nat
    BY ArchiveAssumption DEF Bytes
  <2>2. cl <= MaxBack /\ \A i \in 2 .. (cl + 1) : E[i] # SigEnd
    BY WrittenAssumption
  <2> QED BY <2>1, <2>2, LenProperties
<1>3. /\ five \in Seq(Nat) /\ Len(five) = 5 /\ five[1] = SigEnd /\ five[2] = Len(ms)
      /\ five[3] = dl /\ five[4] = ll
  BY <1>1, <1>2
<1>4. E = five \o c
  BY DEF EndRecord
<1> HIDE DEF E, five, dl, ll, cl
<1>5. Len(E) = 5 + cl /\ \A k \in 1 .. 5 : E[k] = five[k]
  <2>1. /\ Len(five \o c) = Len(five) + Len(c)
        /\ \A k \in 1 .. Len(five) + Len(c) :
             (five \o c)[k] = IF k <= Len(five) THEN five[k] ELSE c[k - Len(five)]
    BY <1>2, <1>3, ConcatProperties
  <2>2. ASSUME NEW k \in 1 .. 5 PROVE E[k] = five[k]
    <3>1. k \in 1 .. Len(five) + Len(c) /\ k <= Len(five)
      BY <1>2, <1>3 DEF cl
    <3>2. (five \o c)[k] = five[k]
      BY <2>1, <3>1
    <3> QED BY <1>4, <3>2
  <2>3. Len(E) = 5 + cl
    BY <1>3, <1>4, <2>1 DEF cl
  <2> QED BY <2>2, <2>3
<1>6. e \in Nat
  BY <1>1
<1> DEFINE p == e
<1> HIDE DEF p
<1>p. p = e
  BY DEF p
<1>7. \A j \in 0 .. (4 + cl) : At(p + j) = E[j + 1]
  <2>1. Len(E) - 1 = 4 + cl
    BY <1>2, <1>5
  <2>2. p \in Nat /\ Holds(units, p, E)
    BY <1>1, <1>6, <1>p
  <2>3. \A j \in 0 .. (Len(E) - 1) : At(p + j) = E[j + 1]
    BY <1>1, <2>2, UnitHeld
  <2> QED BY <2>1, <2>3
<1>8. /\ At(p) = SigEnd /\ At(p + 1) = Len(ms) /\ At(p + 2) = dl /\ At(p + 3) = ll
  <2>1. 0 \in 0 .. (4 + cl) /\ 1 \in 0 .. (4 + cl) /\ 2 \in 0 .. (4 + cl) /\ 3 \in 0 .. (4 + cl)
    BY <1>2
  <2>2. At(p + 0) = E[0 + 1] /\ At(p + 1) = E[1 + 1] /\ At(p + 2) = E[2 + 1] /\ At(p + 3) = E[3 + 1]
    BY <1>7, <2>1
  <2>3. p + 0 = p
    BY <1>6, <1>p
  <2>4. At(p) = E[1] /\ At(p + 1) = E[2] /\ At(p + 2) = E[3] /\ At(p + 3) = E[4]
    BY <2>2, <2>3
  <2>5. E[1] = five[1] /\ E[2] = five[2] /\ E[3] = five[3] /\ E[4] = five[4]
    BY <1>5
  <2> QED BY <1>3, <2>4, <2>5
<1>9. Size = p + 5 + cl /\ p \in Nat
  BY <1>1, <1>2, <1>5, <1>6, <1>p
<1>10. p \in EndPlaces
  BY <1>2, <1>8, <1>9 DEF EndPlaces, EndSize
<1>11. ASSUME NEW i \in EndPlaces PROVE i <= p
  <2>1. i \in 0 .. (p + cl) /\ At(i) = SigEnd
    BY <1>2, <1>9 DEF EndPlaces, EndSize
  <2> SUFFICES ASSUME i > p PROVE FALSE
    BY <1>9, <2>1
  <2> DEFINE j == i - p
  <2>2. j \in 0 .. (4 + cl) /\ p + j = i /\ j + 1 \in 2 .. (cl + 1)
    BY <1>2, <1>9, <2>1
  <2> HIDE DEF j
  <2>3. At(i) = E[j + 1]
    BY <1>7, <2>2
  <2> QED BY <1>2, <2>1, <2>2, <2>3
<1>12. EndAt = p
  <2> DEFINE x == CHOOSE i \in EndPlaces : \A j \in EndPlaces : j <= i
  <2>1. x \in EndPlaces /\ \A j \in EndPlaces : j <= x
    BY <1>10, <1>11
  <2>2. EndAt = x
    BY <1>10 DEF EndAt
  <2> HIDE DEF x
  <2>3. x <= p /\ p <= x
    BY <1>10, <1>11, <2>1
  <2>4. x \in Int
    BY <2>1 DEF EndPlaces
  <2> QED BY <1>9, <2>2, <2>3, <2>4
<1> QED
  BY <1>6, <1>8, <1>12, <1>p DEF ECount, ECdSize, ECdOffset, dl, ll

(* The entries of an archive, and those of its last members.                *)
EntryOf(ms, i) == Read(ms[i], Offset(ms, i))
EntriesOf(ms) == [i \in DOMAIN ms |-> EntryOf(ms, i)]
LastOf(ms, k) == [j \in 1 .. k |-> EntryOf(ms, Len(ms) - k + j)]
Locked(ms, k) == \E i \in (Len(ms) - k + 1) .. Len(ms) : ms[i].flags % 2 = Encrypted

(* What a member is found as is an entry.                                   *)
LEMMA EntriesAre ==
  ASSUME NEW ms \in Archives, NEW c \in Comments, units = ZipOf(ms, c)
  PROVE  \A i \in 1 .. Len(ms) : EntryOf(ms, i) \in Entry
<1>1. ASSUME NEW m \in Member, NEW o \in Nat, Whole(m, o) PROVE Read(m, o) \in Entry
  <2>1. m.name \in Bytes /\ m.method \in Nat
    BY DEF Member
  <2> QED BY <1>1, <2>1, MemberUnits DEF Read, Entry, Whole
<1> QED BY <1>1, MembersWhole DEF EntryOf

(* One entry before the last ones.                                          *)
LEMMA LastGrows ==
  ASSUME NEW ms \in Seq(Member), NEW k \in 1 .. Len(ms),
         \A i \in 1 .. Len(ms) : EntryOf(ms, i) \in Entry
  PROVE  /\ LastOf(ms, k - 1) \in Seq(Entry)
         /\ <<EntryOf(ms, Len(ms) - k + 1)>> \o LastOf(ms, k - 1) = LastOf(ms, k)
<1> DEFINE n == Len(ms)
           one == <<EntryOf(ms, n - k + 1)>>
           rest == LastOf(ms, k - 1)
           all == LastOf(ms, k)
           both == one \o rest
<1>1. n \in Nat /\ k \in Nat /\ k - 1 \in Nat /\ k <= n
  BY LenProperties
<1>2. ASSUME NEW q \in 0 .. n
      PROVE  /\ LastOf(ms, q) \in Seq(Entry) /\ Len(LastOf(ms, q)) = q
             /\ \A j \in 1 .. q : LastOf(ms, q)[j] = EntryOf(ms, n - q + j)
  <2> DEFINE s == LastOf(ms, q)
  <2>1. s = [j \in 1 .. q |-> EntryOf(ms, n - q + j)]
    BY DEF LastOf
  <2>2. \A j \in 1 .. q : n - q + j \in 1 .. n
    BY <1>1
  <2>3. \A j \in 1 .. q : EntryOf(ms, n - q + j) \in Entry
    BY <2>2
  <2> HIDE DEF s, n
  <2>4. s \in Seq(Entry) /\ q \in Nat
    BY <1>1, <2>1, <2>3, IsASeq
  <2>5. DOMAIN s = 1 .. q /\ DOMAIN s = 1 .. Len(s) /\ Len(s) \in Nat
    BY <2>1, <2>4, LenProperties
  <2>6. Len(s) = q
    BY <2>4, <2>5, SameUpTo
  <2>7. \A j \in 1 .. q : s[j] = EntryOf(ms, n - q + j)
    BY <2>1
  <2> QED BY <2>4, <2>6, <2>7 DEF s
<1>3. k \in 0 .. n /\ k - 1 \in 0 .. n /\ n - k + 1 \in 1 .. n
  BY <1>1
<1>4. /\ rest \in Seq(Entry) /\ Len(rest) = k - 1
      /\ \A j \in 1 .. (k - 1) : rest[j] = EntryOf(ms, n - (k - 1) + j)
  BY <1>2, <1>3
<1>5. all \in Seq(Entry) /\ Len(all) = k /\ \A j \in 1 .. k : all[j] = EntryOf(ms, n - k + j)
  BY <1>2, <1>3
<1>6. one \in Seq(Entry) /\ Len(one) = 1 /\ one[1] = EntryOf(ms, n - k + 1)
  BY <1>3
<1> HIDE DEF one, rest, all, n
<1>7. /\ both \in Seq(Entry) /\ Len(both) = 1 + (k - 1)
      /\ \A j \in 1 .. (1 + (k - 1)) : both[j] = IF j <= 1 THEN one[j] ELSE rest[j - 1]
  <2>1. /\ both \in Seq(Entry) /\ Len(both) = Len(one) + Len(rest)
        /\ \A j \in 1 .. Len(one) + Len(rest) :
             both[j] = IF j <= Len(one) THEN one[j] ELSE rest[j - Len(one)]
    BY <1>4, <1>6, ConcatProperties
  <2> HIDE DEF both
  <2> QED BY <1>4, <1>6, <2>1, Zenon
<1>8. ASSUME NEW j \in 1 .. k PROVE both[j] = all[j]
  <2> HIDE DEF both
  <2>1. 1 + (k - 1) = k
    BY <1>1
  <2>2. both[j] = IF j <= 1 THEN one[j] ELSE rest[j - 1]
    BY <1>7, <2>1
  <2>3. CASE j <= 1
    <3>1. j = 1
      BY <2>3
    <3> QED BY <1>5, <1>6, <2>2, <2>3, <3>1
  <2>4. CASE ~(j <= 1)
    <3> DEFINE i == j - 1
    <3>1. i \in 1 .. (k - 1) /\ n - (k - 1) + i = n - k + j
      BY <1>1, <2>4
    <3> HIDE DEF i
    <3>2. rest[i] = EntryOf(ms, n - k + j)
      BY <1>4, <3>1
    <3> QED BY <1>5, <2>2, <2>4, <3>2 DEF i
  <2> QED BY <2>3, <2>4
<1>9. both = all
  <2> HIDE DEF both
  <2>1. Len(both) = k
    BY <1>1, <1>7
  <2>2. both \in [1 .. k -> Entry] /\ all \in [1 .. k -> Entry]
    BY <1>5, <1>7, <2>1, LenProperties
  <2> QED BY <1>8, <2>2
<1> QED BY <1>4, <1>9 DEF one, rest, all, n

(* All of its entries, unless one of its members is encrypted.              *)
LEMMA WholeOpens ==
  ASSUME NEW ms \in Archives, NEW c \in Comments, units = ZipOf(ms, c)
  PROVE  /\ EntriesOf(ms) \in Seq(Entry)
         /\ ZipOpen = IF \E i \in DOMAIN ms : ms[i].flags % 2 = Encrypted
                      THEN Nothing ELSE EntriesOf(ms)
<1> DEFINE n == Len(ms)
           at == Len(Locals(ms))
           e == at + Len(Directory(ms))
<1>1. ms \in Seq(Member) /\ n \in Nat /\ DOMAIN ms = 1 .. n
  <2>1. ms \in Seq(Member)
    BY ArchiveAssumption
  <2> QED BY <2>1, LenProperties
<1>2. Laid(ms, c)
  BY ZipIsLaid
<1>3. /\ units \in Seq(Nat) /\ units \in Bytes /\ Size \in Nat
      /\ at \in Nat /\ Len(Directory(ms)) \in Nat /\ e <= Size
  <2>1. /\ units \in Seq(Nat) /\ at \in Nat /\ Len(Directory(ms)) \in Nat
        /\ EndRecord(ms, c) \in Seq(Nat) /\ Holds(units, e, EndRecord(ms, c))
    BY <1>2 DEF Laid
  <2>2. e \in Nat
    BY <2>1
  <2> HIDE DEF e, at
  <2>3. e + Len(EndRecord(ms, c)) <= Size /\ Size \in Nat /\ Len(EndRecord(ms, c)) \in Nat
    BY <2>1, <2>2, UnitHeld, LenProperties
  <2> QED BY <2>1, <2>2, <2>3 DEF Bytes
<1>4. EndAt = e /\ At(e + ECount) = n /\ At(e + ECdSize) = Len(Directory(ms)) /\ At(e + ECdOffset) = at
  BY EndFound
<1>5. n # CountMarker /\ Size < Marker /\ Marker \in Nat
  BY WrittenAssumption, ArchiveAssumption DEF Size
<1>6. e # Nothing /\ Len(Directory(ms)) # Marker /\ at # Marker /\ Inside(at, Len(Directory(ms)))
  <2>1. e \in Nat
    BY <1>3
  <2>2. e # Nothing
    <3> HIDE DEF e
    <3> QED BY <2>1, WrittenAssumption
  <2>3. Len(Directory(ms)) # Marker /\ at # Marker /\ Inside(at, Len(Directory(ms)))
    <3> DEFINE d == Len(Directory(ms))
    <3>1. d \in Nat /\ at \in Nat /\ at + d <= Size /\ Size \in Nat /\ Size < Marker /\ Marker \in Nat
      BY <1>3, <1>5
    <3> HIDE DEF d, at
    <3>2. d # Marker /\ at # Marker /\ Inside(at, d)
      BY <3>1 DEF Inside
    <3> QED BY <3>2 DEF d
  <2> QED BY <2>2, <2>3
<1>7. ZipOpen = ReadHeaders(at, n)
  <2> HIDE DEF e, at, n
  <2> QED BY <1>4, <1>5, <1>6 DEF ZipOpen
<1>8. at \in 0 .. Size
  <2> DEFINE d == Len(Directory(ms))
  <2>1. d \in Nat /\ at \in Nat /\ at + d <= Size /\ Size \in Nat
    BY <1>3
  <2> HIDE DEF d, at
  <2> QED BY <2>1
<1> HIDE DEF at, e
<1>9. PICK h \in [0 .. n -> [0 .. Size -> {Nothing} \cup Seq(Good)]] :
            /\ ReadHeaders(at, n) = h[n][at]
            /\ \A p \in 0 .. Size : h[0][p] = <<>>
            /\ \A k \in 1 .. n : \A p \in 0 .. Size : h[k][p] = OneMore(h[k - 1], p)
  BY <1>1, <1>3, <1>8, HeadersFollow
<1>10. ASSUME NEW i \in 1 .. n
       PROVE  LET p == HeaderAt(ms, i)
              IN /\ p \in 0 .. Size /\ p + HeaderSize(p) = HeaderAt(ms, i + 1)
                 /\ HeaderAt(ms, i + 1) \in 0 .. Size
                 /\ EntryAt(p) = IF ms[i].flags % 2 = Encrypted THEN Nothing ELSE EntryOf(ms, i)
  <2> DEFINE p == HeaderAt(ms, i)
  <2>1. /\ p \in Nat /\ Holds(units, p, Header(ms, i))
        /\ HeaderAt(ms, i + 1) = p + Len(Header(ms, i))
    <3>1. i \in 1 .. (n + 1)
      BY <1>1
    <3> QED BY <1>2, <3>1 DEF Laid
  <2>2. ms[i] \in Member /\ Offset(ms, i) \in Nat /\ Whole(ms[i], Offset(ms, i))
    BY MembersWhole
  <2>3. /\ EntryAt(p) = IF ms[i].flags % 2 = Encrypted THEN Nothing ELSE Read(ms[i], Offset(ms, i))
        /\ p + HeaderSize(p) = p + Len(CentralRecord(ms[i], Offset(ms, i)))
        /\ p \in 0 .. Size /\ p + HeaderSize(p) \in 0 .. Size
    <3> HIDE DEF p
    <3>1. Holds(units, p, CentralRecord(ms[i], Offset(ms, i)))
      BY <2>1 DEF Header
    <3> QED BY <1>3, <2>1, <2>2, <3>1, HeaderRead
  <2> HIDE DEF p
  <2>4. p + HeaderSize(p) = HeaderAt(ms, i + 1)
    BY <2>1, <2>3 DEF Header
  <2>5. EntryAt(p) = IF ms[i].flags % 2 = Encrypted THEN Nothing ELSE EntryOf(ms, i)
    BY <2>3 DEF EntryOf
  <2> QED BY <2>3, <2>4, <2>5 DEF p
<1>11. \A i \in 1 .. n : EntryOf(ms, i) \in Entry
  BY EntriesAre
<1> DEFINE From(k) == HeaderAt(ms, n - k + 1)
           P == {k \in 0 .. n : h[k][From(k)] = IF Locked(ms, k) THEN Nothing ELSE LastOf(ms, k)}
<1>12. 0 \in P
  <2>1. From(0) \in 0 .. Size
    <3>1. n - 0 + 1 = n + 1
      BY <1>1
    <3>2. HeaderAt(ms, n + 1) = at + Len(Directory(ms))
      BY <1>2 DEF Laid, at
    <3>3. at + Len(Directory(ms)) \in 0 .. Size
      <4> DEFINE d == Len(Directory(ms))
      <4>1. d \in Nat /\ at \in Nat /\ at + d <= Size /\ Size \in Nat
        BY <1>3 DEF e, at
      <4> HIDE DEF d
      <4>2. at + d \in 0 .. Size
        BY <4>1
      <4> QED BY <4>2 DEF d
    <3> QED BY <3>1, <3>2, <3>3
  <2>2. ~Locked(ms, 0)
    <3>1. (n - 0 + 1) .. n = {}
      BY <1>1
    <3> QED BY <3>1 DEF Locked
  <2>3. LastOf(ms, 0) = <<>>
    <3>1. 0 \in 0 .. n
      BY <1>1
    <3>2. 1 .. 0 = {}
      OBVIOUS
    <3> QED BY <3>2 DEF LastOf
  <2>4. h[0][From(0)] = <<>> /\ 0 \in 0 .. n
    BY <1>1, <1>9, <2>1
  <2> HIDE DEF From
  <2> QED BY <2>2, <2>3, <2>4
<1>13. ASSUME NEW k \in 1 .. n, k - 1 \in P PROVE k \in P
  <2> DEFINE i == n - k + 1
             p == HeaderAt(ms, i)
  <2>1. i \in 1 .. n /\ n - (k - 1) + 1 = i + 1 /\ k \in 0 .. n
    BY <1>1
  <2>2. /\ p \in 0 .. Size /\ p + HeaderSize(p) = HeaderAt(ms, i + 1)
        /\ HeaderAt(ms, i + 1) \in 0 .. Size
        /\ EntryAt(p) = IF ms[i].flags % 2 = Encrypted THEN Nothing ELSE EntryOf(ms, i)
    BY <1>10, <2>1
  <2>3. From(k) = p /\ From(k - 1) = HeaderAt(ms, i + 1)
    BY <2>1
  <2>4. h[k - 1][From(k - 1)] = IF Locked(ms, k - 1) THEN Nothing ELSE LastOf(ms, k - 1)
    BY <1>13
  <2>5. /\ LastOf(ms, k - 1) \in Seq(Entry)
        /\ <<EntryOf(ms, i)>> \o LastOf(ms, k - 1) = LastOf(ms, k)
    BY <1>1, <1>11, LastGrows
  <2>6. Locked(ms, k) <=> ms[i].flags % 2 = Encrypted \/ Locked(ms, k - 1)
    <3>1. i .. n = {i} \cup ((i + 1) .. n)
      BY <1>1, <2>1
    <3>2. /\ Locked(ms, k) <=> \E j \in i .. n : ms[j].flags % 2 = Encrypted
          /\ Locked(ms, k - 1) <=> \E j \in (i + 1) .. n : ms[j].flags % 2 = Encrypted
      BY <2>1 DEF Locked
    <3> HIDE DEF i
    <3> QED BY <3>1, <3>2
  <2>7. EntryOf(ms, i) # Nothing /\ LastOf(ms, k - 1) # Nothing
    <3>1. EntryOf(ms, i) \in Entry
      BY <1>11, <2>1
    <3> QED BY <2>5, <3>1, WrittenAssumption
  <2> HIDE DEF i, p, From
  <2>8. h[k][p] = OneMore(h[k - 1], p)
    BY <1>9, <2>2
  <2>9. h[k - 1][p + HeaderSize(p)] = IF Locked(ms, k - 1) THEN Nothing ELSE LastOf(ms, k - 1)
    BY <2>2, <2>3, <2>4
  <2>10. h[k][p] = (IF EntryAt(p) = Nothing THEN Nothing
                    ELSE IF h[k - 1][p + HeaderSize(p)] = Nothing THEN Nothing
                    ELSE <<EntryAt(p)>> \o h[k - 1][p + HeaderSize(p)])
    BY <2>8 DEF OneMore
  <2> DEFINE g == h[k - 1][p + HeaderSize(p)]
             x == EntryAt(p)
             y == EntryOf(ms, i)
             last0 == LastOf(ms, k - 1)
             lock == ms[i].flags % 2 = Encrypted
  <2>11. /\ h[k][p] = IF x = Nothing THEN Nothing ELSE IF g = Nothing THEN Nothing ELSE <<x>> \o g
         /\ g = IF Locked(ms, k - 1) THEN Nothing ELSE last0
         /\ x = IF lock THEN Nothing ELSE y
         /\ y # Nothing /\ last0 # Nothing /\ <<y>> \o last0 = LastOf(ms, k)
         /\ Locked(ms, k) <=> (lock \/ Locked(ms, k - 1))
    BY <2>2, <2>5, <2>6, <2>7, <2>9, <2>10
  <2> HIDE DEF g, x, y, last0, lock
  <2>12. h[k][p] = IF Locked(ms, k) THEN Nothing ELSE LastOf(ms, k)
    <3>1. CASE lock
      BY <2>11, <3>1
    <3>2. CASE ~lock /\ Locked(ms, k - 1)
      BY <2>11, <3>2
    <3>3. CASE ~lock /\ ~Locked(ms, k - 1)
      <4>1. x = y /\ g = last0 /\ ~Locked(ms, k)
        BY <2>11, <3>3
      <4>2. h[k][p] = <<y>> \o last0
        BY <2>11, <4>1
      <4> QED BY <2>11, <4>1, <4>2
    <3> QED BY <3>1, <3>2, <3>3
  <2>13. h[k][From(k)] = IF Locked(ms, k) THEN Nothing ELSE LastOf(ms, k)
    BY <2>3, <2>12
  <2> QED BY <2>1, <2>13
<1>14. 0 .. n \subseteq P
  <2> HIDE DEF P
  <2> QED BY <1>1, <1>12, <1>13, Upward
<1>15. n \in P /\ n - n + 1 = 1
  BY <1>1, <1>14
<1>16. HeaderAt(ms, 1) = at
  BY <1>2 DEF Laid, at
<1>17. h[n][at] = IF Locked(ms, n) THEN Nothing ELSE LastOf(ms, n)
  BY <1>15, <1>16
<1>18. Locked(ms, n) <=> \E i \in DOMAIN ms : ms[i].flags % 2 = Encrypted
  BY <1>1, <1>15 DEF Locked
<1>19. LastOf(ms, n) = EntriesOf(ms)
  <2>1. \A j \in 1 .. n : n - n + j = j
    BY <1>1
  <2>2. LastOf(ms, n) = [j \in 1 .. n |-> EntryOf(ms, n - n + j)]
    BY DEF LastOf
  <2>3. EntriesOf(ms) = [j \in 1 .. n |-> EntryOf(ms, j)]
    BY <1>1 DEF EntriesOf
  <2> QED BY <2>1, <2>2, <2>3
<1>20. EntriesOf(ms) \in Seq(Entry)
  <2>1. EntriesOf(ms) = [j \in 1 .. n |-> EntryOf(ms, j)]
    BY <1>1 DEF EntriesOf
  <2> HIDE DEF n
  <2> QED BY <1>1, <1>11, <2>1, IsASeq
<1> QED BY <1>7, <1>9, <1>17, <1>18, <1>19, <1>20

(***************************************************************************)
(* A stream that is whole is unpacked to what it was made of.               *)
(***************************************************************************)
(* gz_extract steps over the fields the flags tell of, to the data.         *)
LEMMA StreamRead ==
  ASSUME NEW s \in Streams
  PROVE  GzExtract(Gzip(s)) = s.data /\ s.data \in Seq(Nat) /\ IsGzip(Gzip(s))
<1> DEFINE W == Gzip(s)
           first == <<Magic, Deflated, s.flags>>
           x == IF s.extra # Nothing THEN <<Len(s.extra)>> \o s.extra ELSE <<>>
           y == IF s.name # Nothing THEN s.name \o <<0>> ELSE <<>>
           b == Packed(s.data)
           t == <<Checksum(s.data), Len(s.data)>>
           a1 == first \o x
           a2 == a1 \o y
           a3 == a2 \o b
           n == Len(W)
<1>1. /\ s.flags \in Nat /\ s.data \in Seq(Nat) /\ Magic \in Nat /\ Checksum(s.data) \in Nat
      /\ s.extra # Nothing => s.extra \in Seq(Nat)
      /\ s.name # Nothing => s.name \in Seq(Nat)
  BY ArchiveAssumption DEF Stream, Bytes
<1>2. /\ s.flags < 32 /\ ~HasFlag(s.flags, FlagHcrc) /\ ~HasFlag(s.flags, FlagComment)
      /\ HasFlag(s.flags, FlagExtra) <=> s.extra # Nothing
      /\ HasFlag(s.flags, FlagName) <=> s.name # Nothing
      /\ s.name # Nothing => \A i \in DOMAIN s.name : s.name[i] # 0
  BY WrittenAssumption
<1>3. /\ first \in Seq(Nat) /\ Len(first) = 3
      /\ first[1] = Magic /\ first[2] = Deflated /\ first[3] = s.flags
  BY <1>1 DEF Deflated
<1>4. /\ t \in Seq(Nat) /\ Len(t) = 2 /\ t[1] = Checksum(s.data) /\ t[2] = Len(s.data)
      /\ Len(s.data) \in Nat
  <2>1. Len(s.data) \in Nat
    BY <1>1, LenProperties
  <2> QED BY <1>1, <2>1
<1>5. b \in Seq(Nat) /\ Unpacked(b, Len(s.data)) = s.data
  BY <1>1, UnpackedAgain
<1>6. x \in Seq(Nat) /\ (s.extra # Nothing => x[1] = Len(s.extra) /\ Len(x) = 1 + Len(s.extra)
                                              /\ Len(s.extra) \in Nat)
  <2>1. CASE s.extra # Nothing
    <3> DEFINE one == <<Len(s.extra)>>
    <3>1. one \in Seq(Nat) /\ Len(one) = 1 /\ one[1] = Len(s.extra) /\ Len(s.extra) \in Nat
      BY <1>1, <2>1, LenProperties
    <3>2. x = one \o s.extra
      BY <2>1
    <3> HIDE DEF one, x
    <3>3. /\ one \o s.extra \in Seq(Nat) /\ Len(one \o s.extra) = Len(one) + Len(s.extra)
          /\ \A k \in 1 .. Len(one) + Len(s.extra) :
               (one \o s.extra)[k] = IF k <= Len(one) THEN one[k] ELSE s.extra[k - Len(one)]
      BY <1>1, <2>1, <3>1, ConcatProperties
    <3>4. 1 \in 1 .. Len(one) + Len(s.extra) /\ 1 <= Len(one)
      BY <3>1
    <3>5. (one \o s.extra)[1] = one[1]
      BY <3>3, <3>4
    <3> QED BY <3>1, <3>2, <3>3, <3>5
  <2>2. CASE s.extra = Nothing
    BY <2>2, EmptySeq
  <2> QED BY <2>1, <2>2
<1>7. y \in Seq(Nat)
  <2>1. CASE s.name # Nothing
    <3>1. <<0>> \in Seq(Nat)
      OBVIOUS
    <3>2. s.name \o <<0>> \in Seq(Nat)
      BY <1>1, <2>1, <3>1, ConcatProperties
    <3> QED BY <2>1, <3>2
  <2> QED BY <2>1, EmptySeq
<1>8. W = a3 \o t
  BY DEF Gzip
<1> HIDE DEF W, first, x, y, b, t
<1>9. a1 \in Seq(Nat) /\ Len(a1) = 3 + Len(x) /\ Len(x) \in Nat /\ Len(a1) \in Nat
  <2>1. a1 \in Seq(Nat) /\ Len(a1) = Len(first) + Len(x) /\ Len(x) \in Nat
    BY <1>3, <1>6, ConcatProperties, LenProperties
  <2> HIDE DEF a1
  <2> QED BY <1>3, <2>1
<1> HIDE DEF a1
<1>10. a2 \in Seq(Nat) /\ Len(a2) = Len(a1) + Len(y) /\ Len(y) \in Nat /\ Len(a2) \in Nat
  BY <1>7, <1>9, ConcatProperties, LenProperties
<1> HIDE DEF a2
<1>11. a3 \in Seq(Nat) /\ Len(a3) = Len(a2) + Len(b) /\ Len(b) \in Nat /\ Len(a3) \in Nat
  BY <1>5, <1>10, ConcatProperties, LenProperties
<1> HIDE DEF a3
<1>12. W \in Seq(Nat) /\ n = Len(a3) + 2 /\ n \in Nat
  <2>1. a3 \o t \in Seq(Nat) /\ Len(a3 \o t) = Len(a3) + Len(t)
    BY <1>4, <1>11, ConcatProperties
  <2> QED BY <1>4, <1>8, <1>11, <2>1
<1>13. Holds(W, 0, W)
  <2>1. \A k \in 1 .. n : 0 + k = k
    OBVIOUS
  <2> HIDE DEF n
  <2>2. 0 + n <= n
    BY <1>12
  <2> QED BY <2>1, <2>2 DEF Holds, n
<1>14. Holds(W, 0, a3) /\ Holds(W, Len(a3), t)
  <2>1. Holds(W, 0, a3) /\ Holds(W, 0 + Len(a3), t)
    <3>1. Holds(W, 0, a3 \o t) /\ 0 \in Nat
      BY <1>8, <1>13
    <3> QED BY <1>4, <1>11, <1>12, <3>1, UnitsOfBoth
  <2>2. 0 + Len(a3) = Len(a3)
    BY <1>11
  <2> QED BY <2>1, <2>2
<1>15. Holds(W, 0, a2) /\ Holds(W, Len(a2), b)
  <2>1. Holds(W, 0, a2) /\ Holds(W, 0 + Len(a2), b)
    <3>1. Holds(W, 0, a2 \o b) /\ 0 \in Nat
      BY <1>14 DEF a3
    <3> QED BY <1>5, <1>10, <1>12, <3>1, UnitsOfBoth
  <2>2. 0 + Len(a2) = Len(a2)
    BY <1>10
  <2> QED BY <2>1, <2>2
<1>16. Holds(W, 0, a1) /\ Holds(W, Len(a1), y)
  <2>1. Holds(W, 0, a1) /\ Holds(W, 0 + Len(a1), y)
    <3>1. Holds(W, 0, a1 \o y) /\ 0 \in Nat
      BY <1>15 DEF a2
    <3> QED BY <1>7, <1>9, <1>12, <3>1, UnitsOfBoth
  <2>2. 0 + Len(a1) = Len(a1)
    BY <1>9
  <2> QED BY <2>1, <2>2
<1>17. Holds(W, 0, first) /\ Holds(W, 3, x)
  <2>1. Holds(W, 0, first) /\ Holds(W, 0 + Len(first), x)
    <3>1. Holds(W, 0, first \o x) /\ 0 \in Nat
      BY <1>16 DEF a1
    <3> QED BY <1>3, <1>6, <1>12, <3>1, UnitsOfBoth
  <2> QED BY <1>3, <2>1
<1>18. W[1] = Magic /\ W[2] = Deflated /\ W[3] = s.flags
  <2>1. \A k \in 1 .. Len(first) : W[0 + k] = first[k]
    BY <1>3, <1>12, <1>17, PieceHeld
  <2>2. W[0 + 1] = first[1] /\ W[0 + 2] = first[2] /\ W[0 + 3] = first[3]
    BY <1>3, <2>1
  <2> QED BY <1>3, <2>2
<1>19. W[n - 1] = Checksum(s.data) /\ W[n] = Len(s.data)
  <2>1. \A k \in 1 .. Len(t) : W[Len(a3) + k] = t[k]
    BY <1>4, <1>11, <1>12, <1>14, PieceHeld
  <2>2. W[Len(a3) + 1] = t[1] /\ W[Len(a3) + 2] = t[2]
    BY <1>4, <2>1
  <2>3. Len(a3) + 1 = n - 1 /\ Len(a3) + 2 = n
    BY <1>11, <1>12
  <2> QED BY <1>4, <2>2, <2>3
<1>20. SubSeq(W, Len(a2) + 1, n - GzTrailer) = b
  <2>1. SubSeq(W, Len(a2) + 1, Len(a2) + Len(b)) = b
    BY <1>5, <1>10, <1>12, <1>15, PieceHeld
  <2>2. n - GzTrailer = Len(a2) + Len(b)
    BY <1>10, <1>11, <1>12 DEF GzTrailer
  <2> QED BY <2>1, <2>2
<1> DEFINE extra == IF ~HasFlag(W[3], FlagExtra) THEN GzHeader
                    ELSE IF GzHeader + 1 > Len(W) THEN Len(W) + 1
                    ELSE GzHeader + 1 + W[GzHeader + 1]
           name == IF HasFlag(W[3], FlagName) THEN SkipString(W, extra) ELSE extra
           comment == IF HasFlag(W[3], FlagComment) THEN SkipString(W, name) ELSE name
<1>21. extra = Len(a1)
  <2>1. CASE s.extra = Nothing
    <3>1. Len(x) = 0
      BY <2>1, EmptySeq DEF x
    <3>2. extra = 3
      BY <1>2, <1>18, <2>1 DEF GzHeader
    <3> QED BY <1>9, <3>1, <3>2
  <2>2. CASE s.extra # Nothing
    <3> DEFINE l == Len(s.extra)
    <3>1. Len(x) = 1 + l /\ l \in Nat /\ x[1] = l
      BY <1>6, <2>2
    <3> HIDE DEF l
    <3>2. 3 + Len(x) <= n /\ \A k \in 1 .. Len(x) : W[3 + k] = x[k]
      BY <1>6, <1>12, <1>17, PieceHeld
    <3>3. 1 \in 1 .. Len(x) /\ ~(3 + 1 > n)
      BY <1>12, <3>1, <3>2
    <3>4. W[3 + 1] = l
      BY <3>1, <3>2, <3>3
    <3>5. HasFlag(W[3], FlagExtra)
      BY <1>2, <1>18, <2>2
    <3>6. extra = 3 + 1 + l
      BY <3>3, <3>4, <3>5 DEF GzHeader
    <3> HIDE DEF extra
    <3> QED BY <1>9, <3>1, <3>6
  <2> QED BY <2>1, <2>2
<1> HIDE DEF extra
<1>22. name = Len(a2)
  <2>1. CASE s.name = Nothing
    <3>1. Len(y) = 0
      BY <2>1, EmptySeq DEF y
    <3>2. name = extra
      BY <1>2, <1>18, <2>1
    <3> HIDE DEF name
    <3> QED BY <1>9, <1>10, <1>21, <3>1, <3>2
  <2>2. CASE s.name # Nothing
    <3> DEFINE l == Len(s.name)
               p == Len(a1)
               zero == <<0>>
    <3>1. s.name \in Seq(Nat) /\ l \in Nat /\ DOMAIN s.name = 1 .. l
      BY <1>1, <2>2, LenProperties
    <3>2. zero \in Seq(Nat) /\ Len(zero) = 1 /\ zero[1] = 0
      OBVIOUS
    <3>3. y = s.name \o zero
      BY <2>2 DEF y
    <3>4. p \in Nat /\ Holds(W, p, s.name \o zero)
      BY <1>9, <1>16, <3>3
    <3> HIDE DEF l, p, zero
    <3>5. Holds(W, p, s.name) /\ Holds(W, p + l, zero) /\ Len(y) = l + Len(zero)
      <4>1. /\ Holds(W, p, s.name) /\ Holds(W, p + Len(s.name), zero)
            /\ Len(s.name \o zero) = Len(s.name) + Len(zero)
        <5> DEFINE nm == s.name
        <5>1. nm \in Seq(Nat) /\ zero \in Seq(Nat) /\ W \in Seq(Nat) /\ p \in Nat
              /\ Holds(W, p, nm \o zero)
          BY <1>12, <3>1, <3>2, <3>4
        <5> HIDE DEF nm
        <5>2. /\ Holds(W, p, nm) /\ Holds(W, p + Len(nm), zero)
              /\ Len(nm \o zero) = Len(nm) + Len(zero)
          BY <5>1, UnitsOfBoth
        <5> QED BY <5>2 DEF nm
      <4> QED BY <3>3, <4>1 DEF l
    <3>6. \A k \in 1 .. l : W[p + k] = s.name[k]
      BY <1>12, <3>1, <3>4, <3>5, PieceHeld DEF l
    <3>7. W[p + l + 1] = 0 /\ p + l + 1 <= n
      <4> DEFINE q == p + l
      <4>1. q \in Nat /\ Holds(W, q, zero)
        BY <3>1, <3>4, <3>5
      <4> HIDE DEF q
      <4>2. q + Len(zero) <= n /\ \A k \in 1 .. Len(zero) : W[q + k] = zero[k]
        BY <1>12, <3>2, <4>1, PieceHeld
      <4>3. q + 1 <= n /\ W[q + 1] = 0
        BY <3>2, <4>2
      <4> QED BY <4>3 DEF q
    <3> DEFINE zeros == {i \in p .. (n - 1) : W[i + 1] = 0}
               at == CHOOSE i \in zeros : \A j \in zeros : i <= j
    <3>8. p + l \in zeros
      BY <1>12, <3>1, <3>4, <3>7
    <3>9. ASSUME NEW i \in zeros PROVE p + l <= i
      <4>1. i \in p .. (n - 1) /\ W[i + 1] = 0
        OBVIOUS
      <4> SUFFICES ASSUME i < p + l PROVE FALSE
        BY <1>12, <3>1, <3>4, <4>1
      <4> DEFINE k == i - p + 1
      <4>2. k \in 1 .. l /\ p + k = i + 1
        BY <1>12, <3>1, <3>4, <4>1
      <4> HIDE DEF k
      <4>3. s.name[k] = 0
        BY <3>6, <4>1, <4>2
      <4>4. s.name[k] # 0
        BY <1>2, <2>2, <3>1, <4>2
      <4> QED BY <4>3, <4>4
    <3>10. at = p + l
      <4>1. \E i \in zeros : \A j \in zeros : i <= j
        BY <3>8, <3>9
      <4>2. at \in zeros /\ \A j \in zeros : at <= j
        BY <4>1
      <4>3. at \in Int
        BY <1>12, <3>4, <4>2
      <4> HIDE DEF at
      <4>4. at <= p + l /\ p + l <= at
        BY <3>8, <3>9, <4>2
      <4> QED BY <3>1, <3>4, <4>3, <4>4
    <3>11. SkipString(W, p) = at + 1
      <4>1. SkipString(W, p) = IF zeros = {} THEN Len(W) + 1 ELSE at + 1
        BY DEF SkipString
      <4> HIDE DEF at
      <4> QED BY <3>8, <4>1
    <3>12. name = SkipString(W, p)
      BY <1>2, <1>18, <1>21, <2>2 DEF p
    <3> HIDE DEF name, at, zeros
    <3>13. name = p + l + 1
      BY <3>10, <3>11, <3>12
    <3>14. Len(a2) = p + Len(y)
      BY <1>10 DEF p
    <3> QED BY <3>1, <3>2, <3>4, <3>5, <3>13, <3>14
  <2> QED BY <2>1, <2>2
<1> HIDE DEF name
<1>23. GzBody(W) = Len(a2)
  <2>1. GzBody(W) = IF HasFlag(W[3], FlagHcrc) THEN comment + 1 ELSE comment
    BY DEF GzBody, extra, name
  <2> QED BY <1>2, <1>18, <1>22, <2>1
<1> DEFINE from == GzBody(W)
           got == Unpacked(SubSeq(W, from + 1, n - GzTrailer), W[n])
<1>24. got = s.data
  BY <1>5, <1>19, <1>20, <1>23
<1>25. /\ ~(n < GzHeader + GzTrailer) /\ ~(from > n \/ n - from < GzTrailer)
  <2>1. Len(a2) >= 3 /\ Len(b) >= 0
    BY <1>9, <1>10, <1>11
  <2> HIDE DEF n
  <2> QED BY <1>10, <1>11, <1>12, <1>23, <2>1 DEF GzHeader, GzTrailer
<1>26. IsGzip(W)
  <2>1. W # <<>>
    BY <1>11, <1>12, EmptySeq
  <2> QED BY <1>18, <2>1 DEF IsGzip
<1>27. got # Nothing /\ Checked(got, W[n - 1])
  BY <1>1, <1>19, <1>24, WrittenAssumption DEF Checked, Bytes
<1>28. W[2] = Deflated /\ ~(W[3] >= 32)
  BY <1>1, <1>2, <1>18
<1>29. GzExtract(W) =
         (IF ~IsGzip(W) \/ n < GzHeader + GzTrailer THEN Nothing
          ELSE IF W[2] # Deflated \/ W[3] >= 32 THEN Nothing
          ELSE IF from > n \/ n - from < GzTrailer THEN Nothing
          ELSE IF got = Nothing THEN Nothing
          ELSE IF ~Checked(got, W[n - 1]) THEN Nothing ELSE got)
  BY DEF GzExtract
<1> HIDE DEF got, from, n
<1>30. GzExtract(W) = s.data
  BY <1>24, <1>25, <1>26, <1>27, <1>28, <1>29
<1> QED BY <1>1, <1>26, <1>30 DEF W

(***************************************************************************)
(* What is not damaged is read as it was packed.                            *)
(***************************************************************************)
(* Each member of a whole archive is read from its entry.                   *)
LEMMA EachIsRead ==
  ASSUME NEW ms \in Archives, NEW c \in Comments, units = ZipOf(ms, c), NEW i \in DOMAIN ms
  PROVE  /\ ZipRead(EntryOf(ms, i)) = ms[i].data /\ EntryOf(ms, i).name = ms[i].name
         /\ ms[i].data \in Bytes /\ ms[i].data # Nothing /\ EntryOf(ms, i) # Nothing
<1>1. i \in 1 .. Len(ms)
  <2>1. ms \in Seq(Member)
    BY ArchiveAssumption
  <2> QED BY <2>1, LenProperties
<1>2. ms[i] \in Member /\ Offset(ms, i) \in Nat
  BY <1>1, MembersWhole
<1>3. units \in Seq(Nat) /\ Holds(units, Offset(ms, i), LocalRecord(ms[i]))
  BY <1>1, ZipIsLaid DEF Laid
<1>4. ZipRead(EntryOf(ms, i)) = ms[i].data
  BY <1>2, <1>3, MemberRead DEF EntryOf
<1>5. ms[i].data \in Bytes /\ ms[i].data # Nothing
  BY <1>2, WrittenAssumption, MemberUnits
<1>6. EntryOf(ms, i) # Nothing
  BY <1>1, EntriesAre, WrittenAssumption
<1>7. EntryOf(ms, i).name = ms[i].name
  BY DEF EntryOf, Read
<1> QED BY <1>4, <1>5, <1>6, <1>7

(* The member a savefile is looked up as, and the first of them.            *)
Like(ms, i) == InRoot(ms[i].name) /\ StartsWith(ms[i].name, Wanted)
FirstLike(ms) ==
  CHOOSE i \in DOMAIN ms : Like(ms, i) /\ \A j \in 1 .. (i - 1) : ~Like(ms, j)

(* extract_save_bytes takes that one.                                       *)
LEMMA FirstIsFound ==
  ASSUME NEW ms \in Seq(Member), entries = EntriesOf(ms), \A i \in DOMAIN ms : EntryOf(ms, i) # Nothing
  PROVE  /\ ZipFindPrefix(Wanted) = Nothing => ~\E i \in DOMAIN ms : Like(ms, i)
         /\ ZipFindPrefix(Wanted) # Nothing =>
              /\ ZipFindPrefix(Wanted) = EntryOf(ms, FirstLike(ms))
              /\ FirstLike(ms) \in DOMAIN ms
<1> DEFINE n == Len(ms)
           found == {i \in DOMAIN ms : Like(ms, i)}
           first == CHOOSE i \in found : \A j \in found : i <= j
<1>1. n \in Nat /\ DOMAIN ms = 1 .. n /\ found \subseteq 1 .. n
  BY LenProperties
<1>2. /\ DOMAIN entries = DOMAIN ms
      /\ \A i \in DOMAIN ms : entries[i] = EntryOf(ms, i) /\ entries[i].name = ms[i].name
  BY DEF EntriesOf, EntryOf, Read
<1>3. {i \in DOMAIN entries : InRoot(entries[i].name) /\ StartsWith(entries[i].name, Wanted)} = found
  BY <1>2 DEF Like
<1>4. ZipFindPrefix(Wanted) = IF found = {} THEN Nothing ELSE entries[first]
  <2> DEFINE same ==
        {i \in DOMAIN entries : InRoot(entries[i].name) /\ StartsWith(entries[i].name, Wanted)}
  <2>1. ZipFindPrefix(Wanted) = FirstEntry(same) /\ same = found
    BY <1>3 DEF ZipFindPrefix
  <2> HIDE DEF same, found
  <2> QED BY <2>1 DEF FirstEntry
<1>5. CASE found = {}
  <2>1. ~\E i \in DOMAIN ms : Like(ms, i)
    BY <1>5
  <2> QED BY <1>4, <1>5, <2>1
<1>6. CASE found # {}
  <2>1. PICK m \in found : \A j \in found : m <= j
    <3> DEFINE back == {n - i : i \in found}
    <3>1. back \in SUBSET (0 .. n) /\ back # {}
      BY <1>1, <1>6
    <3>2. PICK b \in back : \A j \in back : j <= b
      <4> HIDE DEF back
      <4> QED BY <1>1, <3>1, Greatest
    <3>3. PICK m \in found : b = n - m
      BY <3>2
    <3>4. ASSUME NEW j \in found PROVE m <= j
      <4>1. n - j \in back
        OBVIOUS
      <4>2. n - j <= n - m
        BY <3>2, <3>3, <4>1
      <4>3. m \in 1 .. n /\ j \in 1 .. n
        BY <1>1
      <4> QED BY <1>1, <4>2, <4>3
    <3> QED BY <3>4
  <2>2. first \in found /\ \A j \in found : first <= j
    BY <2>1
  <2> DEFINE Is(i) == Like(ms, i) /\ \A j \in 1 .. (i - 1) : ~Like(ms, j)
  <2>3. ASSUME NEW i \in DOMAIN ms, Is(i) PROVE i = first
    <3> HIDE DEF first
    <3>1. i \in found /\ first <= i /\ i \in 1 .. n /\ first \in 1 .. n
      BY <1>1, <2>2, <2>3
    <3>2. first \in 1 .. (i - 1) => ~Like(ms, first)
      BY <2>3
    <3>3. Like(ms, first)
      BY <2>2
    <3>4. ~(first \in 1 .. (i - 1))
      BY <3>2, <3>3
    <3> QED BY <1>1, <3>1, <3>4
  <2>4. first \in DOMAIN ms /\ Is(first)
    <3> HIDE DEF first
    <3>1. first \in 1 .. n /\ Like(ms, first)
      BY <1>1, <2>2
    <3>2. ASSUME NEW j \in 1 .. (first - 1) PROVE ~Like(ms, j)
      <4>1. j \in 1 .. n /\ ~(first <= j)
        BY <1>1, <3>1
      <4> QED BY <1>1, <2>2, <4>1
    <3> QED BY <1>1, <3>1, <3>2
  <2> DEFINE f == CHOOSE i \in DOMAIN ms : Is(i)
  <2> HIDE DEF first
  <2>5. f = first
    <3>1. f \in DOMAIN ms /\ Is(f)
      <4> HIDE DEF Is
      <4> QED BY <2>4
    <3> HIDE DEF f, Is
    <3> QED BY <2>3, <3>1
  <2>6. FirstLike(ms) = first
    BY <2>5 DEF FirstLike
  <2>7. ZipFindPrefix(Wanted) = EntryOf(ms, first)
    BY <1>2, <1>4, <1>6, <2>4
  <2> QED BY <2>4, <2>6, <2>7
<1> QED BY <1>5, <1>6

(* The life of an archive that is whole, and that of a stream.              *)
FilesOf(ms) ==
  [i \in {j \in DOMAIN ms : ~IsDir(ms[j].name)} |-> [name |-> ms[i].name, data |-> ms[i].data]]
Refusable(ms) ==
  \/ \E i \in DOMAIN ms : ms[i].flags % 2 = Encrypted
  \/ \E i \in DOMAIN ms : ~NameIsSafe(ms[i].name)
  \/ ~\E i \in DOMAIN ms : Like(ms, i)
ArchiveLife(ms, c) ==
  /\ members = ms /\ units = ZipOf(ms, c)
  /\ stage \in {"packed", "spoilt", "opened", "found", "read", "all", "over", "refused"}
  /\ stage \in {"opened", "found"} => entries = EntriesOf(ms)
  /\ stage \in {"found", "read"} => FirstLike(ms) \in DOMAIN ms
  /\ stage = "found" => taken = EntryOf(ms, FirstLike(ms))
  /\ stage = "read" => taken = ms[FirstLike(ms)].data
  /\ stage = "all" => taken = FilesOf(ms)
  /\ stage = "over" => \E i \in DOMAIN ms : taken = GzExtract(ms[i].data)
  /\ stage = "refused" => Refusable(ms)
StreamLife(s) ==
  /\ members = <<s>> /\ units = Gzip(s) /\ stage \in {"packed", "spoilt", "over"}
  /\ stage = "over" => taken = s.data
WholeInv ==
  ~damaged => \/ \E ms \in Archives : \E c \in Comments : ArchiveLife(ms, c)
              \/ \E s \in Streams : StreamLife(s)

(* Which of the two it is shows in what it is made of.                      *)
LEMMA KindShows ==
  /\ \A ms \in Archives : \A c \in Comments : members = ms => IsArchive
  /\ \A s \in Streams : members = <<s>> => ~IsArchive
<1>1. ASSUME NEW ms \in Archives, NEW c \in Comments, members = ms PROVE IsArchive
  <2>1. ms \in Seq(Member) /\ ms # <<>>
    BY ArchiveAssumption, WrittenAssumption
  <2>2. 1 \in DOMAIN ms
    BY <2>1, LenProperties, EmptySeq
  <2>3. ms[1] \in Member
    BY <2>1, <2>2, ElementOfSeq, LenProperties
  <2>4. "method" \in DOMAIN ms[1]
    BY <2>3 DEF Member
  <2> QED BY <1>1, <2>1, <2>4 DEF IsArchive
<1>2. ASSUME NEW s \in Streams, members = <<s>> PROVE ~IsArchive
  <2>1. s \in Stream
    BY ArchiveAssumption
  <2>2. "method" \notin DOMAIN s
    BY <2>1 DEF Stream
  <2>3. members[1] = s
    BY <1>2
  <2> QED BY <2>2, <2>3 DEF IsArchive
<1> QED BY <1>1, <1>2

(* It says that what is read is what was packed.                            *)
LEMMA LifeIsWhole == WholeInv => (~damaged => ReadAsPacked)
<1> SUFFICES ASSUME WholeInv, ~damaged PROVE ReadAsPacked
  OBVIOUS
<1>1. ASSUME NEW ms \in Archives, NEW c \in Comments, ArchiveLife(ms, c) PROVE ReadAsPacked
  <2>1. members = ms /\ IsArchive
    BY <1>1, KindShows DEF ArchiveLife
  <2>2. FirstLike(ms) = CHOOSE i \in DOMAIN members : SaveLike(i) /\
                                 \A j \in 1 .. (i - 1) : ~SaveLike(j)
    BY <2>1 DEF FirstLike, SaveLike, Like
  <2>3. stage = "read" => /\ taken = members[FirstLike(ms)].data
                          /\ \E i \in DOMAIN members : taken = members[i].data
    BY <1>1, <2>1 DEF ArchiveLife
  <2>4. stage = "all" =>
          /\ taken = [i \in {j \in DOMAIN members : ~IsDir(members[j].name)} |->
                        [name |-> members[i].name, data |-> members[i].data]]
          /\ \A f \in DOMAIN taken : \E i \in DOMAIN members : taken[f].data = members[i].data
    <3> SUFFICES ASSUME stage = "all"
                 PROVE  /\ taken = FilesOf(members)
                        /\ \A f \in DOMAIN taken : \E i \in DOMAIN members :
                                                     taken[f].data = members[i].data
      BY DEF FilesOf
    <3>1. taken = FilesOf(members)
      BY <1>1, <2>1 DEF ArchiveLife
    <3>2. ASSUME NEW f \in DOMAIN taken PROVE f \in DOMAIN members /\ taken[f].data = members[f].data
      BY <3>1 DEF FilesOf
    <3> QED BY <3>1, <3>2
  <2>5. stage = "over" => \E i \in DOMAIN members : taken = GzExtract(members[i].data)
    BY <1>1, <2>1 DEF ArchiveLife
  <2>6. stage = "refused" =>
          \/ \E i \in DOMAIN members : members[i].flags % 2 = Encrypted
          \/ \E i \in DOMAIN members : ~NameIsSafe(members[i].name)
          \/ ~\E i \in DOMAIN members : SaveLike(i)
    BY <1>1, <2>1 DEF ArchiveLife, Refusable, SaveLike, Like
  <2> QED
    BY <2>1, <2>2, <2>3, <2>4, <2>5, <2>6 DEF ReadAsPacked
<1>2. ASSUME NEW s \in Streams, StreamLife(s) PROVE ReadAsPacked
  <2>1. members = <<s>> /\ ~IsArchive
    BY <1>2, KindShows DEF StreamLife
  <2>2. 1 \in DOMAIN members /\ members[1] = s
    BY <2>1
  <2>3. stage = "over" => \E i \in DOMAIN members : taken = members[i].data
    BY <1>2, <2>2 DEF StreamLife
  <2>4. stage \notin {"read", "all", "refused"}
    BY <1>2 DEF StreamLife
  <2> QED
    BY <2>1, <2>3, <2>4 DEF ReadAsPacked
<1> QED
  BY <1>1, <1>2 DEF WholeInv

(* It begins as either.                                                     *)
LEMMA WholeStarts == ArchiveInit => WholeInv
<1> SUFFICES ASSUME ArchiveInit PROVE WholeInv
  OBVIOUS
<1>1. ASSUME NEW ms \in Archives, NEW c \in Comments, members = ms, units = ZipOf(ms, c)
      PROVE  ArchiveLife(ms, c)
  BY <1>1 DEF ArchiveInit, ArchiveLife
<1>2. ASSUME NEW s \in Streams, members = <<s>>, units = Gzip(s) PROVE StreamLife(s)
  BY <1>2 DEF ArchiveInit, StreamLife
<1> QED
  BY <1>1, <1>2 DEF ArchiveInit, WholeInv

(* A whole archive goes on as one.                                          *)
LEMMA ArchiveGoesOn ==
  ASSUME NEW ms \in Archives, NEW c \in Comments, ArchiveLife(ms, c),
         ArchiveNext, ~damaged'
  PROVE  ArchiveLife(ms, c)'
<1>1. members = ms /\ units = ZipOf(ms, c) /\ IsArchive /\ ms \in Seq(Member)
  BY KindShows, ArchiveAssumption DEF ArchiveLife
<1>2. members' = ms
  BY <1>1 DEF ArchiveNext, Spoil, Open, FindSave, ReadSave, ReadAll, Extract, Untouched, archive
<1>3. CASE Spoil
  <2>1. units' = units /\ stage' = "spoilt"
    BY <1>3 DEF Spoil
  <2> QED BY <1>1, <1>2, <2>1 DEF ArchiveLife
<1>4. CASE Open
  <2>1. units' = units
    BY <1>4 DEF Open
  <2>2. CASE ZipOpen = Nothing
    <3>1. EntriesOf(ms) # Nothing
      BY <1>1, WholeOpens, WrittenAssumption
    <3>2. \E i \in DOMAIN ms : ms[i].flags % 2 = Encrypted
      BY <1>1, <2>2, <3>1, WholeOpens
    <3>3. stage' = "refused" /\ Refusable(ms)
      BY <1>4, <2>2, <3>2 DEF Open, Refusable
    <3> QED BY <1>1, <1>2, <2>1, <3>3 DEF ArchiveLife
  <2>3. CASE ZipOpen # Nothing
    <3>1. ZipOpen = EntriesOf(ms)
      BY <1>1, <2>3, WholeOpens
    <3>2. stage' = "opened" /\ entries' = EntriesOf(ms)
      BY <1>4, <2>3, <3>1 DEF Open
    <3> QED BY <1>1, <1>2, <2>1, <3>2 DEF ArchiveLife
  <2> QED BY <2>2, <2>3
<1>5. CASE FindSave
  <2>1. units' = units /\ entries' = entries /\ entries = EntriesOf(ms)
    BY <1>5 DEF FindSave, ArchiveLife
  <2>2. \A i \in DOMAIN ms : EntryOf(ms, i) # Nothing
    BY <1>1, EachIsRead
  <2>3. CASE ZipFindPrefix(Wanted) = Nothing
    <3>1. stage' = "refused" /\ Refusable(ms)
      BY <1>1, <1>5, <2>1, <2>2, <2>3, FirstIsFound DEF FindSave, Refusable
    <3> QED BY <1>1, <1>2, <2>1, <3>1 DEF ArchiveLife
  <2>4. CASE ZipFindPrefix(Wanted) # Nothing
    <3>1. /\ ZipFindPrefix(Wanted) = EntryOf(ms, FirstLike(ms)) /\ FirstLike(ms) \in DOMAIN ms
      BY <1>1, <2>1, <2>2, <2>4, FirstIsFound
    <3>2. stage' = "found" /\ taken' = EntryOf(ms, FirstLike(ms))
      BY <1>5, <2>4, <3>1 DEF FindSave
    <3> QED BY <1>1, <1>2, <2>1, <3>1, <3>2 DEF ArchiveLife
  <2> QED BY <2>3, <2>4
<1>6. CASE ReadSave
  <2> DEFINE f == FirstLike(ms)
  <2>1. units' = units /\ entries' = entries /\ f \in DOMAIN ms /\ taken = EntryOf(ms, f)
    BY <1>6 DEF ReadSave, ArchiveLife
  <2>2. ZipRead(taken) = ms[f].data /\ ZipRead(taken) # Nothing
    BY <1>1, <2>1, EachIsRead
  <2>3. stage' = "read" /\ taken' = ms[f].data
    BY <1>6, <2>2 DEF ReadSave
  <2> QED BY <1>1, <1>2, <2>1, <2>3 DEF ArchiveLife
<1>7. CASE ReadAll
  <2> DEFINE files == {i \in DOMAIN entries : ~IsDir(entries[i].name)}
  <2>1. units' = units /\ entries = EntriesOf(ms)
    BY <1>7 DEF ReadAll, ArchiveLife
  <2>2. DOMAIN entries = DOMAIN ms
    BY <2>1 DEF EntriesOf
  <2>3. ASSUME NEW i \in DOMAIN ms
        PROVE  entries[i].name = ms[i].name /\ ZipRead(entries[i]) = ms[i].data
               /\ ms[i].data # Nothing
    <3>1. entries[i] = EntryOf(ms, i)
      BY <2>1 DEF EntriesOf
    <3> QED BY <1>1, <3>1, EachIsRead
  <2>4. CASE \E i \in DOMAIN entries : ~NameIsSafe(entries[i].name)
    <3>1. stage' = "refused"
      BY <1>7, <2>4 DEF ReadAll
    <3>2. Refusable(ms)
      BY <2>2, <2>3, <2>4 DEF Refusable
    <3> QED BY <1>1, <1>2, <2>1, <3>1, <3>2 DEF ArchiveLife
  <2>5. CASE ~\E i \in DOMAIN entries : ~NameIsSafe(entries[i].name)
    <3>1. ~\E i \in files : ZipRead(entries[i]) = Nothing
      BY <2>2, <2>3
    <3>2. /\ stage' = "all"
          /\ taken' = [i \in files |-> [name |-> entries[i].name, data |-> ZipRead(entries[i])]]
      BY <1>7, <2>5, <3>1 DEF ReadAll
    <3>3. files = {j \in DOMAIN ms : ~IsDir(ms[j].name)}
      BY <2>2, <2>3
    <3>4. ASSUME NEW i \in files
          PROVE  [name |-> entries[i].name, data |-> ZipRead(entries[i])]
                   = [name |-> ms[i].name, data |-> ms[i].data]
      BY <2>2, <2>3
    <3> HIDE DEF files
    <3>5. taken' = FilesOf(ms)
      BY <3>2, <3>3, <3>4 DEF FilesOf
    <3> QED BY <1>1, <1>2, <2>1, <3>2, <3>5 DEF ArchiveLife
  <2> QED BY <2>4, <2>5
<1>8. CASE Extract
  <2> DEFINE f == FirstLike(ms)
  <2>1. stage = "read" /\ IsGzip(taken) /\ units' = units
    BY <1>1, <1>8 DEF Extract
  <2>2. f \in DOMAIN ms /\ taken = ms[f].data
    BY <2>1 DEF ArchiveLife
  <2>3. PICK s \in Streams : ms[f].data = Gzip(s)
    BY <2>1, <2>2, WrittenAssumption
  <2>4. GzExtract(taken) # Nothing
    <3>1. GzExtract(Gzip(s)) \in Seq(Nat)
      BY StreamRead
    <3> QED BY <2>2, <2>3, <3>1, WrittenAssumption DEF Bytes
  <2>5. stage' = "over" /\ taken' = GzExtract(ms[f].data)
    BY <1>8, <2>1, <2>2, <2>4 DEF Extract
  <2> QED BY <1>1, <1>2, <2>1, <2>2, <2>5 DEF ArchiveLife
<1>9. CASE Untouched
  BY <1>9 DEF Untouched, archive, ArchiveLife
<1> QED
  BY <1>3, <1>4, <1>5, <1>6, <1>7, <1>8, <1>9 DEF ArchiveNext

(* And so does a stream.                                                    *)
LEMMA StreamGoesOn ==
  ASSUME NEW s \in Streams, StreamLife(s), ArchiveNext, ~damaged'
  PROVE  StreamLife(s)'
<1>1. members = <<s>> /\ units = Gzip(s) /\ ~IsArchive /\ stage \in {"packed", "spoilt", "over"}
  BY KindShows DEF StreamLife
<1>2. CASE Spoil
  <2>1. units' = units /\ stage' = "spoilt" /\ members' = members
    BY <1>2 DEF Spoil
  <2> QED BY <1>1, <2>1 DEF StreamLife
<1>3. CASE Extract
  <2>1. GzExtract(units) = s.data /\ s.data # Nothing
    BY <1>1, StreamRead, WrittenAssumption DEF Bytes
  <2>2. stage = "spoilt" /\ units' = units /\ members' = members
    BY <1>1, <1>3 DEF Extract
  <2>3. stage' = "over" /\ taken' = s.data
    BY <1>3, <2>1, <2>2 DEF Extract
  <2> QED BY <1>1, <2>2, <2>3 DEF StreamLife
<1>4. CASE Untouched
  BY <1>4 DEF Untouched, archive, StreamLife
<1>5. ~(Open \/ FindSave \/ ReadSave \/ ReadAll)
  BY <1>1 DEF Open, FindSave, ReadSave, ReadAll
<1> QED
  BY <1>2, <1>3, <1>4, <1>5 DEF ArchiveNext

(* Every step of its life; what is damaged stays so.                        *)
LEMMA WholeSteps == WholeInv /\ [ArchiveNext]_archive => WholeInv'
<1> SUFFICES ASSUME WholeInv, [ArchiveNext]_archive, ~damaged' PROVE WholeInv'
  BY DEF WholeInv
<1>1. CASE ArchiveNext
  <2>1. ~damaged
    BY <1>1 DEF ArchiveNext, Spoil, Open, FindSave, ReadSave, ReadAll, Extract, Untouched, archive
  <2>2. CASE \E ms \in Archives : \E c \in Comments : ArchiveLife(ms, c)
    <3>1. PICK ms \in Archives, c \in Comments : ArchiveLife(ms, c)
      BY <2>2
    <3>2. ArchiveLife(ms, c)'
      BY <1>1, <3>1, ArchiveGoesOn
    <3> QED BY <3>2 DEF WholeInv
  <2>3. CASE \E s \in Streams : StreamLife(s)
    <3>1. PICK s \in Streams : StreamLife(s)
      BY <2>3
    <3>2. StreamLife(s)'
      BY <1>1, <3>1, StreamGoesOn
    <3> QED BY <3>2 DEF WholeInv
  <2> QED BY <2>1, <2>2, <2>3 DEF WholeInv
<1>2. CASE UNCHANGED archive
  BY <1>2 DEF archive, WholeInv, ArchiveLife, StreamLife
<1> QED
  BY <1>1, <1>2

(* What nothing has damaged is read in full as it was packed, whoever wrote *)
(* it and in whichever form, and is refused only for a member that is       *)
(* encrypted, for a name that leads outside, or because it holds no save    *)
(* (zip_open, zip_find_prefix, zip_read, gz_extract).                       *)
THEOREM WhatIsWholeIsRead == ArchiveSpec => [](~damaged => ReadAsPacked)
<1> QED
  BY WholeStarts, WholeSteps, LifeIsWhole, PTL DEF ArchiveSpec
=============================================================================
