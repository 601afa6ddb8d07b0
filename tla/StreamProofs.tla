---------------------------- MODULE StreamProofs ----------------------------
(***************************************************************************)
(* Why the stream that deflate_raw writes is read back by inflate_raw as    *)
(* just its input, and one that is cut short is refused: for inputs, block  *)
(* sizes, windows, alphabets and codes of any size, and whichever type each *)
(* block is given.  The tables in transit come first, then the chains and   *)
(* what is found along them, the bits of a block as the writer lays them    *)
(* out, and the reader that follows them.                                   *)
(***************************************************************************)
EXTENDS CodesProofs


(* What a symbol of the run-length code says of the lengths from i on.       *)
Items == [sym : 0 .. 18, extra : Nat, width : Nat]
ItemFits(lens, i, item) ==
  /\ i \in 0 .. (Len(lens) - 1) /\ item \in Items /\ item.extra < 2 ^ item.width
  /\ Stretch(item) \in 1 .. (Len(lens) - i)
  /\ \/ item.sym < 16 /\ item.sym = lens[i + 1] /\ item.width = 0
     \/ /\ item.sym = 16 /\ item.width = 2 /\ i > 0
        /\ \A j \in (i + 1) .. (i + Stretch(item)) : lens[j] = lens[i]
     \/ /\ (item.sym = 17 /\ item.width = 3) \/ (item.sym = 18 /\ item.width = 7)
        /\ \A j \in (i + 1) .. (i + Stretch(item)) : lens[j] = 0

(* A run of encode_lengths is of one length, and does not pass the end.     *)
LEMMA RunIs ==
  ASSUME NEW lens \in Seq(0 .. 15), NEW i \in 0 .. (Len(lens) - 1)
  PROVE  /\ RunFrom(lens, i) \in 1 .. (Len(lens) - i)
         /\ \A j \in (i + 1) .. (i + RunFrom(lens, i)) : lens[j] = lens[i + 1]
<1> DEFINE n == Len(lens)
           A(m) == \A j \in (i + 1) .. (i + m) : lens[j] = lens[i + 1]
           R == {m \in 1 .. (n - i) : A(m)}
<1>1. n \in Nat /\ n - i \in Nat /\ 1 \in 1 .. (n - i) /\ i \in Nat
  BY LenProperties
<1>2. R \in SUBSET (0 .. (n - i)) /\ 1 \in R
  <2>1. R \in SUBSET (0 .. (n - i))
    BY <1>1
  <2>2. A(1)
    <3>1. \A j \in (i + 1) .. (i + 1) : j = i + 1
      BY <1>1
    <3> QED BY <3>1
  <2> HIDE DEF A
  <2> QED BY <1>1, <2>1, <2>2
<1>3. PICK m \in R : \A k \in R : k <= m
  <2> HIDE DEF R, n
  <2> QED BY <1>1, <1>2, Greatest
<1>4. i + m < n => lens[i + m + 1] # lens[i + 1]
  <2>1. ASSUME i + m < n, lens[i + m + 1] = lens[i + 1] PROVE FALSE
    <3>1. m \in 1 .. (n - i) /\ m + 1 \in 1 .. (n - i)
      BY <1>1, <1>3, <2>1
    <3>2. ASSUME NEW j \in (i + 1) .. (i + (m + 1)) PROVE lens[j] = lens[i + 1]
      <4>1. j \in (i + 1) .. (i + m) \/ j = i + m + 1
        BY <1>1, <3>1
      <4> QED BY <1>3, <2>1, <4>1
    <3>3. m + 1 \in R
      BY <3>1, <3>2
    <3> HIDE DEF R
    <3>4. m + 1 <= m
      BY <1>3, <3>3
    <3> QED BY <3>1, <3>4
  <2> QED BY <2>1
<1>5. \E k \in 1 .. (n - i) : A(k) /\ (i + k < n => lens[i + k + 1] # lens[i + 1])
  BY <1>3, <1>4
<1>6. RunFrom(lens, i) = CHOOSE k \in 1 .. (n - i) : A(k) /\ (i + k < n => lens[i + k + 1] # lens[i + 1])
  BY DEF RunFrom
<1> QED
  BY <1>5, <1>6

(* Each item that encode_lengths writes stands for the lengths at its       *)
(* place, and fits the bits it is written in.                               *)
LEMMA ItemIs ==
  ASSUME NEW lens \in Seq(0 .. 15), NEW i \in 0 .. (Len(lens) - 1)
  PROVE  ItemFits(lens, i, ItemOf(lens, i))
<1> DEFINE n == Len(lens)
           run == RunFrom(lens, i)
           value == lens[i + 1]
           fresh == i = 0 \/ lens[i] # value
           item == ItemOf(lens, i)
<1>1. /\ n \in Nat /\ i \in Nat /\ run \in 1 .. (n - i) /\ value \in 0 .. 15
      /\ \A j \in (i + 1) .. (i + run) : lens[j] = value
  <2>1. n \in Nat /\ i + 1 \in 1 .. n
    BY LenProperties
  <2> QED BY <2>1, RunIs, ElementOfSeq
<1>2. 2 ^ 0 = 1 /\ 2 ^ 2 = 4 /\ 2 ^ 3 = 8 /\ 2 ^ 7 = 128
  OBVIOUS
<1> HIDE DEF n
<1>3. CASE run < 3 \/ (value # 0 /\ fresh)
  <2>1. item = [sym |-> value, extra |-> 0, width |-> 0]
    BY <1>3 DEF ItemOf, Item
  <2> HIDE DEF item, run
  <2>2. item.sym = value /\ item.extra = 0 /\ item.width = 0 /\ item \in Items
    BY <1>1, <2>1 DEF Items
  <2>3. Stretch(item) = 1
    BY <1>1, <2>2 DEF Stretch
  <2> QED BY <1>1, <1>2, <2>2, <2>3 DEF ItemFits, item, n
<1>4. CASE ~(run < 3 \/ (value # 0 /\ fresh)) /\ value # 0
  <2> DEFINE a == Atmost(run, 6)
  <2>1. item = [sym |-> 16, extra |-> a - 3, width |-> 2]
    BY <1>4 DEF ItemOf, Item
  <2>2. a \in 3 .. 6 /\ a <= run
    <3> HIDE DEF run
    <3> QED BY <1>1, <1>4 DEF Atmost
  <2> HIDE DEF item, a, run
  <2>3. item.sym = 16 /\ item.extra = a - 3 /\ item.width = 2 /\ item \in Items
    BY <2>1, <2>2 DEF Items
  <2>4. Stretch(item) = a
    BY <2>2, <2>3 DEF Stretch
  <2>5. i > 0 /\ lens[i] = value
    BY <1>1, <1>4
  <2>6. \A j \in (i + 1) .. (i + a) : lens[j] = lens[i]
    BY <1>1, <2>2, <2>5
  <2>7. item.extra < 2 ^ item.width
    BY <1>2, <2>2, <2>3
  <2> QED BY <1>1, <2>2, <2>3, <2>4, <2>5, <2>6, <2>7 DEF ItemFits, item, n
<1>5. CASE ~(run < 3 \/ (value # 0 /\ fresh)) /\ value = 0 /\ run >= 11
  <2> DEFINE a == Atmost(run, 138)
  <2>1. item = [sym |-> 18, extra |-> a - 11, width |-> 7]
    BY <1>5 DEF ItemOf, Item
  <2>2. a \in 11 .. 138 /\ a <= run
    <3> HIDE DEF run
    <3> QED BY <1>1, <1>5 DEF Atmost
  <2> HIDE DEF item, a, run
  <2>3. item.sym = 18 /\ item.extra = a - 11 /\ item.width = 7 /\ item \in Items
    BY <2>1, <2>2 DEF Items
  <2>4. Stretch(item) = a
    <3>1. Stretch(item) = item.extra + 11
      BY <2>3 DEF Stretch
    <3>2. (a - 11) + 11 = a
      BY <2>2
    <3> QED BY <2>3, <3>1, <3>2
  <2>5. \A j \in (i + 1) .. (i + a) : lens[j] = 0
    BY <1>1, <1>5, <2>2
  <2>6. item.extra < 2 ^ item.width
    BY <1>2, <2>2, <2>3
  <2> QED BY <1>1, <2>2, <2>3, <2>4, <2>5, <2>6 DEF ItemFits, item, n
<1>6. CASE ~(run < 3 \/ (value # 0 /\ fresh)) /\ value = 0 /\ ~(run >= 11)
  <2> DEFINE a == Atmost(run, 10)
  <2>1. item = [sym |-> 17, extra |-> a - 3, width |-> 3]
    BY <1>6 DEF ItemOf, Item
  <2>2. a \in 3 .. 10 /\ a <= run
    <3> HIDE DEF run
    <3> QED BY <1>1, <1>6 DEF Atmost
  <2> HIDE DEF item, a, run
  <2>3. item.sym = 17 /\ item.extra = a - 3 /\ item.width = 3 /\ item \in Items
    BY <2>1, <2>2 DEF Items
  <2>4. Stretch(item) = a
    BY <2>2, <2>3 DEF Stretch
  <2>5. \A j \in (i + 1) .. (i + a) : lens[j] = 0
    BY <1>1, <1>6, <2>2
  <2>6. item.extra < 2 ^ item.width
    BY <1>2, <2>2, <2>3
  <2> QED BY <1>1, <2>2, <2>3, <2>4, <2>5, <2>6 DEF ItemFits, item, n
<1> QED
  BY <1>3, <1>4, <1>5, <1>6

(* encode_lengths: the symbols it makes say the lengths, up to the last.     *)
Spelled(p, lens, at, items) ==
  /\ items \in Seq(Items) /\ p \in [0 .. Len(items) -> 0 .. Len(lens)]
  /\ p[0] = 0 /\ p[Len(items)] = at
  /\ \A k \in 1 .. Len(items) : /\ ItemFits(lens, p[k - 1], items[k])
                                /\ p[k] = p[k - 1] + Stretch(items[k])

(* One more item spells the lengths it stands for.                          *)
LEMMA SpelledOn ==
  ASSUME NEW lens \in Seq(0 .. 15), NEW p, NEW at \in 0 .. (Len(lens) - 1), NEW items,
         Spelled(p, lens, at, items)
  PROVE  LET item == ItemOf(lens, at)
         IN  /\ at + Stretch(item) \in (at + 1) .. Len(lens)
             /\ \E q : Spelled(q, lens, at + Stretch(item), Append(items, item))
<1> DEFINE item == ItemOf(lens, at)
           n == Len(items)
           st == Stretch(item)
           more == Append(items, item)
           q == [k \in 0 .. (n + 1) |-> IF k <= n THEN p[k] ELSE at + st]
<1>1. /\ ItemFits(lens, at, item) /\ n \in Nat /\ items \in Seq(Items) /\ Len(lens) \in Nat
  BY ItemIs, LenProperties DEF Spelled
<1> HIDE DEF item
<1>2. /\ item \in Items /\ st \in 1 .. (Len(lens) - at)
  BY <1>1 DEF ItemFits
<1>3. /\ more \in Seq(Items) /\ Len(more) = n + 1 /\ more[n + 1] = item
      /\ \A k \in 1 .. n : more[k] = items[k]
  BY <1>1, <1>2, AppendProperties
<1> HIDE DEF more, st
<1>4. at + st \in (at + 1) .. Len(lens) /\ at + st \in 0 .. Len(lens)
  BY <1>1, <1>2
<1>5. p \in [0 .. n -> 0 .. Len(lens)] /\ p[0] = 0 /\ p[n] = at
  BY DEF Spelled
<1>6. q \in [0 .. (n + 1) -> 0 .. Len(lens)] /\ q[0] = 0 /\ q[n + 1] = at + st
  BY <1>1, <1>4, <1>5
<1>7. ASSUME NEW k \in 1 .. (n + 1)
      PROVE  ItemFits(lens, q[k - 1], more[k]) /\ q[k] = q[k - 1] + Stretch(more[k])
  <2>1. CASE k \in 1 .. n
    <3>1. q[k] = p[k] /\ q[k - 1] = p[k - 1] /\ more[k] = items[k]
      BY <1>1, <1>3, <2>1
    <3> HIDE DEF q, n
    <3>2. ItemFits(lens, p[k - 1], items[k]) /\ p[k] = p[k - 1] + Stretch(items[k])
      BY <2>1 DEF Spelled, n
    <3> QED BY <3>1, <3>2
  <2>2. CASE k = n + 1
    <3>1. q[k] = at + st /\ q[k - 1] = at /\ more[k] = item
      BY <1>1, <1>3, <1>5, <2>2
    <3> HIDE DEF q
    <3> QED BY <1>1, <3>1 DEF st
  <2> QED BY <1>1, <2>1, <2>2
<1> HIDE DEF q
<1>8. Spelled(q, lens, at + st, more)
  BY <1>3, <1>6, <1>7 DEF Spelled
<1> QED
  BY <1>4, <1>8 DEF item, st, more

(* All of the items spell all of the lengths.                               *)
LEMMA EncodedIs ==
  ASSUME NEW lens \in Seq(0 .. 15)
  PROVE  \E p : Spelled(p, lens, Len(lens), EncodeLengths(lens))
<1> DEFINE n == Len(lens)
           first == [at |-> 0, items |-> <<>>]
           Next1(so) == IF so.at = n THEN so
                        ELSE [at |-> so.at + Stretch(ItemOf(lens, so.at)),
                              items |-> Append(so.items, ItemOf(lens, so.at))]
           V == {v \in [at : 0 .. n, items : Seq(Items)] : \E p : Spelled(p, lens, v.at, v.items)}
           G == [x \in V \X (1 .. n) |-> Next1(x[1])]
           Is(f) == f = [k \in 0 .. n |-> IF k = 0 THEN first ELSE Next1(f[k - 1])]
<1>1. n \in Nat
  BY LenProperties
<1>2. first \in V
  <2> DEFINE p == [k \in 0 .. 0 |-> 0]
  <2>1. Len(<<>>) = 0 /\ <<>> \in Seq(Items) /\ 1 .. 0 = {} /\ 0 \in 0 .. n
    BY <1>1, EmptySeq
  <2>2. p \in [0 .. 0 -> 0 .. n] /\ p[0] = 0
    BY <2>1
  <2> HIDE DEF p
  <2>3. Spelled(p, lens, 0, <<>>)
    BY <2>1, <2>2 DEF Spelled
  <2> QED BY <2>1, <2>3
<1>3. ASSUME NEW v \in V
      PROVE  /\ Next1(v) \in V /\ v.at \in 0 .. n
             /\ Next1(v).at = n \/ Next1(v).at > v.at
  <2>1. v \in [at : 0 .. n, items : Seq(Items)] /\ \E p : Spelled(p, lens, v.at, v.items)
    OBVIOUS
  <2>2. v.at \in 0 .. n /\ v.items \in Seq(Items)
    BY <2>1
  <2>3. CASE v.at = n
    BY <2>2, <2>3
  <2>4. CASE v.at # n
    <3> DEFINE item == ItemOf(lens, v.at)
               w == v.at + Stretch(item)
               y == Append(v.items, item)
    <3>1. v.at \in 0 .. (n - 1)
      BY <1>1, <2>2, <2>4
    <3>2. PICK p : Spelled(p, lens, v.at, v.items)
      BY <2>1
    <3>3. w \in (v.at + 1) .. n /\ \E q : Spelled(q, lens, w, y)
      BY <3>1, <3>2, SpelledOn
    <3>4. Next1(v) = [at |-> w, items |-> y]
      BY <2>4
    <3> HIDE DEF w, y
    <3>5. w \in 0 .. n /\ w > v.at /\ y \in Seq(Items)
      <4>1. y \in Seq(Items)
        BY <3>3 DEF Spelled
      <4> QED BY <1>1, <2>2, <3>3, <4>1
    <3> DEFINE z == Next1(v)
    <3>6. z.at = w /\ z.items = y /\ z \in [at : 0 .. n, items : Seq(Items)]
      BY <3>4, <3>5
    <3> HIDE DEF z
    <3>7. z \in V
      BY <3>3, <3>6
    <3> HIDE DEF V
    <3> QED BY <2>2, <3>5, <3>6, <3>7 DEF z
  <2> QED BY <2>3, <2>4
<1> HIDE DEF V, Next1, first
<1>4. G \in [V \X (1 .. n) -> V] /\ \A v \in V : \A k \in 1 .. n : G[<<v, k>>] = Next1(v)
  BY <1>3
<1> HIDE DEF G
<1>5. PICK g \in [0 .. n -> V] : Follows(g, n, first, G)
  BY <1>1, <1>2, <1>4, Recursion
<1>6. Is(g)
  <2>1. ASSUME NEW k \in 0 .. n PROVE g[k] = IF k = 0 THEN first ELSE Next1(g[k - 1])
    <3>1. CASE k = 0
      BY <1>5, <3>1 DEF Follows
    <3>2. CASE k # 0
      <4>1. k \in 1 .. n /\ k - 1 \in 0 .. n
        BY <1>1, <3>2
      <4>2. g[k] = G[<<g[k - 1], k>>] /\ g[k - 1] \in V
        BY <1>5, <4>1 DEF Follows
      <4> QED BY <1>4, <3>2, <4>1, <4>2
    <3> QED BY <3>1, <3>2
  <2>2. g = [k \in 0 .. n |-> g[k]]
    BY <1>5
  <2> QED BY <2>1, <2>2
<1> DEFINE f == CHOOSE f : Is(f)
<1>7. Is(f)
  BY <1>6
<1>8. EncodeLengths(lens) = f[CHOOSE k \in 0 .. n : f[k].at = n].items
  BY DEF EncodeLengths, Next1, first
<1> HIDE DEF f
<1> DEFINE P == {k \in 0 .. n : f[k] = g[k] /\ g[k].at >= k}
<1>9. 0 \in P
  BY <1>1, <1>6, <1>7 DEF first
<1>10. ASSUME NEW k \in 1 .. n, k - 1 \in P PROVE k \in P
  <2>1. k \in 0 .. n /\ k # 0 /\ k - 1 \in 0 .. n
    BY <1>1
  <2>2. f[k - 1] = g[k - 1] /\ g[k - 1].at >= k - 1
    BY <1>10
  <2>3. f[k] = Next1(f[k - 1]) /\ g[k] = Next1(g[k - 1])
    BY <1>6, <1>7, <2>1
  <2>4. g[k - 1] \in V /\ g[k] \in V
    BY <1>5, <2>1
  <2> DEFINE a == g[k - 1].at
             b == g[k].at
  <2>5. a \in 0 .. n /\ b \in 0 .. n /\ (b = n \/ b > a) /\ a >= k - 1
    BY <1>3, <2>2, <2>3, <2>4
  <2> HIDE DEF a, b
  <2>6. b >= k
    BY <1>1, <2>5
  <2> QED BY <2>1, <2>2, <2>3, <2>6 DEF b
<1>11. 0 .. n \subseteq P
  <2> HIDE DEF P
  <2> QED BY <1>1, <1>9, <1>10, Upward
<1>12. f[n].at = n
  <2>1. n \in 0 .. n /\ n \in P /\ g[n] \in V
    BY <1>1, <1>5, <1>11
  <2>2. g[n].at \in 0 .. n /\ g[n].at >= n /\ f[n] = g[n]
    BY <1>3, <2>1
  <2> DEFINE a == g[n].at
  <2>3. a \in 0 .. n /\ a >= n
    BY <2>2
  <2> HIDE DEF a
  <2>4. a = n
    BY <1>1, <2>3
  <2> QED BY <2>2, <2>4 DEF a
<1> DEFINE k == CHOOSE k \in 0 .. n : f[k].at = n
<1>13. k \in 0 .. n /\ f[k].at = n
  <2>1. n \in 0 .. n
    BY <1>1
  <2> QED BY <1>12, <2>1
<1> HIDE DEF k
<1>14. f[k] \in V
  <2>1. f[k] = g[k]
    BY <1>11, <1>13
  <2> QED BY <1>5, <1>13, <2>1
<1>15. \E p : Spelled(p, lens, n, f[k].items)
  BY <1>13, <1>14 DEF V
<1> QED
  BY <1>8, <1>15 DEF k

(***************************************************************************)
(* Reading them again.                                                       *)
(***************************************************************************)
Stream(W) == W \in Seq(Bits01) /\ bits \in Seq(Bits01) /\ Arrives(W)

(* What was read so far are the first p lengths.                             *)
Begun(P, lens, p) == P \in Seq(0 .. 15) /\ Len(P) = p /\ \A j \in 1 .. p : P[j] = lens[j]

ItemBits(cl, item) == CodeBits(cl, item.sym) \o BitsOf(item.extra, item.width)
CodeFor(cl, s) == /\ Alphabet(cl) /\ LeftOver(cl) >= 0 /\ s \in DOMAIN cl
                  /\ cl[s] \in 1 .. MaxBits

(* The bits of an item: the code of its symbol, and its number.             *)
LEMMA ItemBitsAre ==
  ASSUME NEW cl, NEW item \in Items, CodeFor(cl, item.sym)
  PROVE  /\ ItemBits(cl, item) \in Seq(Bits01)
         /\ Len(ItemBits(cl, item)) = cl[item.sym] + item.width
<1> DEFINE c == CodeBits(cl, item.sym)
           e == BitsOf(item.extra, item.width)
<1>1. item.extra \in Nat /\ item.width \in Nat
  BY DEF Items
<1>2. c \in Seq(Bits01) /\ Len(c) = cl[item.sym]
  BY CodeBitsAre DEF CodeFor
<1>3. e \in Seq(Bits01) /\ Len(e) = item.width
  BY <1>1, BitsAreBits
<1> HIDE DEF c, e
<1>4. c \o e \in Seq(Bits01) /\ Len(c \o e) = Len(c) + Len(e)
  BY <1>2, <1>3, ConcatProperties
<1> QED
  BY <1>2, <1>3, <1>4 DEF ItemBits, c, e

(* More of the same length, as one symbol of the run-length code says.       *)
LEMMA BegunOn ==
  ASSUME NEW lens \in Seq(0 .. 15), NEW p \in Nat, NEW n \in Nat, p + n <= Len(lens),
         NEW P, Begun(P, lens, p), NEW v \in 0 .. 15,
         \A j \in (p + 1) .. (p + n) : lens[j] = v
  PROVE  Begun(P \o [k \in 1 .. n |-> v], lens, p + n)
<1> DEFINE r == [k \in 1 .. n |-> v]
<1>1. r \in Seq(0 .. 15) /\ Len(r) = n
  <2>1. r \in [1 .. n -> 0 .. 15] /\ DOMAIN r = 1 .. n
    OBVIOUS
  <2> HIDE DEF r
  <2>2. r \in Seq(0 .. 15)
    BY <2>1, IsASeq
  <2>3. Len(r) \in Nat /\ 1 .. Len(r) = 1 .. n
    BY <2>1, <2>2, LenProperties
  <2> DEFINE m == Len(r)
  <2> HIDE DEF m
  <2>4. m = n
    BY <2>3, SameUpTo DEF m
  <2> QED BY <2>2, <2>4 DEF m
<1>2. \A k \in 1 .. n : r[k] = v
  OBVIOUS
<1> HIDE DEF r
<1>3. P \in Seq(0 .. 15) /\ Len(P) = p /\ \A j \in 1 .. p : P[j] = lens[j]
  BY DEF Begun
<1>4. /\ P \o r \in Seq(0 .. 15) /\ Len(P \o r) = p + n
      /\ \A j \in 1 .. (p + n) : (P \o r)[j] = IF j <= p THEN P[j] ELSE r[j - p]
  BY <1>1, <1>3, ConcatProperties
<1>5. ASSUME NEW j \in 1 .. (p + n) PROVE (P \o r)[j] = lens[j]
  <2>1. CASE j <= p
    BY <1>3, <1>4, <2>1
  <2>2. CASE ~(j <= p)
    <3>1. j - p \in 1 .. n /\ j \in (p + 1) .. (p + n)
      BY <2>2
    <3> QED BY <1>2, <1>4, <2>2, <3>1
  <2> QED BY <2>1, <2>2
<1> QED
  BY <1>4, <1>5 DEF Begun, r

(* Reading an item adds the lengths it stands for, or finds the stream at   *)
(* its end.                                                                 *)
LEMMA ReadOneIs ==
  ASSUME NEW W, Stream(W), NEW cl, NEW lens \in Seq(0 .. 15), NEW p, NEW item,
         ItemFits(lens, p, item), CodeFor(cl, item.sym), NEW so, so.at \in Nat,
         Begun(so.lens, lens, p), Holds(W, so.at, ItemBits(cl, item))
  PROVE  LET next == ReadOne(so, cl, Len(lens))
             w    == cl[item.sym] + item.width
         IN  IF Has(so.at, w)
             THEN next.at = so.at + w /\ Begun(next.lens, lens, p + Stretch(item))
             ELSE next.lens = None
<1> DEFINE next == ReadOne(so, cl, Len(lens))
           at == so.at
           a == cl[item.sym]
           w == item.width
           c == CodeBits(cl, item.sym)
           e == BitsOf(item.extra, w)
           d == Decode(at, cl)
           want == Len(lens)
           P == so.lens
           st == Stretch(item)
<1>1. /\ want \in Nat /\ p \in 0 .. (want - 1) /\ p \in Nat /\ item \in Items /\ item.sym \in 0 .. 18
      /\ item.extra \in Nat /\ w \in Nat /\ item.extra < 2 ^ w /\ st \in 1 .. (want - p)
  BY LenProperties DEF ItemFits, Items
<1>2. /\ Alphabet(cl) /\ LeftOver(cl) >= 0 /\ item.sym \in DOMAIN cl /\ a \in 1 .. MaxBits
      /\ W \in Seq(Bits01) /\ bits \in Seq(Bits01) /\ Arrives(W) /\ Len(bits) \in Nat /\ MaxBits \in Nat
  <2>1. bits \in Seq(Bits01) /\ W \in Seq(Bits01) /\ Arrives(W)
    BY DEF Stream
  <2>2. Len(bits) \in Nat
    BY <2>1, LenProperties
  <2>3. MaxBits \in Nat
    BY FormatAssumption
  <2> QED BY <2>1, <2>2, <2>3 DEF CodeFor
<1>3. P \in Seq(0 .. 15) /\ Len(P) = p /\ P # None /\ Len(P) # want
  <2>1. P \in Seq(0 .. 15) /\ Len(P) = p
    BY DEF Begun
  <2>2. Seq(0 .. 15) \subseteq Seq(Nat)
    <3>1. \A S, T : S \subseteq T => Seq(S) \subseteq Seq(T)
      OBVIOUS
    <3>2. 0 .. 15 \subseteq Nat
      OBVIOUS
    <3> QED BY <3>1, <3>2
  <2>3. P # None
    BY <2>1, <2>2, FormatAssumption
  <2>4. p # want
    BY <1>1
  <2> QED BY <2>1, <2>3, <2>4
<1>4. /\ c \in Seq(Bits01) /\ Len(c) = a /\ e \in Seq(Bits01) /\ Len(e) = w
      /\ Holds(W, at, c) /\ Holds(W, at + a, e)
  <2>1. c \in Seq(Bits01) /\ Len(c) = a
    BY <1>2, CodeBitsAre
  <2>2. e \in Seq(Bits01) /\ Len(e) = w
    BY <1>1, BitsAreBits
  <2>3. Holds(W, at, c \o e)
    BY DEF ItemBits
  <2> HIDE DEF c, e, a
  <2>4. Holds(W, at, c) /\ Holds(W, at + Len(c), e)
    BY <1>2, <2>1, <2>2, <2>3, HoldsBoth
  <2> QED BY <2>1, <2>2, <2>4
<1>5. d = IF Has(at, a) THEN [sym |-> item.sym, at |-> at + a] ELSE [sym |-> None, at |-> at]
  BY <1>2, <1>4, CodesComeBack
<1>6. item.sym # None /\ item.sym \in ClSyms /\ None \notin ClSyms
  <2>1. item.sym \in Int /\ item.sym \in ClSyms /\ ClSyms \subseteq Int
    <3> DEFINE s == item.sym
    <3>1. s \in 0 .. 18
      BY <1>1
    <3> HIDE DEF s
    <3>2. s \in Int /\ s \in ClSyms /\ ClSyms \subseteq Int
      BY <3>1 DEF ClSyms
    <3> QED BY <3>2 DEF s
  <2>2. None \notin Int
    BY FormatAssumption
  <2> QED BY <2>1, <2>2
<1> DEFINE wide == CASE d.sym = 16 -> 2 [] d.sym = 17 -> 3 [] OTHER -> 7
           repeat == (IF d.sym = 18 THEN 11 ELSE 3) + Number(d.at, wide)
           value  == IF d.sym = 16 THEN P[Len(P)] ELSE 0
           none   == [lens |-> None, at |-> at]
<1>7. next = IF d.sym \notin ClSyms THEN none
             ELSE IF d.sym < 16 THEN [lens |-> Append(P, d.sym), at |-> d.at]
             ELSE IF \/ d.sym = 16 /\ P = <<>>
                     \/ ~Has(d.at, wide)
                     \/ Len(P) + repeat > want THEN none
             ELSE [lens |-> P \o [k \in 1 .. repeat |-> value], at |-> d.at + wide]
  BY DEF ReadOne, ReadItem
<1> HIDE DEF next, want, c, e, d, P, at, a, wide, repeat, value, st
<1>8. CASE ~Has(at, a)
  <2>1. next = none
    BY <1>5, <1>6, <1>7, <1>8
  <2>2. ~Has(at, a + w)
    BY <1>1, <1>2, <1>8 DEF Has, at
  <2> QED BY <2>1, <2>2 DEF next, at, a, want
<1>9. CASE Has(at, a) /\ item.sym < 16
  <2>1. w = 0 /\ item.sym = lens[p + 1] /\ st = 1
    BY <1>1, <1>9 DEF ItemFits, Stretch, st
  <2>2. next = [lens |-> Append(P, item.sym), at |-> at + a]
    BY <1>5, <1>6, <1>7, <1>9
  <2>3. a + w = a
    BY <1>2, <2>1
  <2>4. Begun(Append(P, item.sym), lens, p + 1)
    <3> DEFINE Q == Append(P, item.sym)
    <3>1. item.sym \in 0 .. 15
      BY <1>1, <1>9
    <3>2. /\ Q \in Seq(0 .. 15) /\ Len(Q) = p + 1 /\ Q[p + 1] = item.sym
          /\ \A j \in 1 .. p : Q[j] = P[j]
      BY <1>3, <3>1, AppendProperties
    <3> HIDE DEF Q
    <3>3. ASSUME NEW j \in 1 .. (p + 1) PROVE Q[j] = lens[j]
      <4>1. j \in 1 .. p \/ j = p + 1
        BY <1>1
      <4>2. \A i \in 1 .. p : P[i] = lens[i]
        BY DEF Begun, P
      <4> QED BY <2>1, <3>2, <4>1, <4>2
    <3>4. Begun(Q, lens, p + 1)
      BY <3>2, <3>3 DEF Begun
    <3> QED BY <3>4 DEF Q
  <2>5. next.at = at + a /\ Begun(next.lens, lens, p + st)
    BY <2>1, <2>2, <2>4
  <2> QED BY <1>9, <2>3, <2>5 DEF next, at, a, want, st
<1>10. CASE Has(at, a) /\ ~(item.sym < 16)
  <2>1. d = [sym |-> item.sym, at |-> at + a] /\ d.sym = item.sym /\ d.at = at + a /\ d.sym # None
    BY <1>5, <1>6, <1>10
  <2>2. wide = w
    BY <1>1, <1>10, <2>1 DEF ItemFits, wide
  <2>3. at \in Nat /\ a \in Nat /\ at + a \in Nat
    BY <1>2 DEF at
  <2>4. Has(at + a, w) <=> Has(at, a + w)
    BY <1>1, <1>2, <2>3 DEF Has
  <2>5. CASE ~Has(at + a, w)
    <3>1. next = none
      BY <1>6, <1>7, <1>10, <2>1, <2>2, <2>5
    <3> QED BY <2>4, <2>5, <3>1 DEF next, at, a, want
  <2>6. CASE Has(at + a, w)
    <3>1. Number(at + a, w) = item.extra
      BY <1>1, <1>2, <1>4, <2>3, <2>6, BitsComeBack DEF e
    <3>2. repeat = st
      <4>1. item.sym \in 16 .. 18
        <5> DEFINE s == item.sym
        <5>1. s \in 0 .. 18 /\ ~(s < 16)
          BY <1>1, <1>10
        <5> HIDE DEF s
        <5>2. s \in 16 .. 18
          BY <5>1
        <5> QED BY <5>2 DEF s
      <4>2. repeat = (IF item.sym = 18 THEN 11 ELSE 3) + item.extra
        BY <2>1, <2>2, <3>1 DEF repeat
      <4>3. st = IF item.sym = 18 THEN item.extra + 11 ELSE item.extra + 3
        BY <4>1 DEF st, Stretch
      <4> QED BY <1>1, <4>2, <4>3
    <3>3. p + st <= want /\ st \in Nat
      BY <1>1
    <3>4. ~(item.sym = 16 /\ P = <<>>)
      <4>1. item.sym = 16 => p > 0
        BY <1>10 DEF ItemFits
      <4> QED BY <1>3, <4>1, EmptySeq
    <3>5. value \in 0 .. 15 /\ \A j \in (p + 1) .. (p + st) : lens[j] = value
      <4>1. CASE item.sym = 16
        <5>1. p > 0 /\ \A j \in (p + 1) .. (p + st) : lens[j] = lens[p]
          BY <4>1 DEF ItemFits, st
        <5>2. p \in 1 .. p
          BY <1>1, <5>1
        <5>3. P[p] = lens[p] /\ P[p] \in 0 .. 15
          BY <1>3, <5>2, ElementOfSeq DEF Begun, P
        <5>4. value = P[p]
          BY <1>3, <2>1, <4>1 DEF value
        <5> QED BY <5>1, <5>3, <5>4
      <4>2. CASE item.sym # 16
        <5>1. value = 0
          BY <2>1, <4>2 DEF value
        <5>2. \A j \in (p + 1) .. (p + st) : lens[j] = 0
          BY <1>10, <4>2 DEF ItemFits, st
        <5> QED BY <5>1, <5>2
      <4> QED BY <4>1, <4>2
    <3>6. next = [lens |-> P \o [k \in 1 .. st |-> value], at |-> at + a + w]
      <4>1. ~(Len(P) + repeat > want)
        BY <1>1, <1>3, <3>2, <3>3
      <4> QED BY <1>6, <1>7, <1>10, <2>1, <2>2, <2>6, <3>2, <3>4, <4>1
    <3>7. Begun(P \o [k \in 1 .. st |-> value], lens, p + st)
      BY <1>1, <3>3, <3>5, BegunOn DEF P, want
    <3>8. at + a + w = at + (a + w)
      BY <1>1, <2>3
    <3>9. next.at = at + (a + w) /\ Begun(next.lens, lens, p + st)
      BY <3>6, <3>7, <3>8
    <3> QED BY <2>4, <2>6, <3>9 DEF next, at, a, want, st
  <2> QED BY <2>5, <2>6
<1> QED
  BY <1>8, <1>9, <1>10

Sent(cl, items) == FlattenSeq([j \in DOMAIN items |-> ItemBits(cl, items[j])])

(* When all of the lengths are read, they are the ones that were written.   *)
LEMMA BegunAll ==
  ASSUME NEW lens \in Seq(0 .. 15), NEW P, Begun(P, lens, Len(lens))
  PROVE  P = lens
<1>1. P \in Seq(0 .. 15) /\ Len(P) = Len(lens) /\ \A j \in 1 .. Len(lens) : P[j] = lens[j]
  BY DEF Begun
<1>2. DOMAIN P = 1 .. Len(lens) /\ DOMAIN lens = 1 .. Len(lens)
  BY <1>1, LenProperties
<1>3. P = [j \in 1 .. Len(lens) |-> P[j]] /\ lens = [j \in 1 .. Len(lens) |-> lens[j]]
  BY <1>1, <1>2
<1> QED
  BY <1>1, <1>3

(* The states of the loop of inf_dynamic, and its steps, one symbol after   *)
(* the other; what is over stays as it is.                                  *)
Readings == [lens : {None} \cup Seq(ClSyms), at : Nat]
ReadOver(so, want) == so.lens = None \/ Len(so.lens) = want
Step(so, cl, want) == IF ReadOver(so, want) THEN so ELSE ReadOne(so, cl, want)
Reads(f, from, cl, want) ==
  /\ f[0] = [lens |-> <<>>, at |-> from]
  /\ \A k \in 1 .. want : f[k] = Step(f[k - 1], cl, want)
  /\ ReadOver(f[want], want) => ReadLengths(from, cl, want) = f[want]

(* Whatever the bits are, they are read as a number.                        *)
LEMMA NumberIn ==
  ASSUME bits \in Seq(Bits01), NEW i \in Nat, NEW n \in Nat
  PROVE  Number(i, n) \in Nat
<1> DEFINE V == Nat
           G == [x \in V \X (1 .. n) |-> x[1] + Bit(i + x[2] - 1) * 2 ^ (x[2] - 1)]
           Is(f) == f = [k \in 0 .. n |-> IF k = 0 THEN 0
                                          ELSE f[k - 1] + Bit(i + k - 1) * 2 ^ (k - 1)]
<1>1. ASSUME NEW v \in V, NEW k \in 1 .. n PROVE v + Bit(i + k - 1) * 2 ^ (k - 1) \in V
  <2>1. i + k - 1 \in Nat /\ k - 1 \in Nat
    OBVIOUS
  <2>2. Bit(i + k - 1) \in Nat
    BY <2>1, BitIs DEF Bits01
  <2>3. 2 ^ (k - 1) \in Nat
    BY <2>1, Doubles
  <2> DEFINE b == Bit(i + k - 1)
             e == 2 ^ (k - 1)
  <2> HIDE DEF b, e
  <2>4. b \in Nat /\ e \in Nat => v + b * e \in V
    OBVIOUS
  <2> QED BY <2>2, <2>3, <2>4 DEF b, e
<1>2. G \in [V \X (1 .. n) -> V]
  BY <1>1
<1>3. \A v \in V, k \in 1 .. n : G[<<v, k>>] = v + Bit(i + k - 1) * 2 ^ (k - 1)
  OBVIOUS
<1>4. 0 \in V
  OBVIOUS
<1> HIDE DEF G, V
<1>5. PICK g \in [0 .. n -> V] : Follows(g, n, 0, G)
  BY <1>2, <1>4, Recursion
<1>6. Is(g)
  <2>1. ASSUME NEW k \in 0 .. n
        PROVE  g[k] = IF k = 0 THEN 0 ELSE g[k - 1] + Bit(i + k - 1) * 2 ^ (k - 1)
    <3>1. CASE k = 0
      BY <1>5, <3>1 DEF Follows
    <3>2. CASE k # 0
      <4>1. k \in 1 .. n /\ k - 1 \in 0 .. n
        BY <3>2
      <4> QED BY <1>3, <1>5, <3>2, <4>1 DEF Follows
    <3> QED BY <3>1, <3>2
  <2>2. g = [k \in 0 .. n |-> g[k]]
    BY <1>5
  <2> QED BY <2>1, <2>2
<1> DEFINE f == CHOOSE f : Is(f)
<1>7. Is(f)
  BY <1>6
<1>8. Number(i, n) = f[n]
  BY DEF Number
<1> HIDE DEF f
<1> DEFINE P == {k \in 0 .. n : f[k] \in V}
<1>9. 0 \in P
  BY <1>4, <1>7
<1>10. ASSUME NEW k \in 1 .. n, k - 1 \in P PROVE k \in P
  <2>1. k \in 0 .. n /\ f[k - 1] \in V /\ f[k] = f[k - 1] + Bit(i + k - 1) * 2 ^ (k - 1)
    BY <1>7, <1>10
  <2> QED BY <1>1, <2>1
<1>11. n \in P
  <2> HIDE DEF P
  <2>1. 0 .. n \subseteq P
    BY <1>9, <1>10, Upward
  <2> QED BY <2>1
<1> QED
  BY <1>8, <1>11 DEF V

(* Decoding never goes back.                                                *)
LEMMA DecodeAt ==
  ASSUME bits \in Seq(Bits01), NEW lens, NEW at \in Nat
  PROVE  Decode(at, lens).at \in Nat
<1>1. PICK code : Walk(code, at) /\ Decode(at, lens) = DecodeBy(code, at, lens)
  BY DecodeIs
<1> DEFINE ends == {n \in 1 .. MaxBits : code[n] - CountOf(lens, n) < FirstOf(lens, n)}
           n == CHOOSE n \in ends : \A m \in ends : n <= m
           s == CHOOSE s \in DOMAIN lens :
                  lens[s] = n /\ Place(lens, s) = code[n] - FirstOf(lens, n)
<1>2. Decode(at, lens) = IF ends = {} \/ ~Has(at, n) THEN [sym |-> None, at |-> at]
                         ELSE [sym |-> s, at |-> at + n]
  BY <1>1 DEF DecodeBy
<1>3. ends \in SUBSET Nat
  <2>1. ends \subseteq 1 .. MaxBits /\ MaxBits \in Nat
    BY FormatAssumption
  <2> HIDE DEF ends
  <2> QED BY <2>1
<1> HIDE DEF ends, s
<1>4. ends # {} => n \in Nat
  <2>1. ends # {} => \E m \in ends : \A j \in ends : m <= j
    BY <1>3, Smallest
  <2> QED BY <1>3, <2>1
<1> HIDE DEF n
<1>5. CASE ends = {} \/ ~Has(at, n)
  <2>1. Decode(at, lens) = [sym |-> None, at |-> at]
    BY <1>2, <1>5
  <2> QED BY <2>1
<1>6. CASE ~(ends = {} \/ ~Has(at, n))
  <2>1. Decode(at, lens) = [sym |-> s, at |-> at + n] /\ at + n \in Nat
    BY <1>2, <1>4, <1>6
  <2> QED BY <2>1
<1> QED
  BY <1>5, <1>6

(* What a symbol leaves behind is a state of the loop again.                *)
LEMMA ReadOneIn ==
  ASSUME bits \in Seq(Bits01), NEW so \in Readings, NEW cl, NEW want, so.lens # None
  PROVE  ReadOne(so, cl, want) \in Readings
<1> DEFINE d == Decode(so.at, cl)
           w == CASE d.sym = 16 -> 2 [] d.sym = 17 -> 3 [] OTHER -> 7
           repeat == (IF d.sym = 18 THEN 11 ELSE 3) + Number(d.at, w)
           value  == IF d.sym = 16 THEN so.lens[Len(so.lens)] ELSE 0
           more   == [k \in 1 .. repeat |-> value]
           none   == [lens |-> None, at |-> so.at]
<1>1. so.lens \in Seq(ClSyms) /\ so.at \in Nat /\ none \in Readings
  BY DEF Readings
<1>2. d.at \in Nat
  BY <1>1, DecodeAt
<1> HIDE DEF d
<1>3. w \in Nat /\ Number(d.at, w) \in Nat
  <2>1. w \in Nat
    OBVIOUS
  <2> HIDE DEF w
  <2> QED BY <1>2, <2>1, NumberIn
<1> HIDE DEF w
<1>4. repeat \in Nat /\ d.at + w \in Nat
  BY <1>2, <1>3
<1>5. ReadOne(so, cl, want) =
        IF d.sym \notin ClSyms THEN none
        ELSE IF d.sym < 16 THEN [lens |-> Append(so.lens, d.sym), at |-> d.at]
        ELSE IF \/ d.sym = 16 /\ so.lens = <<>>
                \/ ~Has(d.at, w)
                \/ Len(so.lens) + repeat > want THEN none
        ELSE [lens |-> so.lens \o more, at |-> d.at + w]
  BY DEF ReadOne, ReadItem, d, w
<1>6. CASE d.sym \notin ClSyms
  BY <1>1, <1>5, <1>6
<1>7. CASE d.sym \in ClSyms /\ d.sym < 16
  <2>1. Append(so.lens, d.sym) \in Seq(ClSyms)
    BY <1>1, <1>7, AppendProperties
  <2> QED BY <1>2, <1>5, <1>7, <2>1 DEF Readings
<1>8. CASE d.sym \in ClSyms /\ ~(d.sym < 16)
  <2>1. CASE d.sym = 16 /\ so.lens = <<>>
    BY <1>1, <1>5, <1>8, <2>1
  <2>2. CASE ~(d.sym = 16 /\ so.lens = <<>>)
    <3>1. value \in ClSyms
      <4>1. CASE d.sym = 16
        <5>1. Len(so.lens) \in 1 .. Len(so.lens)
          <6>1. Len(so.lens) \in Nat /\ Len(so.lens) # 0
            BY <1>1, <2>2, <4>1, LenProperties, EmptySeq
          <6> QED BY <6>1
        <5> QED BY <1>1, <4>1, <5>1, ElementOfSeq
      <4>2. CASE d.sym # 16
        BY <4>2 DEF ClSyms
      <4> QED BY <4>1, <4>2
    <3> HIDE DEF value, repeat
    <3>2. more \in Seq(ClSyms)
      BY <1>4, <3>1, IsASeq
    <3> HIDE DEF more
    <3>3. so.lens \o more \in Seq(ClSyms)
      BY <1>1, <3>2, ConcatProperties
    <3>4. [lens |-> so.lens \o more, at |-> d.at + w] \in Readings
      BY <1>4, <3>3 DEF Readings
    <3> HIDE DEF none
    <3> QED BY <1>1, <1>5, <1>8, <3>4
  <2> QED BY <2>1, <2>2
<1> QED
  BY <1>6, <1>7, <1>8

(* The loop of inf_dynamic over the items.                                  *)
LEMMA ReadsIs ==
  ASSUME bits \in Seq(Bits01), NEW from \in Nat, NEW cl, NEW want \in Nat
  PROVE  \E f : Reads(f, from, cl, want)
<1> DEFINE Z == [lens |-> <<>>, at |-> from]
           S == Readings
           E == {so \in S : ReadOver(so, want)}
           G == [so \in S |-> Step(so, cl, want)]
           H == [x \in S \X (1 .. want) |-> G[x[1]]]
           Is(r) == r = [so \in S |-> IF so.lens = None \/ Len(so.lens) = want THEN so
                                      ELSE r[ReadOne(so, cl, want)]]
<1>1. Z \in S
  BY EmptySeq DEF Readings
<1>2. G \in [S -> S]
  <2>1. ASSUME NEW so \in S PROVE Step(so, cl, want) \in S
    BY ReadOneIn DEF Step, ReadOver
  <2> HIDE DEF S
  <2> QED BY <2>1
<1>3. \A so \in S : G[so] = Step(so, cl, want)
  OBVIOUS
<1>4. E \subseteq S /\ \A so \in S : so \in E <=> ReadOver(so, want)
  OBVIOUS
<1> HIDE DEF Z, G, S, E
<1>5. PICK r : r = [so \in S |-> IF so \in E THEN so ELSE r[G[so]]]
  BY <1>2, Loop
<1>6. \A so \in S : r[so] = IF so \in E THEN so ELSE r[G[so]]
  BY <1>5
<1>7. Is(r)
  <2>1. ASSUME NEW so \in S
        PROVE  (IF so \in E THEN so ELSE r[G[so]])
               = IF so.lens = None \/ Len(so.lens) = want THEN so ELSE r[ReadOne(so, cl, want)]
    BY <1>3, <1>4 DEF Step, ReadOver
  <2> QED BY <1>5, <2>1
<1> DEFINE g == CHOOSE x : Is(x)
<1>8. Is(g)
  BY <1>7
<1>9. ReadLengths(from, cl, want) = g[Z]
  BY DEF ReadLengths, S, Readings, Z
<1> HIDE DEF g
<1>10. ASSUME NEW so \in S PROVE g[so] = g[G[so]] /\ (ReadOver(so, want) => g[so] = so)
  <2>1. g[so] = IF ReadOver(so, want) THEN so ELSE g[ReadOne(so, cl, want)]
    BY <1>8 DEF ReadOver
  <2> QED BY <1>3, <2>1 DEF Step
<1>11. H \in [S \X (1 .. want) -> S]
  BY <1>2
<1>12. \A so \in S, k \in 1 .. want : H[<<so, k>>] = G[so]
  OBVIOUS
<1> HIDE DEF H, Is
<1>13. PICK f \in [0 .. want -> S] : Follows(f, want, Z, H)
  BY <1>1, <1>11, Recursion
<1>14. f[0] = Z /\ \A k \in 1 .. want : k - 1 \in 0 .. want /\ f[k - 1] \in S /\ f[k] = G[f[k - 1]]
  <2>1. ASSUME NEW k \in 1 .. want PROVE k - 1 \in 0 .. want /\ f[k - 1] \in S
    <3>1. k - 1 \in 0 .. want
      OBVIOUS
    <3> QED BY <3>1
  <2> QED BY <1>12, <1>13, <2>1 DEF Follows
<1> DEFINE P == {k \in 0 .. want : g[f[k]] = g[Z]}
<1>15. 0 \in P
  BY <1>14
<1>16. ASSUME NEW k \in 1 .. want, k - 1 \in P PROVE k \in P
  <2>1. k \in 0 .. want
    OBVIOUS
  <2> QED BY <1>10, <1>14, <1>16, <2>1
<1>17. g[f[want]] = g[Z] /\ f[want] \in S
  <2> HIDE DEF P
  <2>1. 0 .. want \subseteq P
    BY <1>15, <1>16, Upward
  <2>2. want \in 0 .. want
    OBVIOUS
  <2> QED BY <2>1, <2>2 DEF P
<1>18. \A k \in 1 .. want : f[k] = Step(f[k - 1], cl, want)
  BY <1>3, <1>14
<1>19. ReadOver(f[want], want) => ReadLengths(from, cl, want) = f[want]
  BY <1>9, <1>10, <1>17
<1> QED
  BY <1>14, <1>18, <1>19 DEF Reads, Z

(* Each symbol says one length or more, so that there are no more of them.   *)
LEMMA SpelledSteps ==
  ASSUME NEW lens \in Seq(0 .. 15), NEW p, NEW items, Spelled(p, lens, Len(lens), items)
  PROVE  Len(items) \in 0 .. Len(lens)
<1> DEFINE K == Len(items)
           n == Len(lens)
           P == {j \in 0 .. K : p[j] >= j}
<1>1. K \in Nat /\ n \in Nat /\ p \in [0 .. K -> 0 .. n] /\ p[0] = 0 /\ p[K] = n
  BY LenProperties DEF Spelled
<1>2. ASSUME NEW j \in 1 .. K
      PROVE  p[j - 1] \in 0 .. (n - 1) /\ p[j] > p[j - 1] /\ j \in 0 .. K /\ j - 1 \in 0 .. K
  <2>1. ItemFits(lens, p[j - 1], items[j]) /\ p[j] = p[j - 1] + Stretch(items[j])
    BY DEF Spelled
  <2>2. p[j - 1] \in 0 .. (n - 1) /\ Stretch(items[j]) \in 1 .. (n - p[j - 1])
    BY <2>1 DEF ItemFits
  <2> HIDE DEF K, n
  <2> QED BY <1>1, <2>1, <2>2
<1> HIDE DEF K, n
<1>3. 0 \in P
  BY <1>1
<1>4. ASSUME NEW j \in 1 .. K, j - 1 \in P PROVE j \in P
  <2>1. p[j] \in Nat /\ p[j - 1] \in Nat
    BY <1>1, <1>2
  <2> QED BY <1>1, <1>2, <1>4, <2>1
<1>5. K \in P
  <2> HIDE DEF P
  <2>1. 0 .. K \subseteq P
    BY <1>1, <1>3, <1>4, Upward
  <2> QED BY <1>1, <2>1
<1> QED
  BY <1>1, <1>5 DEF K, n

(* It stays as it is once it is done.                                       *)
LEMMA ReadDone ==
  ASSUME NEW so, NEW cl, NEW want, so.lens = None \/ Len(so.lens) = want
  PROVE  Step(so, cl, want) = so
BY DEF Step, ReadOver

(* What has begun has not failed.                                           *)
LEMMA BegunIsNotNone ==
  ASSUME NEW lens, NEW p, NEW P, Begun(P, lens, p)
  PROVE  P # None /\ Len(P) = p
<1>1. P \in Seq(0 .. 15) /\ Len(P) = p
  BY DEF Begun
<1>2. Seq(0 .. 15) \subseteq Seq(Nat)
  <2>1. \A S, T : S \subseteq T => Seq(S) \subseteq Seq(T)
    OBVIOUS
  <2>2. 0 .. 15 \subseteq Nat
    OBVIOUS
  <2> QED BY <2>1, <2>2
<1> QED
  BY <1>1, <1>2, FormatAssumption

(* inf_dynamic reads back the lengths of encode_lengths, or is at the end   *)
(* of the stream.                                                           *)
LEMMA LengthsRead ==
  ASSUME NEW W, Stream(W), NEW cl, NEW lens \in Seq(0 .. 15), NEW p, NEW items,
         Spelled(p, lens, Len(lens), items),
         \A j \in 1 .. Len(items) : CodeFor(cl, items[j].sym),
         NEW from \in Nat, Has(from, 0), Holds(W, from, Sent(cl, items))
  PROVE  LET r == ReadLengths(from, cl, Len(lens))
             w == Len(Sent(cl, items))
         IN  IF Has(from, w) THEN r.lens = lens /\ r.at = from + w ELSE r.lens = None
<1> DEFINE K == Len(items)
           n == Len(lens)
           B == Len(bits)
           seqs == [j \in 1 .. K |-> ItemBits(cl, items[j])]
<1>1. /\ K \in Nat /\ n \in Nat /\ B \in Nat /\ K \in 0 .. n /\ W \in Seq(Bits01)
      /\ \A j \in 1 .. K : items[j] \in Items /\ CodeFor(cl, items[j].sym)
      /\ p \in [0 .. K -> 0 .. n] /\ p[0] = 0 /\ p[K] = n
  <2>1. items \in Seq(Items) /\ bits \in Seq(Bits01) /\ W \in Seq(Bits01)
    BY DEF Spelled, Stream
  <2>2. K \in Nat /\ n \in Nat /\ B \in Nat /\ \A j \in 1 .. K : items[j] \in Items
    BY <2>1, LenProperties, ElementOfSeq
  <2> QED BY <2>1, <2>2, SpelledSteps DEF Spelled
<1>2. DOMAIN items = 1 .. K
  BY LenProperties DEF Spelled
<1>3. ASSUME NEW j \in 1 .. K
      PROVE  seqs[j] = ItemBits(cl, items[j]) /\ seqs[j] \in Seq(Bits01)
             /\ Len(seqs[j]) = cl[items[j].sym] + items[j].width
  BY <1>1, ItemBitsAre
<1>4. seqs \in Seq(Seq(Bits01)) /\ Len(seqs) = K
  <2>1. seqs \in [1 .. K -> Seq(Bits01)] /\ DOMAIN seqs = 1 .. K
    BY <1>3
  <2> HIDE DEF seqs
  <2>2. seqs \in Seq(Seq(Bits01))
    <3> HIDE DEF K
    <3> QED BY <1>1, <2>1, IsASeq
  <2> DEFINE m == Len(seqs)
  <2>3. m \in Nat /\ 1 .. m = 1 .. K
    BY <2>1, <2>2, LenProperties
  <2> HIDE DEF m, K
  <2>4. m = K
    BY <1>1, <2>3, SameUpTo
  <2> QED BY <2>2, <2>4 DEF m
<1>5. Sent(cl, items) = FlattenSeq(seqs)
  BY <1>2 DEF Sent
<1> HIDE DEF seqs
<1>6. PICK off : Offsets(off, from, seqs) /\ \A j \in 1 .. K : Holds(W, off[j - 1], seqs[j])
  <2>1. Holds(W, from, FlattenSeq(seqs))
    BY <1>5
  <2> QED BY <1>1, <1>4, <2>1, Pieces
<1>7. /\ off \in [0 .. K -> Nat] /\ off[0] = from /\ off[K] = from + Len(Sent(cl, items))
      /\ \A j \in 1 .. K : off[j] = off[j - 1] + (cl[items[j].sym] + items[j].width)
  BY <1>3, <1>4, <1>5, <1>6 DEF Offsets
<1>8. PICK f : Reads(f, from, cl, n)
  <2>1. bits \in Seq(Bits01)
    BY DEF Stream
  <2> QED BY <1>1, <2>1, ReadsIs
<1> DEFINE At(k) == IF k <= K THEN k ELSE K
           Fine(k) == IF off[At(k)] <= B
                      THEN f[k].at = off[At(k)] /\ Begun(f[k].lens, lens, p[At(k)])
                      ELSE f[k].lens = None
           P == {k \in 0 .. n : Fine(k)}
<1>9. \A k \in 0 .. n : At(k) \in 0 .. K
  BY <1>1
<1>10. 0 \in P
  <2>1. At(0) = 0 /\ f[0].lens = <<>> /\ f[0].at = from
    BY <1>1, <1>8 DEF Reads
  <2>2. Begun(<<>>, lens, 0)
    BY EmptySeq DEF Begun
  <2>3. from <= B
    BY <1>1 DEF Has
  <2> QED BY <1>1, <1>7, <2>1, <2>2, <2>3
<1>11. ASSUME NEW k \in 1 .. n, k - 1 \in P PROVE k \in P
  <2>1. f[k] = Step(f[k - 1], cl, n) /\ k \in 0 .. n /\ Fine(k - 1)
    BY <1>8, <1>11 DEF Reads
  <2>2. CASE k <= K
    <3> DEFINE w == cl[items[k].sym] + items[k].width
    <3>1. /\ At(k) = k /\ At(k - 1) = k - 1 /\ k \in 1 .. K /\ off[k - 1] \in Nat /\ off[k] \in Nat
          /\ off[k] = off[k - 1] + w /\ w \in Nat
      <4>1. k \in 1 .. K /\ k - 1 \in 0 .. K /\ k \in 0 .. K
        BY <1>1, <2>2
      <4>2. Len(seqs[k]) \in Nat /\ Len(seqs[k]) = w
        BY <1>3, <4>1, LenProperties
      <4>3. off[k - 1] \in Nat /\ off[k] \in Nat /\ off[k] = off[k - 1] + w
        BY <1>7, <4>1
      <4>4. At(k) = k /\ At(k - 1) = k - 1
        BY <1>1, <2>2
      <4>5. w \in Nat
        BY <4>2
      <4> QED BY <4>1, <4>3, <4>4, <4>5
    <3>2. ItemFits(lens, p[k - 1], items[k]) /\ p[k] = p[k - 1] + Stretch(items[k])
      BY <3>1 DEF Spelled
    <3>3. CASE off[k - 1] <= B
      <4>1. f[k - 1].at = off[k - 1] /\ Begun(f[k - 1].lens, lens, p[k - 1])
        BY <2>1, <3>1, <3>3
      <4>2. Holds(W, off[k - 1], ItemBits(cl, items[k])) /\ CodeFor(cl, items[k].sym)
        BY <1>1, <1>3, <1>6, <3>1
      <4>3. Has(off[k - 1], w) <=> off[k] <= B
        BY <1>1, <3>1 DEF Has
      <4>4. IF Has(off[k - 1], w)
            THEN f[k].at = off[k - 1] + w /\ Begun(f[k].lens, lens, p[k - 1] + Stretch(items[k]))
            ELSE f[k].lens = None
        <5> DEFINE so == f[k - 1]
                   item == items[k]
                   q == p[k - 1]
        <5>1. /\ ItemFits(lens, q, item) /\ CodeFor(cl, item.sym) /\ so.at \in Nat
              /\ Begun(so.lens, lens, q) /\ Holds(W, so.at, ItemBits(cl, item))
          BY <3>1, <3>2, <4>1, <4>2
        <5>2. f[k] = ReadOne(so, cl, Len(lens)) /\ off[k - 1] = so.at
          <6>1. so.lens # None /\ Len(so.lens) = q
            BY <5>1, BegunIsNotNone
          <6>2. q # Len(lens)
            <7>1. q \in 0 .. (Len(lens) - 1) /\ Len(lens) \in Nat
              BY <1>1, <5>1 DEF ItemFits
            <7> HIDE DEF q
            <7> QED BY <7>1
          <6>3. f[k] = Step(so, cl, Len(lens)) /\ off[k - 1] = so.at
            BY <2>1, <4>1
          <6> HIDE DEF so, q
          <6> QED BY <6>1, <6>2, <6>3 DEF Step, ReadOver
        <5> HIDE DEF so, item, q, Fine, P
        <5>3. LET next == ReadOne(so, cl, Len(lens))
                  z    == cl[item.sym] + item.width
              IN  IF Has(so.at, z)
                  THEN next.at = so.at + z /\ Begun(next.lens, lens, q + Stretch(item))
                  ELSE next.lens = None
          BY <5>1, ReadOneIs
        <5>4. IF Has(so.at, w)
              THEN f[k].at = so.at + w /\ Begun(f[k].lens, lens, q + Stretch(item))
              ELSE f[k].lens = None
          BY <5>2, <5>3 DEF item
        <5> QED BY <5>2, <5>4 DEF q, item
      <4> HIDE DEF w
      <4>5. Fine(k)
        BY <3>1, <3>2, <4>3, <4>4
      <4> QED BY <2>1, <4>5
    <3>4. CASE ~(off[k - 1] <= B)
      <4>1. f[k - 1].lens = None
        BY <2>1, <3>1, <3>4
      <4>2. f[k] = f[k - 1]
        BY <2>1, <4>1, ReadDone
      <4> HIDE DEF w
      <4>3. ~(off[k] <= B)
        BY <1>1, <3>1, <3>4
      <4> QED BY <2>1, <3>1, <4>1, <4>2, <4>3
    <3> QED BY <3>3, <3>4
  <2>3. CASE ~(k <= K)
    <3>1. At(k) = K /\ At(k - 1) = K
      BY <1>1, <2>3
    <3>2. f[k - 1].lens = None \/ Len(f[k - 1].lens) = n
      BY <1>1, <2>1, <3>1, BegunIsNotNone
    <3>3. f[k] = f[k - 1]
      BY <2>1, <3>2, ReadDone
    <3> QED BY <2>1, <3>1, <3>3
  <2> QED BY <2>2, <2>3
<1>12. \A k \in 0 .. n : Fine(k)
  <2> HIDE DEF P, Fine
  <2>1. 0 .. n \subseteq P
    BY <1>1, <1>10, <1>11, Upward
  <2> QED BY <2>1 DEF P
<1>13. ReadOver(f[n], n) => ReadLengths(from, cl, n) = f[n]
  BY <1>8 DEF Reads
<1>14. Fine(n) /\ At(n) = K
  BY <1>1, <1>12
<1> DEFINE w == Len(Sent(cl, items))
<1>15. Has(from, w) <=> off[K] <= B
  BY <1>7 DEF Has
<1> HIDE DEF w, At
<1>16. CASE off[K] <= B
  <2>1. f[n].at = off[K] /\ Begun(f[n].lens, lens, n)
    BY <1>1, <1>14, <1>16
  <2>2. f[n].lens = lens
    BY <2>1, BegunAll
  <2>3. ReadOver(f[n], n)
    BY <2>2 DEF ReadOver
  <2> QED BY <1>7, <1>13, <1>15, <1>16, <2>1, <2>2, <2>3 DEF w
<1>17. CASE ~(off[K] <= B)
  <2>1. f[n].lens = None /\ ReadOver(f[n], n)
    BY <1>14, <1>17 DEF ReadOver
  <2> QED BY <1>13, <1>15, <1>17, <2>1 DEF w
<1> QED BY <1>16, <1>17

(***************************************************************************)
(* The code-length code, its own lengths and the items sent with it.         *)
(***************************************************************************)
ValuesOf(lens) == {lens[i] : i \in DOMAIN lens}
Sendable(lens) == /\ lens \in Seq(0 .. 15) /\ lens # <<>>
                  /\ Cardinality(ValuesOf(lens)) + 3 <= 2 ^ ClMaxBits

(* The order of the code length code names each of its symbols once.        *)
LEMMA ClOrderIs ==
  /\ \A k \in 1 .. 19 : ClOrder[k] \in 0 .. 18
  /\ \A s \in 0 .. 18 : \E k \in 1 .. 19 : ClOrder[k] = s
  /\ \A j, k \in 1 .. 19 : ClOrder[j] = ClOrder[k] => j = k
<1> DEFINE At(s) == CASE s = 0 -> 4 [] s = 1 -> 18 [] s = 2 -> 16 [] s = 3 -> 14 [] s = 4 -> 12
                      [] s = 5 -> 10 [] s = 6 -> 8 [] s = 7 -> 6 [] s = 8 -> 5 [] s = 9 -> 7
                      [] s = 10 -> 9 [] s = 11 -> 11 [] s = 12 -> 13 [] s = 13 -> 15
                      [] s = 14 -> 17 [] s = 15 -> 19 [] s = 16 -> 1 [] s = 17 -> 2
                      [] OTHER -> 3
<1>1. \A k \in 1 .. 19 : ClOrder[k] \in 0 .. 18 /\ At(ClOrder[k]) = k
  BY DEF ClOrder
<1>2. \A s \in 0 .. 18 : At(s) \in 1 .. 19 /\ ClOrder[At(s)] = s
  BY DEF ClOrder
<1> HIDE DEF At
<1> QED
  BY <1>1, <1>2

(* How many numbers there are from one to another.                          *)
LEMMA Between ==
  ASSUME NEW a \in Int, NEW b \in Int, a <= b
  PROVE  IsFiniteSet(a .. b) /\ Cardinality(a .. b) = b - a + 1
BY FS_Interval

(* The symbols of the items, counted.                                       *)
LEMMA ItemFreqIs ==
  ASSUME NEW items \in Seq(Items)
  PROVE  LET f == ItemFreq(items)
         IN  /\ DOMAIN f = 0 .. 18 /\ Alphabet(f)
             /\ \A s \in 0 .. 18 : f[s] > 0 <=> \E j \in 1 .. Len(items) : items[j].sym = s
<1> DEFINE K == Len(items)
           f == ItemFreq(items)
           At(s) == {i \in 1 .. K : items[i].sym = s}
<1>1. DOMAIN items = 1 .. K /\ K \in Nat
  BY LenProperties
<1>2. f = [s \in 0 .. 18 |-> Cardinality(At(s))]
  BY <1>1 DEF ItemFreq, ClSyms
<1> HIDE DEF f, K
<1>3. IsFiniteSet(1 .. K) /\ IsFiniteSet(0 .. 18) /\ 0 .. 18 \subseteq Int
  <2>1. 0 \in Int /\ 18 \in Int /\ 1 \in Int /\ K \in Int /\ 0 .. 18 \subseteq Int
    BY <1>1
  <2>2. IsFiniteSet(0 .. 18)
    BY <2>1, FS_Interval
  <2>3. IsFiniteSet(1 .. K)
    BY <2>1, FS_Interval
  <2> QED BY <2>1, <2>2, <2>3
<1>4. ASSUME NEW s \in 0 .. 18
      PROVE  Cardinality(At(s)) \in Nat /\ (Cardinality(At(s)) > 0 <=> At(s) # {})
  <2>1. At(s) \subseteq 1 .. K
    OBVIOUS
  <2> HIDE DEF At
  <2>2. IsFiniteSet(At(s))
    BY <1>3, <2>1, FS_Subset
  <2>3. Cardinality(At(s)) \in Nat /\ (Cardinality(At(s)) = 0 <=> At(s) = {})
    BY <2>2, FS_CardinalityType, FS_EmptySet
  <2> QED BY <2>3
<1>5. DOMAIN f = 0 .. 18 /\ f \in [DOMAIN f -> Nat]
  <2> HIDE DEF At
  <2> QED BY <1>2, <1>4
<1>6. ASSUME NEW s \in 0 .. 18
      PROVE  f[s] > 0 <=> \E j \in 1 .. K : items[j].sym = s
  <2>1. f[s] = Cardinality(At(s))
    BY <1>2
  <2>2. f[s] > 0 <=> At(s) # {}
    BY <1>4, <2>1
  <2> QED BY <2>2
<1> QED
  BY <1>3, <1>5, <1>6 DEF Alphabet, f, K

(* The symbol of an item is one of the lengths, or says how often to repeat *)
(* one.                                                                     *)
LEMMA ItemSyms ==
  ASSUME NEW lens \in Seq(0 .. 15), NEW p, NEW at, NEW items, Spelled(p, lens, at, items),
         NEW j \in 1 .. Len(items)
  PROVE  items[j].sym \in (ValuesOf(lens) \cup 16 .. 18) /\ items[j].sym \in 0 .. 18
<1> DEFINE i == p[j - 1]
           s == items[j].sym
<1>1. ItemFits(lens, i, items[j])
  BY DEF Spelled
<1>2. i \in 0 .. (Len(lens) - 1) /\ items[j] \in Items /\ (s = lens[i + 1] \/ s \in {16, 17, 18})
  BY <1>1 DEF ItemFits
<1>3. DOMAIN lens = 1 .. Len(lens) /\ Len(lens) \in Nat
  BY LenProperties
<1>4. i + 1 \in DOMAIN lens
  <2> HIDE DEF i
  <2> QED BY <1>2, <1>3
<1>5. s \in 0 .. 18
  BY <1>2 DEF Items
<1>6. s = lens[i + 1] => s \in ValuesOf(lens)
  BY <1>4 DEF ValuesOf
<1> HIDE DEF s
<1>7. s \in {16, 17, 18} => s \in 16 .. 18
  OBVIOUS
<1>8. s \in (ValuesOf(lens) \cup 16 .. 18)
  BY <1>2, <1>6, <1>7
<1> QED
  BY <1>5, <1>8 DEF s

(* There are only so many different lengths.                                *)
LEMMA ValuesAre ==
  ASSUME NEW lens \in Seq(0 .. 15)
  PROVE  /\ IsFiniteSet(ValuesOf(lens)) /\ Cardinality(ValuesOf(lens)) \in Nat
         /\ lens # <<>> => Cardinality(ValuesOf(lens)) > 0
<1>1. DOMAIN lens = 1 .. Len(lens) /\ Len(lens) \in Nat
  BY LenProperties
<1>2. ValuesOf(lens) \subseteq 0 .. 15
  <2>1. \A i \in DOMAIN lens : lens[i] \in 0 .. 15
    BY <1>1, ElementOfSeq
  <2> QED BY <2>1 DEF ValuesOf
<1>3. IsFiniteSet(0 .. 15)
  <2>1. 0 \in Int /\ 15 \in Int
    OBVIOUS
  <2> QED BY <2>1, FS_Interval
<1>4. IsFiniteSet(ValuesOf(lens))
  BY <1>2, <1>3, FS_Subset
<1>5. Cardinality(ValuesOf(lens)) \in Nat
      /\ (Cardinality(ValuesOf(lens)) = 0 <=> ValuesOf(lens) = {})
  BY <1>4, FS_CardinalityType, FS_EmptySet
<1>6. lens # <<>> => ValuesOf(lens) # {}
  <2>1. lens # <<>> => 1 \in DOMAIN lens
    <3>1. lens # <<>> => Len(lens) > 0
      BY EmptySeq, <1>1
    <3> QED BY <1>1, <3>1
  <2> QED BY <2>1 DEF ValuesOf
<1> QED
  BY <1>4, <1>5, <1>6

(* The code length code is complete, no code of it is longer than 7 bits,   *)
(* and each item has one.                                                   *)
LEMMA ClTableIs ==
  ASSUME NEW lens, Sendable(lens), NEW p, NEW at, NEW items, Spelled(p, lens, at, items)
  PROVE  LET cl == ClTable(items)
         IN  /\ Alphabet(cl) /\ DOMAIN cl = 0 .. 18 /\ LeftOver(cl) = 0
             /\ \A s \in 0 .. 18 : cl[s] \in 0 .. 7
             /\ \A j \in 1 .. Len(items) : CodeFor(cl, items[j].sym)
<1> DEFINE f == ItemFreq(items)
           cl == ClTable(items)
           V == ValuesOf(lens)
           T == 16 .. 18
<1>1. lens \in Seq(0 .. 15) /\ items \in Seq(Items) /\ lens # <<>> /\ Cardinality(V) + 3 <= 2 ^ ClMaxBits
  BY DEF Sendable, Spelled
<1>2. /\ DOMAIN f = 0 .. 18 /\ Alphabet(f)
      /\ \A s \in 0 .. 18 : f[s] > 0 <=> \E j \in 1 .. Len(items) : items[j].sym = s
  BY <1>1, ItemFreqIs
<1> HIDE DEF f
<1>3. ClMaxBits \in 1 .. 7 /\ ClMaxBits <= MaxBits /\ MaxBits \in 1 .. 15
  BY FormatAssumption
<1>4. IsFiniteSet(V) /\ Cardinality(V) \in Nat \ {0}
  BY <1>1, ValuesAre
<1> HIDE DEF V
<1>5. ClMaxBits \in 2 .. MaxBits
  <2>1. 2 ^ 1 = 2
    OBVIOUS
  <2>2. ClMaxBits # 1
    <3>1. ASSUME ClMaxBits = 1 PROVE FALSE
      <4>1. 2 ^ ClMaxBits = 2
        BY <2>1, <3>1
      <4> DEFINE z == Cardinality(V)
      <4>2. z + 3 <= 2 /\ z \in Nat
        BY <1>1, <1>4, <4>1 DEF V
      <4> HIDE DEF z
      <4> QED BY <4>2
    <3> QED BY <3>1
  <2> QED BY <1>3, <2>2
<1>6. Cardinality(Used(f)) <= 2 ^ ClMaxBits
  <2>1. IsFiniteSet(T) /\ Cardinality(T) = 3
    <3>1. 16 \in Int /\ 18 \in Int /\ 16 <= 18 /\ 18 - 16 + 1 = 3
      OBVIOUS
    <3> QED BY <3>1, Between
  <2> HIDE DEF T
  <2>2. IsFiniteSet(V \cup T) /\ Cardinality(V \cup T) = Cardinality(V) + Cardinality(T) - Cardinality(V \cap T)
    BY <1>4, <2>1, FS_Union
  <2>3. Cardinality(V \cap T) \in Nat
    BY <1>4, FS_Intersection, FS_CardinalityType
  <2>4. Used(f) \subseteq V \cup T
    <3>1. ASSUME NEW s \in Used(f) PROVE s \in V \cup T
      <4>1. s \in 0 .. 18 /\ f[s] > 0
        BY <1>2 DEF Used
      <4>2. PICK j \in 1 .. Len(items) : items[j].sym = s
        BY <1>2, <4>1
      <4> QED BY <1>1, <4>2, ItemSyms DEF V, T
    <3> QED BY <3>1
  <2>5. Cardinality(Used(f)) \in Nat /\ Cardinality(Used(f)) <= Cardinality(V \cup T)
    BY <2>2, <2>4, FS_Subset, FS_CardinalityType
  <2> DEFINE x == Cardinality(V \cup T)
             y == Cardinality(Used(f))
             z == Cardinality(V)
             e == 2 ^ ClMaxBits
             q == Cardinality(V \cap T)
  <2>6. e \in Nat
    BY <1>3, Doubles
  <2>7. x = z + 3 - q /\ q \in Nat /\ z \in Nat /\ y \in Nat /\ y <= x /\ z + 3 <= e
    BY <1>1, <1>4, <2>1, <2>2, <2>3, <2>5 DEF V
  <2> HIDE DEF x, y, z, e, q
  <2>8. y <= e
    BY <2>6, <2>7
  <2> QED BY <2>8 DEF y, e
<1>7. {0, 1} \subseteq DOMAIN f
  BY <1>2
<1>8. /\ Alphabet(cl) /\ DOMAIN cl = DOMAIN f /\ LeftOver(cl) = 0
      /\ \A s \in DOMAIN f : cl[s] \in 0 .. ClMaxBits
      /\ \A s \in Used(f) : cl[s] > 0
  <2>1. cl = TableOf(f, ClMaxBits)
    BY DEF ClTable, f
  <2> HIDE DEF cl
  <2> QED BY <1>2, <1>5, <1>6, <1>7, <2>1, TablesAreComplete
<1> HIDE DEF cl
<1>9. \A s \in 0 .. 18 : cl[s] \in 0 .. 7
  <2>1. 0 .. ClMaxBits \subseteq 0 .. 7
    BY <1>3
  <2> QED BY <1>2, <1>8, <2>1
<1>10. ASSUME NEW j \in 1 .. Len(items) PROVE CodeFor(cl, items[j].sym)
  <2> DEFINE s == items[j].sym
  <2>1. s \in 0 .. 18
    BY <1>1, ItemSyms
  <2>2. f[s] > 0
    BY <1>2, <2>1
  <2>3. s \in Used(f)
    BY <1>2, <2>1, <2>2 DEF Used
  <2> HIDE DEF s
  <2>4. cl[s] \in 1 .. MaxBits
    <3> DEFINE v == cl[s]
    <3>1. v \in 0 .. ClMaxBits /\ v > 0
      BY <1>2, <1>8, <2>1, <2>3
    <3> HIDE DEF v
    <3>2. v \in 1 .. MaxBits
      BY <1>3, <3>1
    <3> QED BY <3>2 DEF v
  <2>5. CodeFor(cl, s)
    BY <1>2, <1>8, <2>1, <2>4 DEF CodeFor
  <2> QED BY <2>5 DEF s
<1> QED
  BY <1>2, <1>8, <1>9, <1>10 DEF cl

(* How many lengths of the code-length code are sent.                        *)
Hclen(cl, h) ==
  /\ h \in 4 .. 19 /\ (h > 4 => cl[ClOrder[h]] # 0)
  /\ \A i \in (h + 1) .. 19 : cl[ClOrder[i]] = 0

(* The lengths of it that are left out are 0 (hclen).                       *)
LEMMA HclenIs ==
  ASSUME NEW cl
  PROVE  Hclen(cl, CHOOSE h \in 4 .. 19 : /\ h > 4 => cl[ClOrder[h]] # 0
                                          /\ \A i \in (h + 1) .. 19 : cl[ClOrder[i]] = 0)
<1> DEFINE S == {h \in 4 .. 19 : h = 4 \/ cl[ClOrder[h]] # 0}
<1>1. S \in SUBSET (0 .. 19) /\ 4 \in S
  OBVIOUS
<1>2. PICK h \in S : \A j \in S : j <= h
  <2> HIDE DEF S
  <2>1. 19 \in Nat /\ S # {}
    BY <1>1
  <2> QED BY <1>1, <2>1, Greatest
<1>3. h \in 4 .. 19 /\ (h > 4 => cl[ClOrder[h]] # 0)
  BY <1>2
<1>4. ASSUME NEW i \in (h + 1) .. 19 PROVE cl[ClOrder[i]] = 0
  <2>1. i \in 4 .. 19 /\ ~(i <= h)
    BY <1>3
  <2> QED BY <1>2, <2>1
<1> QED
  BY <1>3, <1>4 DEF Hclen

ClLengths(cl, h) == [i \in 1 .. h |-> BitsOf(cl[ClOrder[i]], 3)]

(* The others are written in 3 bits each.                                   *)
LEMMA ClLengthsAre ==
  ASSUME NEW cl, \A s \in 0 .. 18 : cl[s] \in 0 .. 7, NEW h \in 4 .. 19
  PROVE  /\ ClLengths(cl, h) \in Seq(Seq(Bits01)) /\ Len(ClLengths(cl, h)) = h
         /\ \A i \in 1 .. h : /\ ClLengths(cl, h)[i] = BitsOf(cl[ClOrder[i]], 3)
                              /\ Len(ClLengths(cl, h)[i]) = 3
<1> DEFINE seqs == ClLengths(cl, h)
<1>1. ASSUME NEW i \in 1 .. h
      PROVE  seqs[i] = BitsOf(cl[ClOrder[i]], 3) /\ seqs[i] \in Seq(Bits01) /\ Len(seqs[i]) = 3
  <2>1. seqs[i] = BitsOf(cl[ClOrder[i]], 3)
    BY DEF ClLengths
  <2>2. ClOrder[i] \in 0 .. 18
    <3>1. i \in 1 .. 19
      OBVIOUS
    <3> QED BY <3>1, ClOrderIs
  <2>3. cl[ClOrder[i]] \in Nat /\ 3 \in Nat
    BY <2>2
  <2> DEFINE v == cl[ClOrder[i]]
  <2>4. v \in Nat /\ seqs[i] = BitsOf(v, 3)
    BY <2>1, <2>3
  <2> HIDE DEF seqs, v
  <2>5. BitsOf(v, 3) \in Seq(Bits01) /\ Len(BitsOf(v, 3)) = 3
    BY <2>3, <2>4, BitsAreBits
  <2> QED BY <2>4, <2>5 DEF v
<1>2. seqs \in [1 .. h -> Seq(Bits01)] /\ DOMAIN seqs = 1 .. h
  <2>1. DOMAIN seqs = 1 .. h /\ seqs = [i \in 1 .. h |-> seqs[i]]
    BY DEF ClLengths
  <2> HIDE DEF seqs
  <2> QED BY <1>1, <2>1
<1> HIDE DEF seqs
<1>3. seqs \in Seq(Seq(Bits01)) /\ h \in Nat
  BY <1>2, IsASeq
<1> DEFINE m == Len(seqs)
<1>4. m \in Nat /\ 1 .. m = 1 .. h
  BY <1>2, <1>3, LenProperties
<1> HIDE DEF m
<1>5. m = h
  BY <1>3, <1>4, SameUpTo
<1> QED
  BY <1>1, <1>3, <1>5 DEF m, seqs

(* Each of them is read where it was written.                                *)
ClAt(cl, h, from) == \A k \in 1 .. h : Number(from + 3 * (k - 1), 3) = cl[ClOrder[k]]

(* They are read one after the other from where they begin.                 *)
LEMMA ClRead ==
  ASSUME NEW W, Stream(W), NEW cl, cl \in [0 .. 18 -> 0 .. 7], NEW h, Hclen(cl, h),
         NEW from \in Nat, Holds(W, from, FlattenSeq(ClLengths(cl, h)))
  PROVE  /\ Len(FlattenSeq(ClLengths(cl, h))) = 3 * h
         /\ Has(from, 3 * h) => ClAt(cl, h, from)
<1> DEFINE seqs == ClLengths(cl, h)
<1>1. W \in Seq(Bits01) /\ bits \in Seq(Bits01) /\ Arrives(W) /\ h \in 4 .. 19 /\ Len(bits) \in Nat
  <2>1. W \in Seq(Bits01) /\ bits \in Seq(Bits01) /\ Arrives(W) /\ h \in 4 .. 19
    BY DEF Stream, Hclen
  <2> QED BY <2>1, LenProperties
<1>2. \A s \in 0 .. 18 : cl[s] \in 0 .. 7
  OBVIOUS
<1>3. /\ seqs \in Seq(Seq(Bits01)) /\ Len(seqs) = h
      /\ \A i \in 1 .. h : seqs[i] = BitsOf(cl[ClOrder[i]], 3) /\ Len(seqs[i]) = 3
  BY <1>1, <1>2, ClLengthsAre
<1> HIDE DEF seqs
<1>4. PICK off : Offsets(off, from, seqs) /\ \A k \in 1 .. h : Holds(W, off[k - 1], seqs[k])
  <2>1. Holds(W, from, FlattenSeq(seqs))
    BY DEF seqs
  <2> QED BY <1>1, <1>3, <2>1, Pieces
<1>5. /\ off \in [0 .. h -> Nat] /\ off[0] = from /\ off[h] = from + Len(FlattenSeq(seqs))
      /\ \A k \in 1 .. h : off[k] = off[k - 1] + 3
  BY <1>3, <1>4 DEF Offsets
<1>6. \A k \in 0 .. h : off[k] = from + 3 * k
  <2> DEFINE P == {k \in 0 .. h : off[k] = from + 3 * k}
  <2>1. 0 \in P
    BY <1>1, <1>5
  <2>2. ASSUME NEW k \in 1 .. h, k - 1 \in P PROVE k \in P
    <3>1. off[k - 1] = from + 3 * (k - 1) /\ off[k] = off[k - 1] + 3 /\ k \in 0 .. h
      BY <1>5, <2>2
    <3> QED BY <1>1, <3>1
  <2>9. h \in Nat
    BY <1>1
  <2> HIDE DEF P
  <2>3. 0 .. h \subseteq P
    BY <2>9, <2>1, <2>2, Upward
  <2> QED BY <2>3 DEF P
<1>7. Len(FlattenSeq(seqs)) = 3 * h
  <2> DEFINE L == Len(FlattenSeq(seqs))
  <2>1. L \in Nat
    BY <1>3, Flattened, LenProperties
  <2>2. from + L = from + 3 * h
    BY <1>1, <1>5, <1>6
  <2> HIDE DEF L
  <2>3. L = 3 * h
    BY <1>1, <2>1, <2>2
  <2> QED BY <2>3 DEF L
<1>8. ASSUME NEW k \in 1 .. h, Has(from, 3 * h)
      PROVE  Number(from + 3 * (k - 1), 3) = cl[ClOrder[k]]
  <2> DEFINE i == from + 3 * (k - 1)
             v == cl[ClOrder[k]]
  <2>1. i \in Nat /\ k - 1 \in 0 .. h /\ off[k - 1] = i
    BY <1>1, <1>6
  <2>2. v \in 0 .. 7
    <3>1. ClOrder[k] \in 0 .. 18
      <4>1. k \in 1 .. 19
        BY <1>1
      <4> QED BY <4>1, ClOrderIs
    <3> QED BY <1>2, <3>1
  <2>3. Has(i, 3)
    BY <1>1, <1>8 DEF Has
  <2>4. Holds(W, i, BitsOf(v, 3))
    BY <1>3, <1>4, <2>1
  <2>5. v < 2 ^ 3 /\ v \in Nat /\ 3 \in Nat
    BY <2>2
  <2> HIDE DEF i, v
  <2>6. Number(i, 3) = v
    BY <1>1, <2>1, <2>3, <2>4, <2>5, BitsComeBack
  <2> QED BY <2>6 DEF i, v
<1>9. Has(from, 3 * h) => ClAt(cl, h, from)
  BY <1>8 DEF ClAt
<1> QED
  BY <1>7, <1>9 DEF seqs

ReadCl(i, ncode) ==
  [s \in ClSyms |-> IF \E k \in 1 .. ncode : ClOrder[k] = s
                    THEN Number(i + 3 * ((CHOOSE k \in 1 .. ncode : ClOrder[k] = s) - 1), 3)
                    ELSE 0]

(* The code length code that inf_dynamic reads is the one that was written. *)
LEMMA ClComesBack ==
  ASSUME NEW W, Stream(W), NEW cl, cl \in [0 .. 18 -> 0 .. 7], NEW h, Hclen(cl, h),
         NEW from \in Nat, Holds(W, from, FlattenSeq(ClLengths(cl, h))), Has(from, 3 * h)
  PROVE  ReadCl(from, h) = cl
<1>1. h \in 4 .. 19 /\ \A k \in 1 .. h : Number(from + 3 * (k - 1), 3) = cl[ClOrder[k]]
  <2>1. h \in 4 .. 19
    BY DEF Hclen
  <2>2. ClAt(cl, h, from)
    BY ClRead
  <2> QED BY <2>1, <2>2 DEF ClAt
<1> DEFINE r == ReadCl(from, h)
<1>2. ASSUME NEW s \in 0 .. 18 PROVE r[s] = cl[s]
  <2>1. r[s] = IF \E k \in 1 .. h : ClOrder[k] = s
               THEN Number(from + 3 * ((CHOOSE k \in 1 .. h : ClOrder[k] = s) - 1), 3) ELSE 0
    BY DEF ReadCl, ClSyms
  <2> HIDE DEF r
  <2>2. CASE \E k \in 1 .. h : ClOrder[k] = s
    <3> DEFINE c == CHOOSE k \in 1 .. h : ClOrder[k] = s
    <3>1. c \in 1 .. h /\ ClOrder[c] = s
      BY <2>2
    <3>2. r[s] = Number(from + 3 * (c - 1), 3)
      BY <2>1, <2>2
    <3> HIDE DEF c
    <3> QED BY <1>1, <3>1, <3>2
  <2>3. CASE ~\E k \in 1 .. h : ClOrder[k] = s
    <3>1. PICK k \in 1 .. 19 : ClOrder[k] = s
      BY ClOrderIs
    <3>2. k \in (h + 1) .. 19
      BY <1>1, <2>3, <3>1
    <3>3. cl[s] = 0
      BY <3>1, <3>2 DEF Hclen
    <3> QED BY <2>1, <2>3, <3>3
  <2> QED BY <2>2, <2>3
<1>3. r = [s \in 0 .. 18 |-> r[s]]
  BY DEF ReadCl, ClSyms
<1> HIDE DEF r
<1>4. r = cl
  BY <1>2, <1>3
<1> QED
  BY <1>4 DEF r

(* What is written of a table: how many lengths of the code length code,    *)
(* those, and the items in it.                                              *)
LEMMA TableBitsAre ==
  ASSUME NEW lens, Sendable(lens)
  PROVE  \E p, h : LET items == EncodeLengths(lens)
                       cl    == ClTable(items)
                   IN  /\ Spelled(p, lens, Len(lens), items) /\ Hclen(cl, h)
                       /\ cl \in [0 .. 18 -> 0 .. 7] /\ Alphabet(cl) /\ LeftOver(cl) = 0
                       /\ \A j \in 1 .. Len(items) : CodeFor(cl, items[j].sym)
                       /\ TableBits(lens) = BitsOf(h - 4, 4) \o FlattenSeq(ClLengths(cl, h))
                                                             \o Sent(cl, items)
                       /\ BitsOf(h - 4, 4) \in Seq(Bits01) /\ Len(BitsOf(h - 4, 4)) = 4
                       /\ FlattenSeq(ClLengths(cl, h)) \in Seq(Bits01)
                       /\ Sent(cl, items) \in Seq(Bits01)
<1> DEFINE items == EncodeLengths(lens)
           cl == ClTable(items)
           h == CHOOSE n \in 4 .. 19 : /\ n > 4 => cl[ClOrder[n]] # 0
                                       /\ \A i \in (n + 1) .. 19 : cl[ClOrder[i]] = 0
<1>1. PICK p : Spelled(p, lens, Len(lens), items)
  BY EncodedIs DEF Sendable
<1>2. TableBits(lens) = BitsOf(h - 4, 4) \o FlattenSeq(ClLengths(cl, h)) \o Sent(cl, items)
  BY DEF TableBits, HeaderBits, ClLengths, Sent, ItemBits, ClTable, ItemFreq
<1>3. Hclen(cl, h)
  BY HclenIs
<1> HIDE DEF items, h
<1>4. /\ Alphabet(cl) /\ DOMAIN cl = 0 .. 18 /\ LeftOver(cl) = 0
      /\ \A s \in 0 .. 18 : cl[s] \in 0 .. 7
      /\ \A j \in 1 .. Len(items) : CodeFor(cl, items[j].sym)
  BY <1>1, ClTableIs
<1> HIDE DEF cl
<1>5. cl \in [0 .. 18 -> 0 .. 7]
  <2>1. cl \in [DOMAIN cl -> Nat]
    BY <1>4 DEF Alphabet
  <2>2. cl = [s \in 0 .. 18 |-> cl[s]]
    BY <1>4, <2>1
  <2> QED BY <1>4, <2>2
<1>6. h \in 4 .. 19 /\ h - 4 \in Nat /\ 4 \in Nat
  BY <1>3 DEF Hclen
<1>7. BitsOf(h - 4, 4) \in Seq(Bits01) /\ Len(BitsOf(h - 4, 4)) = 4
  <2> DEFINE v == h - 4
  <2>1. v \in Nat /\ 4 \in Nat
    BY <1>6
  <2> HIDE DEF v
  <2>2. BitsOf(v, 4) \in Seq(Bits01) /\ Len(BitsOf(v, 4)) = 4
    BY <2>1, BitsAreBits
  <2> QED BY <2>2 DEF v
<1>8. FlattenSeq(ClLengths(cl, h)) \in Seq(Bits01)
  <2>1. ClLengths(cl, h) \in Seq(Seq(Bits01))
    BY <1>4, <1>6, ClLengthsAre
  <2> QED BY <2>1, Flattened
<1>9. Sent(cl, items) \in Seq(Bits01)
  <2> DEFINE seqs == [j \in DOMAIN items |-> ItemBits(cl, items[j])]
             K == Len(items)
  <2>1. items \in Seq(Items) /\ DOMAIN items = 1 .. K /\ K \in Nat
    <3>1. items \in Seq(Items)
      BY <1>1 DEF Spelled
    <3> QED BY <3>1, LenProperties
  <2>2. ASSUME NEW j \in 1 .. K PROVE ItemBits(cl, items[j]) \in Seq(Bits01)
    <3>1. items[j] \in Items /\ CodeFor(cl, items[j].sym)
      BY <1>4, <2>1, ElementOfSeq
    <3> QED BY <3>1, ItemBitsAre
  <2> HIDE DEF K
  <2>3. seqs \in [1 .. K -> Seq(Bits01)]
    BY <2>1, <2>2
  <2> HIDE DEF seqs
  <2>4. seqs \in Seq(Seq(Bits01))
    BY <2>1, <2>3, IsASeq
  <2>5. FlattenSeq(seqs) \in Seq(Bits01)
    BY <2>4, Flattened
  <2> QED BY <2>5 DEF Sent, seqs
<1>10. /\ Spelled(p, lens, Len(lens), items) /\ Hclen(cl, h)
       /\ cl \in [0 .. 18 -> 0 .. 7] /\ Alphabet(cl) /\ LeftOver(cl) = 0
       /\ \A j \in 1 .. Len(items) : CodeFor(cl, items[j].sym)
       /\ TableBits(lens) = BitsOf(h - 4, 4) \o FlattenSeq(ClLengths(cl, h)) \o Sent(cl, items)
       /\ BitsOf(h - 4, 4) \in Seq(Bits01) /\ Len(BitsOf(h - 4, 4)) = 4
       /\ FlattenSeq(ClLengths(cl, h)) \in Seq(Bits01)
       /\ Sent(cl, items) \in Seq(Bits01)
  BY <1>1, <1>2, <1>3, <1>4, <1>5, <1>7, <1>8, <1>9
<1> QED
  BY <1>10 DEF cl, items

(* TableBits against ReadTables (encode_lengths and the header of a dynamic  *)
(* block, against inf_dynamic): the lengths of a table arrive as they were   *)
(* sent, and when the end of what was sent is missing they are refused.      *)
THEOREM LengthsComeBack ==
  ASSUME NEW W, Stream(W), NEW lens, Sendable(lens), NEW from \in Nat, Has(from, 0),
         Holds(W, from, TableBits(lens))
  PROVE  LET r == ReadTables(from, Len(lens))
             w == Len(TableBits(lens))
         IN  IF Has(from, w) THEN r.lens = lens /\ r.at = from + w ELSE r.lens = None
<1> DEFINE items == EncodeLengths(lens)
           cl == ClTable(items)
           T == TableBits(lens)
           want == Len(lens)
           r == ReadTables(from, want)
           Z == Sent(cl, items)
<1>1. PICK p, h : /\ Spelled(p, lens, want, items) /\ Hclen(cl, h)
                  /\ cl \in [0 .. 18 -> 0 .. 7] /\ Alphabet(cl) /\ LeftOver(cl) = 0
                  /\ \A j \in 1 .. Len(items) : CodeFor(cl, items[j].sym)
                  /\ T = BitsOf(h - 4, 4) \o FlattenSeq(ClLengths(cl, h)) \o Z
                  /\ BitsOf(h - 4, 4) \in Seq(Bits01) /\ Len(BitsOf(h - 4, 4)) = 4
                  /\ FlattenSeq(ClLengths(cl, h)) \in Seq(Bits01)
                  /\ Z \in Seq(Bits01)
  BY TableBitsAre
<1> DEFINE X == BitsOf(h - 4, 4)
           Y == FlattenSeq(ClLengths(cl, h))
<1>2. W \in Seq(Bits01) /\ bits \in Seq(Bits01) /\ Arrives(W) /\ Len(bits) \in Nat /\ h \in 4 .. 19
  <2>1. W \in Seq(Bits01) /\ bits \in Seq(Bits01) /\ Arrives(W) /\ h \in 4 .. 19
    BY <1>1 DEF Stream, Hclen
  <2> QED BY <2>1, LenProperties
<1> HIDE DEF items, cl, Z
<1>3. /\ Holds(W, from, X) /\ Holds(W, from + 4, Y) /\ Holds(W, from + 4 + Len(Y), Z)
      /\ Len(T) = 4 + Len(Y) + Len(Z) /\ Len(Y) \in Nat /\ Len(Z) \in Nat
  <2>1. X \in Seq(Bits01) /\ Y \in Seq(Bits01) /\ Z \in Seq(Bits01) /\ T = (X \o Y) \o Z /\ Len(X) = 4
    BY <1>1
  <2> HIDE DEF X, Y, T
  <2>2. X \o Y \in Seq(Bits01) /\ Len(X \o Y) = 4 + Len(Y) /\ Len(Y) \in Nat /\ Len(Z) \in Nat
    <3>1. X \o Y \in Seq(Bits01) /\ Len(X \o Y) = Len(X) + Len(Y)
      BY <2>1, ConcatProperties
    <3>2. Len(Y) \in Nat /\ Len(Z) \in Nat
      BY <2>1, LenProperties
    <3> QED BY <2>1, <3>1, <3>2
  <2>3. Holds(W, from, (X \o Y) \o Z)
    BY <2>1 DEF T
  <2>4. Holds(W, from, X \o Y) /\ Holds(W, from + Len(X \o Y), Z) /\ Len(T) = Len(X \o Y) + Len(Z)
    <3> DEFINE XY == X \o Y
    <3>1. XY \in Seq(Bits01) /\ Holds(W, from, XY \o Z) /\ Z \in Seq(Bits01) /\ W \in Seq(Bits01) /\ T = XY \o Z
      BY <1>2, <2>1, <2>2, <2>3
    <3> HIDE DEF XY
    <3>2. Holds(W, from, XY) /\ Holds(W, from + Len(XY), Z) /\ Len(XY \o Z) = Len(XY) + Len(Z)
      BY <3>1, HoldsBoth
    <3> QED BY <3>1, <3>2 DEF XY
  <2>5. Holds(W, from, X) /\ Holds(W, from + Len(X), Y)
    BY <1>2, <2>1, <2>4, HoldsBoth
  <2>6. from + Len(X \o Y) = from + 4 + Len(Y)
    <3> DEFINE y == Len(Y)
    <3>1. y \in Nat /\ from \in Nat /\ Len(X \o Y) = 4 + y
      BY <2>2
    <3> HIDE DEF y
    <3>2. from + Len(X \o Y) = from + 4 + y
      BY <3>1
    <3> QED BY <3>2 DEF y
  <2> QED BY <2>1, <2>2, <2>4, <2>5, <2>6
<1>4. Len(Y) = 3 * h
  <2> DEFINE k == from + 4
  <2>1. /\ k \in Nat /\ cl \in [0 .. 18 -> 0 .. 7] /\ Hclen(cl, h)
        /\ Holds(W, k, FlattenSeq(ClLengths(cl, h)))
    BY <1>1, <1>3
  <2> HIDE DEF k
  <2> QED BY <2>1, ClRead
<1> DEFINE ncode == Number(from, 4) + 4
           at == from + 4
           over == from + 4 + 3 * ncode
           z == Len(Z)
<1>5. r = IF ~Has(from, 4) \/ ~Has(from, 4 + 3 * ncode) THEN [lens |-> None, at |-> from]
          ELSE IF ~Complete(ReadCl(at, ncode)) THEN [lens |-> None, at |-> from]
          ELSE ReadLengths(over, ReadCl(at, ncode), want)
  BY DEF ReadTables, ReadCl
<1>6. Has(from, 4) => ncode = h
  <2> DEFINE v == h - 4
  <2>1. v \in Nat /\ v < 2 ^ 4 /\ 4 \in Nat /\ Holds(W, from, BitsOf(v, 4))
    <3>1. 2 ^ 4 = 16
      OBVIOUS
    <3> QED BY <1>2, <1>3, <3>1
  <2> HIDE DEF v
  <2>2. Has(from, 4) => Number(from, 4) = v
    BY <1>2, <2>1, BitsComeBack
  <2> QED BY <1>2, <2>2 DEF v
<1> HIDE DEF X, Y, T, r, ncode, at, over, z
<1>7. Len(T) = 4 + 3 * h + z /\ z \in Nat /\ at = from + 4 /\ at \in Nat
  BY <1>3, <1>4 DEF z, at
<1>8. CASE ~Has(from, 4)
  <2>1. ~Has(from, Len(T))
    BY <1>2, <1>7, <1>8 DEF Has
  <2>2. r.lens = None
    BY <1>5, <1>8
  <2> QED BY <2>1, <2>2 DEF T, r
<1>9. CASE Has(from, 4) /\ ~Has(from, 4 + 3 * h)
  <2>1. ~Has(from, Len(T))
    BY <1>2, <1>7, <1>9 DEF Has
  <2>2. r.lens = None
    BY <1>5, <1>6, <1>9
  <2> QED BY <2>1, <2>2 DEF T, r
<1>10. CASE Has(from, 4) /\ Has(from, 4 + 3 * h)
  <2>1. ncode = h /\ over = at + 3 * h /\ over \in Nat
    BY <1>2, <1>6, <1>7, <1>10 DEF over
  <2>2. Has(at, 3 * h) /\ Has(over, 0) /\ (Has(over, z) <=> Has(from, Len(T)))
    BY <1>2, <1>7, <1>10, <2>1 DEF Has
  <2>3. Holds(W, at, FlattenSeq(ClLengths(cl, h))) /\ Holds(W, over, Z)
    BY <1>2, <1>3, <1>4, <1>7, <2>1 DEF Y
  <2>4. ReadCl(at, h) = cl
    BY <1>1, <1>7, <2>2, <2>3, ClComesBack
  <2>5. Complete(cl)
    BY <1>1 DEF Complete
  <2>6. r = ReadLengths(over, cl, want)
    BY <1>5, <1>10, <2>1, <2>4, <2>5
  <2> DEFINE q == ReadLengths(over, cl, want)
  <2>7. IF Has(over, Len(Sent(cl, items)))
        THEN q.lens = lens /\ q.at = over + Len(Sent(cl, items)) ELSE q.lens = None
    <3>1. lens \in Seq(0 .. 15)
      BY DEF Sendable
    <3> QED BY <1>1, <2>1, <2>2, <2>3, <3>1, LengthsRead DEF Z
  <2>8. IF Has(over, z) THEN r.lens = lens /\ r.at = over + z ELSE r.lens = None
    BY <2>6, <2>7 DEF z, Z
  <2>9. over + z = from + Len(T)
    BY <1>2, <1>7, <2>1
  <2> QED BY <2>2, <2>8, <2>9 DEF r, T
<1> QED
  BY <1>8, <1>9, <1>10
(***************************************************************************)
(* The chains: a position is entered once it has been passed, and a chain   *)
(* is followed no further than the window.                                  *)
(***************************************************************************)
Before(q) == {None} \cup {p \in Nat : p < q}
Chains(q) == [head : [Hashes -> Before(q)], prev : [0 .. (Window - 1) -> Before(q)]]
Near      == {d \in Int : d < Window}
Symbols   == [literal : Nat, dist : Near]

(* A hash is one of those there are.                                        *)
LEMMA Hashed ==
  ASSUME data \in Seq(0 .. Literals - 1), NEW p \in Nat, p + MinMatch <= Len(data)
  PROVE  HashAt(p) \in Hashes
<1> DEFINE key == [k \in 1 .. MinMatch |-> Byte(p + k - 1)]
<1>1. ASSUME NEW k \in 1 .. MinMatch PROVE Byte(p + k - 1) \in 0 .. (Literals - 1)
  <2>1. Len(data) \in Nat /\ data \in [1 .. Len(data) -> 0 .. Literals - 1]
    BY LenProperties
  <2>2. p + k - 1 + 1 \in 1 .. Len(data)
    BY <2>1, FormatAssumption
  <2> QED
    BY <2>1, <2>2 DEF Byte
<1>2. key \in [1 .. MinMatch -> 0 .. (Literals - 1)]
  BY <1>1
<1>3. HashAt(p) = Hash(key)
  BY DEF HashAt
<1> QED
  BY <1>2, <1>3 DEF Hashes

(* insert_pos of a position that has been passed.                           *)
LEMMA InsertOne ==
  ASSUME data \in Seq(0 .. Literals - 1), NEW q \in Nat, NEW p \in Nat, p < q,
         NEW c \in Chains(q)
  PROVE  Insert(c, p) \in Chains(q)
<1>1. CASE p + MinMatch > Len(data)
  BY <1>1 DEF Insert
<1>2. CASE ~(p + MinMatch > Len(data))
  <2>1. HashAt(p) \in Hashes
    <3>1. Len(data) \in Nat
      BY LenProperties
    <3> QED BY <1>2, <3>1, Hashed, FormatAssumption
  <2>2. p \in Before(q) /\ c.head[HashAt(p)] \in Before(q)
    BY <2>1 DEF Before, Chains
  <2>3. [c.head EXCEPT ![HashAt(p)] = p] \in [Hashes -> Before(q)]
    BY <2>2 DEF Chains
  <2>4. [c.prev EXCEPT ![p % Window] = c.head[HashAt(p)]] \in [0 .. (Window - 1) -> Before(q)]
    BY <2>2 DEF Chains
  <2> QED
    BY <1>2, <2>3, <2>4 DEF Insert, Chains
<1> QED
  BY <1>1, <1>2

(* And of a whole stretch.                                                  *)
LEMMA InsertAll ==
  ASSUME data \in Seq(0 .. Literals - 1), NEW from \in Nat, NEW n \in Nat,
         chains \in Chains(from + n)
  PROVE  Inserted(from, n) \in Chains(from + n)
<1> DEFINE V == Chains(from + n)
           Is(f) == f = [k \in 0 .. n |-> IF k = 0 THEN chains
                                          ELSE Insert(f[k - 1], from + k - 1)]
           G == [x \in V \X (1 .. n) |-> Insert(x[1], from + x[2] - 1)]
<1>1. ASSUME NEW c \in V, NEW k \in 1 .. n PROVE Insert(c, from + k - 1) \in V
  <2>1. from + k - 1 \in Nat /\ from + k - 1 < from + n /\ from + n \in Nat
    OBVIOUS
  <2> QED BY <2>1, InsertOne
<1>2. G \in [V \X (1 .. n) -> V]
  BY <1>1
<1>3. ASSUME NEW c \in V, NEW k \in 1 .. n PROVE G[<<c, k>>] = Insert(c, from + k - 1)
  OBVIOUS
<1> HIDE DEF G
<1>4. PICK g \in [0 .. n -> V] : Follows(g, n, chains, G)
  <2>1. chains \in V
    OBVIOUS
  <2> HIDE DEF V
  <2> QED BY <1>2, <2>1, Recursion
<1>5. Is(g)
  <2>1. ASSUME NEW k \in 0 .. n
        PROVE  g[k] = (IF k = 0 THEN chains ELSE Insert(g[k - 1], from + k - 1))
    <3>1. k # 0 => k \in 1 .. n /\ g[k - 1] \in V
      OBVIOUS
    <3> HIDE DEF V
    <3> QED BY <1>3, <1>4, <3>1 DEF Follows
  <2>2. g = [k \in 0 .. n |-> g[k]]
    OBVIOUS
  <2> QED
    BY <2>1, <2>2
<1> DEFINE f == CHOOSE f : Is(f)
<1>6. Is(f)
  BY <1>5
<1>7. Inserted(from, n) = f[n]
  BY DEF Inserted
<1> HIDE DEF f
<1> DEFINE P == {k \in 0 .. n : f[k] \in V}
<1>8. 0 \in P
  BY <1>6
<1>9. ASSUME NEW k \in 1 .. n, k - 1 \in P PROVE k \in P
  BY <1>1, <1>6, <1>9
<1>10. 0 .. n \subseteq P
  <2> HIDE DEF P
  <2> QED BY <1>8, <1>9, Upward
<1>11. n \in P
  <2> HIDE DEF P
  <2> QED BY <1>10
<1> QED
  BY <1>7, <1>11

(* How far two positions agree is at most the limit, and so far they do.    *)
LEMMA AgreeUpTo ==
  ASSUME NEW i, NEW j, NEW limit \in Nat
  PROVE  /\ Agree(i, j, limit) \in 0 .. limit
         /\ \A k \in 0 .. (Agree(i, j, limit) - 1) : Byte(i + k) = Byte(j + k)
<1> DEFINE Matches(n) == \A k \in 0 .. (n - 1) : Byte(i + k) = Byte(j + k)
           Ends(n) == Matches(n) /\ (n < limit => Byte(i + n) # Byte(j + n))
<1>1. \E n \in 0 .. limit : Ends(n)
  <2> SUFFICES ASSUME \A n \in 0 .. limit : ~Ends(n) PROVE FALSE
    OBVIOUS
  <2> DEFINE P == {n \in 0 .. limit : Matches(n)}
  <2>1. 0 \in P
    OBVIOUS
  <2>2. ASSUME NEW n \in 1 .. limit, n - 1 \in P PROVE n \in P
    <3>1. Matches(n - 1) /\ ~Ends(n - 1) /\ n - 1 < limit
      BY <2>2
    <3>2. Byte(i + (n - 1)) = Byte(j + (n - 1))
      BY <3>1
    <3>3. \A k \in 0 .. (n - 1) : k = n - 1 \/ k \in 0 .. (n - 1 - 1)
      OBVIOUS
    <3>4. Matches(n)
      BY <3>1, <3>2, <3>3
    <3> QED
      BY <3>4
  <2>3. 0 .. limit \subseteq P
    <3> HIDE DEF P
    <3> QED BY <2>1, <2>2, Upward
  <2>4. Ends(limit)
    <3>1. limit \in P
      <4> HIDE DEF P
      <4> QED BY <2>3
    <3> QED BY <3>1
  <2> QED
    BY <2>4
<1> HIDE DEF Ends
<1>2. Agree(i, j, limit) = CHOOSE n \in 0 .. limit : Ends(n)
  BY DEF Agree, Ends
<1>3. Agree(i, j, limit) \in 0 .. limit /\ Ends(Agree(i, j, limit))
  BY <1>1, <1>2
<1> QED
  BY <1>3 DEF Ends

(* The n bytes from p on are those dist bytes before them.                  *)
Repeats(p, n, dist) ==
  dist \in 1 .. p /\ \A k \in 0 .. (n - 1) : Byte(p - dist + k) = Byte(p + k)

(* What is found along a chain is no longer than the limit, no further back *)
(* than the window, and there.                                              *)
Found(limit) == {m \in [length : 0 .. limit, dist : Near] :
                   m.length = 0 \/ Repeats(pos, m.length, m.dist)}
Search(limit) == [cand : Before(pos), best : Found(limit), over : BOOLEAN]

(* One candidate of longest_match: what was found stays in the window.      *)
LEMMA TryOne ==
  ASSUME pos \in Nat, chains \in Chains(pos), NEW limit \in Nat, NEW so \in Search(limit)
  PROVE  Try(so, limit) \in Search(limit)
<1> DEFINE n      == Agree(so.cand, pos, limit)
           better == n > so.best.length
<1>1. CASE so.over \/ so.cand = None
  BY <1>1 DEF Try
<1>2. CASE ~(so.over \/ so.cand = None) /\ pos - so.cand > Window - 1
  BY <1>2 DEF Try, Search
<1>3. CASE ~(so.over \/ so.cand = None) /\ ~(pos - so.cand > Window - 1)
  <2>1. n \in 0 .. limit
    BY AgreeUpTo
  <2>2. so.cand \in Nat /\ so.cand < pos /\ pos - so.cand \in Near
    BY <1>3, FormatAssumption DEF Search, Near, Before
  <2>3. so.cand % Window \in 0 .. (Window - 1)
    BY <2>2, FormatAssumption
  <2>4. chains.prev[so.cand % Window] \in Before(pos)
    BY <2>3 DEF Chains
  <2>5. (IF better THEN [length |-> n, dist |-> pos - so.cand] ELSE so.best) \in Found(limit)
    <3>1. \A k \in 0 .. (n - 1) : Byte(so.cand + k) = Byte(pos + k)
      BY AgreeUpTo
    <3> HIDE DEF n
    <3>2. pos - (pos - so.cand) = so.cand /\ pos - so.cand \in 1 .. pos
      BY <2>2
    <3>3. Repeats(pos, n, pos - so.cand)
      BY <3>1, <3>2 DEF Repeats
    <3> QED
      BY <2>1, <2>2, <3>3 DEF Found, Search
  <2>6. (better /\ (n >= NiceMatch \/ n >= limit)) \in BOOLEAN
    OBVIOUS
  <2>7. Try(so, limit) = [cand |-> chains.prev[so.cand % Window],
                          best |-> IF better THEN [length |-> n, dist |-> pos - so.cand] ELSE so.best,
                          over |-> better /\ (n >= NiceMatch \/ n >= limit)]
    BY <1>3 DEF Try
  <2> QED
    BY <2>4, <2>5, <2>6, <2>7 DEF Search
<1> QED
  BY <1>1, <1>2, <1>3

(* The walk along a chain is a function of the steps it has made.           *)
LEMMA FollowUpTo ==
  ASSUME pos \in Nat, chains \in Chains(pos), NEW limit \in Nat, NEW first \in Before(pos)
  PROVE  Follow(first, limit) \in Found(limit)
<1> DEFINE V == Search(limit)
           a == [cand |-> first, best |-> NoMatch, over |-> FALSE]
           Is(f) == f = [k \in 0 .. MaxChain |-> IF k = 0 THEN a ELSE Try(f[k - 1], limit)]
           G == [x \in V \X (1 .. MaxChain) |-> Try(x[1], limit)]
<1> MaxChain \in Nat
  BY FormatAssumption
<1>1. ASSUME NEW so \in V PROVE Try(so, limit) \in V
  BY TryOne
<1>2. a \in V
  BY FormatAssumption DEF Search, Found, Near, NoMatch
<1>3. G \in [V \X (1 .. MaxChain) -> V]
  BY <1>1
<1>4. ASSUME NEW so \in V, NEW k \in 1 .. MaxChain PROVE G[<<so, k>>] = Try(so, limit)
  OBVIOUS
<1> HIDE DEF G, a, V
<1>5. PICK g \in [0 .. MaxChain -> V] : Follows(g, MaxChain, a, G)
  BY <1>2, <1>3, Recursion
<1>6. Is(g)
  <2>1. ASSUME NEW k \in 0 .. MaxChain
        PROVE  g[k] = (IF k = 0 THEN a ELSE Try(g[k - 1], limit))
    <3>1. k # 0 => k \in 1 .. MaxChain /\ g[k - 1] \in V
      OBVIOUS
    <3> QED BY <1>4, <1>5, <3>1 DEF Follows
  <2>2. g = [k \in 0 .. MaxChain |-> g[k]]
    OBVIOUS
  <2> QED
    BY <2>1, <2>2
<1> DEFINE f == CHOOSE f : Is(f)
<1>7. Is(f)
  BY <1>6
<1>8. Follow(first, limit) = f[MaxChain].best
  BY DEF Follow, a
<1> HIDE DEF f
<1> DEFINE P == {k \in 0 .. MaxChain : f[k] \in V}
<1>9. 0 \in P
  BY <1>2, <1>7
<1>10. ASSUME NEW k \in 1 .. MaxChain, k - 1 \in P PROVE k \in P
  BY <1>1, <1>7, <1>10
<1>11. 0 .. MaxChain \subseteq P
  <2> HIDE DEF P
  <2> QED BY <1>9, <1>10, Upward
<1>12. f[MaxChain] \in V
  BY <1>11
<1> QED
  BY <1>8, <1>12 DEF V, Search

(* What longest_match finds is no longer than asked, and in the window.     *)
LEMMA FoundUpTo ==
  ASSUME data \in Seq(0 .. Literals - 1), pos \in Nat, pos < Len(data), chains \in Chains(pos)
  PROVE  /\ FindMatch.length \in 0 .. MaxMatch /\ FindMatch.dist \in Near
         /\ \/ FindMatch.length = 0
            \/ /\ FindMatch.length <= Len(data) - pos
               /\ Repeats(pos, FindMatch.length, FindMatch.dist)
<1> DEFINE left  == Len(data) - pos
           limit == IF left > MaxMatch THEN MaxMatch ELSE left
           found == Follow(chains.head[HashAt(pos)], limit)
<1>1. Len(data) \in Nat /\ limit \in Nat /\ limit <= MaxMatch /\ limit <= left
  BY LenProperties, FormatAssumption
<1>2. FindMatch = IF limit < MinMatch \/ found.length < MinMatch THEN NoMatch ELSE found
  BY DEF FindMatch
<1>3. CASE limit < MinMatch
  BY <1>2, <1>3, FormatAssumption DEF NoMatch, Near
<1>4. CASE ~(limit < MinMatch)
  <2>1. HashAt(pos) \in Hashes
    BY <1>1, <1>4, Hashed, FormatAssumption
  <2>2. chains.head[HashAt(pos)] \in Before(pos)
    BY <2>1 DEF Chains
  <2>3. found \in Found(limit)
    <3> HIDE DEF limit
    <3> QED BY <1>1, <2>2, FollowUpTo
  <2>4. /\ found.length \in 0 .. limit /\ found.dist \in Near
        /\ found.length = 0 \/ Repeats(pos, found.length, found.dist)
    BY <2>3 DEF Found
  <2>5. NoMatch.length = 0 /\ NoMatch.dist \in Near
    BY FormatAssumption DEF NoMatch, Near
  <2> HIDE DEF found, limit
  <2>6. CASE found.length < MinMatch
    BY <1>2, <2>5, <2>6, FormatAssumption
  <2>7. CASE ~(found.length < MinMatch)
    <3>1. FindMatch = found
      BY <1>2, <1>4, <2>7
    <3> QED
      BY <1>1, <2>4, <3>1, FormatAssumption
  <2> QED
    BY <2>6, <2>7
<1> QED
  BY <1>3, <1>4

(* The invariant: what has been passed is in the chains and nothing else,   *)
(* and a block is no longer than a stored one may be.                       *)
ChainsInv ==
  /\ pos \in Nat /\ start \in Nat
  /\ chains \in Chains(pos) /\ syms \in Seq(Symbols)
  /\ phase = "gather" => data \in Seq(0 .. Literals - 1) /\ pos - start <= BlockBytes

(* The steps of the reader, and a stream's end.                             *)
LEMMA ChainsStand ==
  ASSUME ChainsInv, UNCHANGED encoder, phase' = "gather" => phase = "gather"
  PROVE  ChainsInv'
BY DEF ChainsInv, encoder

(* A step of the gathering loop enters what it has passed.                  *)
LEMMA ChainsGather ==
  ASSUME ChainsInv, Gather
  PROVE  ChainsInv'
<1> DEFINE m == FindMatch
           n == IF m.length >= MinMatch THEN m.length ELSE 1
           sym == IF n >= MinMatch THEN [literal |-> n, dist |-> m.dist]
                  ELSE [literal |-> Byte(pos), dist |-> 0]
<1>1. /\ phase = "gather" /\ phase' = "gather" /\ RoomLeft /\ UNCHANGED <<data, start>>
      /\ syms' = Append(syms, sym) /\ chains' = Inserted(pos, n) /\ pos' = pos + n
  BY DEF Gather
<1>2. /\ data \in Seq(0 .. Literals - 1) /\ Len(data) \in Nat /\ pos \in Nat /\ start \in Nat
      /\ pos < Len(data) /\ chains \in Chains(pos) /\ syms \in Seq(Symbols)
  BY <1>1, LenProperties DEF ChainsInv, RoomLeft
<1>3. /\ m.length \in 0 .. MaxMatch /\ m.dist \in Near
      /\ m.length = 0 \/ m.length <= Len(data) - pos
  BY <1>2, FoundUpTo
<1> HIDE DEF m
<1>4. n \in 1 .. MaxMatch
  BY <1>3, FormatAssumption
<1>5. sym \in Symbols
  <2>1. Byte(pos) \in Nat
    <3>1. pos + 1 \in 1 .. Len(data)
      BY <1>2
    <3>2. data[pos + 1] \in 0 .. Literals - 1
      BY <1>2, <3>1, ElementOfSeq
    <3> QED BY <3>2, FormatAssumption DEF Byte
  <2> QED
    BY <1>3, <1>4, <2>1, FormatAssumption DEF Symbols, Near
<1>6. chains \in Chains(pos + n)
  BY <1>2, <1>4 DEF Chains, Before
<1> HIDE DEF n, sym
<1>7. Inserted(pos, n) \in Chains(pos + n)
  <2>1. n \in Nat
    BY <1>4
  <2> QED BY <1>2, <1>6, <2>1, InsertAll
<1>8. Append(syms, sym) \in Seq(Symbols)
  BY <1>2, <1>5, AppendProperties
<1>9. pos + n \in Nat /\ pos + n - start <= BlockBytes
  BY <1>1, <1>2, <1>4, FormatAssumption DEF RoomLeft
<1>10. pos' \in Nat /\ start' \in Nat /\ pos' - start' <= BlockBytes
  BY <1>1, <1>2, <1>4, <1>9
<1>11. chains' \in Chains(pos')
  BY <1>1, <1>7
<1> QED
  BY <1>1, <1>2, <1>8, <1>10, <1>11 DEF ChainsInv

(* A block that is written leaves the chains as they are.                   *)
LEMMA ChainsEmit ==
  ASSUME ChainsInv, NEW type \in Types, EmitBlock(type)
  PROVE  ChainsInv'
<1>1. phase = "gather" /\ syms' = <<>> /\ start' = pos /\ UNCHANGED <<data, pos, chains>>
  BY DEF EmitBlock
<1>2. syms' \in Seq(Symbols)
  BY <1>1, EmptySeq
<1>3. pos - pos <= BlockBytes
  BY FormatAssumption DEF ChainsInv
<1> QED
  BY <1>1, <1>2, <1>3 DEF ChainsInv

(* A stream begins with empty chains.                                       *)
LEMMA ChainsStart == StreamInit => ChainsInv
<1> SUFFICES ASSUME StreamInit PROVE ChainsInv
  OBVIOUS
<1>1. syms \in Seq(Symbols)
  BY EmptySeq DEF StreamInit
<1>2. chains \in Chains(pos)
  BY DEF StreamInit, Chains, Before
<1>3. phase = "gather" => data \in Seq(0 .. Literals - 1)
  BY FormatAssumption DEF StreamInit
<1> QED
  BY <1>1, <1>2, <1>3, FormatAssumption DEF StreamInit, ChainsInv

(* All other steps leave the compressor alone.                              *)
LEMMA StreamMoves ==
  ASSUME [StreamNext]_stream
  PROVE  \/ Gather \/ \E type \in Types : EmitBlock(type)
         \/ UNCHANGED encoder /\ (phase' = "gather" => phase = "gather")
<1>1. CASE Deliver
  BY <1>1 DEF Deliver
<1>2. CASE ReadHeader
  BY <1>2 DEF ReadHeader, Refuse, TakeUp, ReadStored, ReadDynamic, Finished
<1>3. CASE ReadSymbol
  BY <1>3 DEF ReadSymbol, ReadMatch, Refuse, Finished
<1>4. CASE SendLengths \/ ReceiveLengths
  BY <1>4 DEF SendLengths, ReceiveLengths
<1>5. CASE Over \/ UNCHANGED stream
  BY <1>5 DEF Over, stream, encoder
<1> QED
  BY <1>1, <1>2, <1>3, <1>4, <1>5 DEF StreamNext

(* Every step of a stream keeps the chains in the window.                   *)
LEMMA ChainsNext ==
  ASSUME ChainsInv, [StreamNext]_stream
  PROVE  ChainsInv'
BY StreamMoves, ChainsGather, ChainsEmit, ChainsStand

(* What a symbol stands for: the byte at p, or as many as it says that are  *)
(* those `dist` before them; q is where it ends.                            *)
StandsFor(sym, p, q) ==
  IF sym.dist = 0 THEN q = p + 1 /\ sym.literal = Byte(p)
  ELSE q = p + sym.literal /\ Repeats(p, sym.literal, sym.dist)

(* The symbols of the block, one after the other, stand for what it has     *)
(* passed of the input.                                                     *)
Spells(at) ==
  /\ at[0] = start /\ at[Len(syms)] = pos
  /\ \A i \in 1 .. Len(syms) : StandsFor(syms[i], at[i - 1], at[i])
BlockSpelled ==
  phase = "gather" => \E at \in [0 .. Len(syms) -> 0 .. Len(data)] : Spells(at)

(* The symbol that is gathered stands for the bytes that are passed.        *)
LEMMA GatheredStands ==
  ASSUME ChainsInv, Gather
  PROVE  /\ \E sym : syms' = Append(syms, sym) /\ StandsFor(sym, pos, pos')
         /\ pos' \in 0 .. Len(data)
<1> DEFINE m == FindMatch
           n == IF m.length >= MinMatch THEN m.length ELSE 1
           sym == IF n >= MinMatch THEN [literal |-> n, dist |-> m.dist]
                  ELSE [literal |-> Byte(pos), dist |-> 0]
<1>1. /\ phase = "gather" /\ RoomLeft
      /\ syms' = Append(syms, sym) /\ pos' = pos + n
  BY DEF Gather
<1>2. /\ data \in Seq(0 .. Literals - 1) /\ Len(data) \in Nat /\ pos \in Nat
      /\ pos < Len(data) /\ chains \in Chains(pos)
  BY <1>1, LenProperties DEF ChainsInv, RoomLeft
<1>3. /\ m.length \in 0 .. MaxMatch
      /\ m.length = 0 \/ (m.length <= Len(data) - pos /\ Repeats(pos, m.length, m.dist))
  BY <1>2, FoundUpTo
<1>4. CASE m.length >= MinMatch
  <2>1. sym = [literal |-> m.length, dist |-> m.dist] /\ n = m.length /\ m.length # 0
    BY <1>3, <1>4, FormatAssumption
  <2>2. m.length <= Len(data) - pos /\ Repeats(pos, m.length, m.dist) /\ m.dist # 0
    BY <1>3, <2>1 DEF Repeats
  <2> HIDE DEF m
  <2>3. StandsFor(sym, pos, pos + n)
    BY <2>1, <2>2 DEF StandsFor
  <2>4. pos + n \in 0 .. Len(data)
    BY <1>2, <1>3, <2>1, <2>2
  <2> HIDE DEF sym, n
  <2> QED
    BY <1>1, <2>3, <2>4
<1>5. CASE ~(m.length >= MinMatch)
  <2>1. sym = [literal |-> Byte(pos), dist |-> 0] /\ n = 1
    BY <1>5, FormatAssumption
  <2>2. StandsFor(sym, pos, pos + n)
    BY <2>1 DEF StandsFor
  <2>3. pos + n \in 0 .. Len(data)
    BY <1>2, <2>1
  <2> HIDE DEF sym, n
  <2> QED
    BY <1>1, <2>2, <2>3
<1> QED
  BY <1>4, <1>5

(* So the block goes on being spelled.                                      *)
LEMMA GatherSpells ==
  ASSUME ChainsInv, BlockSpelled, Gather
  PROVE  BlockSpelled'
<1>1. phase = "gather" /\ UNCHANGED <<data, start>>
  BY DEF Gather
<1>2. PICK at \in [0 .. Len(syms) -> 0 .. Len(data)] : Spells(at)
  BY <1>1 DEF BlockSpelled
<1>3. PICK sym : syms' = Append(syms, sym) /\ StandsFor(sym, pos, pos')
  BY GatheredStands
<1>4. pos' \in 0 .. Len(data)
  BY GatheredStands
<1>5. /\ Len(syms) \in Nat /\ Len(syms') = Len(syms) + 1 /\ syms'[Len(syms) + 1] = sym
      /\ \A i \in 1 .. Len(syms) : syms'[i] = syms[i]
  <2>1. syms \in Seq(Symbols \cup {sym}) /\ sym \in Symbols \cup {sym}
    <3>1. syms \in Seq(Symbols) /\ Symbols \subseteq Symbols \cup {sym}
      BY DEF ChainsInv
    <3> QED
      BY <3>1, SeqMonotonic
  <2> QED
    BY <1>3, <2>1, AppendProperties, LenProperties
<1>6. PICK to \in [0 .. Len(syms') -> 0 .. Len(data)] :
        to[Len(syms')] = pos' /\ \A i \in 0 .. Len(syms) : to[i] = at[i]
  <2> DEFINE to == [i \in 0 .. (Len(syms) + 1) |-> IF i = Len(syms) + 1 THEN pos' ELSE at[i]]
  <2>1. to \in [0 .. (Len(syms) + 1) -> 0 .. Len(data)]
    BY <1>2, <1>4, <1>5
  <2>2. to[Len(syms) + 1] = pos' /\ \A i \in 0 .. Len(syms) : to[i] = at[i]
    BY <1>5
  <2> HIDE DEF to
  <2> QED
    BY <1>5, <2>1, <2>2
<1>7. to[0] = start /\ to[Len(syms)] = pos
  BY <1>2, <1>5, <1>6 DEF Spells
<1>8. ASSUME NEW i \in 1 .. (Len(syms) + 1) PROVE StandsFor(syms'[i], to[i - 1], to[i])
  <2>1. CASE i = Len(syms) + 1
    <3>1. i - 1 = Len(syms) /\ syms'[i] = sym /\ to[i] = pos' /\ to[i - 1] = pos
      BY <1>5, <1>6, <1>7, <2>1
    <3> QED
      BY <1>3, <3>1
  <2>2. CASE i # Len(syms) + 1
    <3>1. i \in 1 .. Len(syms) /\ i - 1 \in 0 .. Len(syms) /\ i \in 0 .. Len(syms)
      BY <1>5, <2>2
    <3>2. to[i] = at[i] /\ to[i - 1] = at[i - 1] /\ syms'[i] = syms[i]
      BY <1>5, <1>6, <3>1
    <3> QED
      BY <1>2, <3>1, <3>2 DEF Spells
  <2> QED
    BY <2>1, <2>2
<1>9. ASSUME NEW i \in 1 .. (Len(syms) + 1) PROVE StandsFor(syms[i], to[i - 1], to[i])'
  BY <1>1, <1>8 DEF StandsFor, Repeats, Byte
<1>10. Spells(to)'
  BY <1>1, <1>5, <1>6, <1>7, <1>9 DEF Spells
<1> QED
  BY <1>1, <1>6, <1>10 DEF BlockSpelled

(* find_match: whatever the input and the window, no chain leads to a       *)
(* position that was overwritten or not yet passed, no match is further     *)
(* back than the window, and a block fits a stored one's length.            *)
THEOREM ChainsAlwaysHold == StreamSpec => []ChainsHold
<1>1. ChainsInv => ChainsHold
  <2> SUFFICES ASSUME ChainsInv PROVE ChainsHold
    OBVIOUS
  <2>1. ASSUME NEW i \in DOMAIN syms PROVE syms[i].dist < Window
    <3>1. syms[i] \in Symbols
      BY LenProperties, ElementOfSeq DEF ChainsInv
    <3> QED BY <3>1 DEF Symbols, Near
  <2> QED
    BY <2>1 DEF ChainsInv, ChainsHold, Chains, Before
<1> QED
  BY <1>1, ChainsStart, ChainsNext, PTL DEF StreamSpec

(* It is spelled so in every state, since what was passed is in the input.  *)
SpelledInv == ChainsInv /\ BlockSpelled /\ (phase = "gather" => pos \in 0 .. Len(data))

(* Before anything is gathered, the block spells nothing.                   *)
LEMMA SpelledStart ==
  ASSUME StreamInit
  PROVE  SpelledInv
<1> USE DEF SpelledInv
<1>1. ASSUME phase = "gather" PROVE pos \in 0 .. Len(data)
  <2>1. Len(data) \in Nat /\ pos = 0
    BY <1>1, LenProperties, FormatAssumption DEF StreamInit
  <2> QED
    BY <2>1
<1>2. syms = <<>> /\ start = pos
  BY DEF StreamInit
<1>3. ASSUME phase = "gather" PROVE BlockSpelled
  <2> DEFINE at == [i \in 0 .. 0 |-> pos]
  <2>1. at \in [0 .. Len(syms) -> 0 .. Len(data)] /\ Spells(at)
    BY <1>1, <1>2, <1>3 DEF Spells
  <2> HIDE DEF at
  <2> QED
    BY <2>1 DEF BlockSpelled
<1> QED
  BY <1>1, <1>3, ChainsStart DEF BlockSpelled

(* Each step keeps what the block spells.                                   *)
LEMMA SpelledNext ==
  ASSUME SpelledInv, [StreamNext]_stream
  PROVE  SpelledInv'
<1> USE DEF SpelledInv
<1>1. ChainsInv'
  BY ChainsNext
<1>2. CASE Gather
  <2>1. UNCHANGED data /\ pos' \in 0 .. Len(data)
    BY <1>2, GatheredStands DEF Gather
  <2> QED
    BY <1>1, <1>2, <2>1, GatherSpells
<1>3. ASSUME NEW type \in Types, EmitBlock(type) PROVE SpelledInv'
  <2>1. phase = "gather" /\ syms' = <<>> /\ start' = pos /\ UNCHANGED <<data, pos>>
    BY <1>3 DEF EmitBlock
  <2>2. PICK at \in [0 .. 0 -> 0 .. Len(data)] : at[0] = pos
    <3> DEFINE one == [i \in 0 .. 0 |-> pos]
    <3>1. one \in [0 .. 0 -> 0 .. Len(data)] /\ one[0] = pos
      BY <2>1
    <3> HIDE DEF one
    <3> QED
      BY <3>1
  <2>3. Spells(at)' /\ Len(syms') = 0
    BY <2>1, <2>2 DEF Spells
  <2> QED
    BY <1>1, <2>1, <2>2, <2>3 DEF BlockSpelled
<1>4. CASE UNCHANGED encoder /\ (phase' = "gather" => phase = "gather")
  <2>1. UNCHANGED <<data, pos, start, syms>>
    BY <1>4 DEF encoder
  <2> QED
    BY <1>1, <1>4, <2>1 DEF BlockSpelled, Spells, StandsFor, Repeats, Byte
<1> QED
  BY <1>2, <1>3, <1>4, StreamMoves

(* find_match and deflate_raw's loop: at any moment the symbols gathered of  *)
(* a block stand, one after the other, for just the bytes it has passed,    *)
(* each match for bytes that are there: none of the input is left out, said *)
(* twice or taken from elsewhere, whatever slots the chains have used again.*)
THEOREM TheBlockIsSpelled == StreamSpec => []BlockSpelled
<1>1. SpelledInv => BlockSpelled
  BY DEF SpelledInv
<1>2. StreamInit => SpelledInv
  BY SpelledStart
<1>3. SpelledInv /\ [StreamNext]_stream => SpelledInv'
  BY SpelledNext
<1> QED BY <1>1, <1>2, <1>3, PTL DEF StreamSpec

(* inf_codes: what it has given back of the input goes on by just the bytes *)
(* a symbol stands for, a match that overlaps what it makes included. So    *)
(* with the theorem before it, a block whose symbols arrive comes back.     *)
THEOREM SymbolsComeBack ==
  ASSUME data \in Seq(0 .. Literals - 1), NEW p \in 0 .. Len(data), out = SubSeq(data, 1, p),
         NEW sym \in Symbols, NEW q \in 0 .. Len(data), StandsFor(sym, p, q)
  PROVE  (IF sym.dist = 0 THEN Append(out, sym.literal) ELSE Copied(sym.dist, sym.literal))
         = SubSeq(data, 1, q)
<1> DEFINE D == 0 .. Literals - 1
           Upto(i) == SubSeq(data, 1, i)
<1>0. data \in Seq(D)
  OBVIOUS
<1>1. Len(data) \in Nat /\ p \in Nat /\ q \in Nat /\ sym.literal \in Nat
  BY LenProperties DEF Symbols
<1>2. ASSUME NEW i \in 0 .. Len(data)
      PROVE  Upto(i) \in Seq(D) /\ Len(Upto(i)) = i /\ \A j \in 1 .. i : Upto(i)[j] = data[j]
  <2>1. \A j \in 1 .. i : data[j] \in D
    <3>1. \A j \in 1 .. i : j \in 1 .. Len(data)
      BY <1>1
    <3> HIDE DEF D
    <3> QED
      BY <1>0, <3>1, ElementOfSeq
  <2>2. i \in Int /\ 1 \in Int /\ i - 1 + 1 = i /\ (1 <= i \/ i = 0)
    BY <1>1
  <2> HIDE DEF D, Upto
  <2>3. /\ SubSeq(data, 1, i) \in Seq(D)
        /\ Len(SubSeq(data, 1, i)) = IF 1 <= i THEN i - 1 + 1 ELSE 0
        /\ \A j \in 1 .. i - 1 + 1 : SubSeq(data, 1, i)[j] = data[1 + j - 1]
    BY ONLY <2>1, <2>2, SubSeqProperties
  <2>4. \A j \in 1 .. i : 1 + j - 1 = j
    OBVIOUS
  <2> QED
    BY <2>2, <2>3, <2>4 DEF Upto
<1>3. ASSUME NEW i \in 0 .. Len(data), i + 1 <= Len(data)
      PROVE  Upto(i + 1) = Append(Upto(i), data[i + 1])
  <2>1. data[i + 1] \in D
    <3>1. i + 1 \in 1 .. Len(data)
      BY <1>1, <1>3
    <3> HIDE DEF D
    <3> QED
      BY <1>0, <3>1, ElementOfSeq
  <2>2. i + 1 \in 0 .. Len(data)
    BY <1>1, <1>3
  <2> DEFINE a == Upto(i + 1)
             b == Append(Upto(i), data[i + 1])
  <2> HIDE DEF D, Upto
  <2>3. a \in Seq(D) /\ Len(a) = i + 1 /\ \A j \in 1 .. (i + 1) : a[j] = data[j]
    BY <1>2, <2>2
  <2>4. /\ b \in Seq(D) /\ Len(b) = i + 1 /\ b[i + 1] = data[i + 1]
        /\ \A j \in 1 .. i : b[j] = Upto(i)[j]
    <3> DEFINE u == Upto(i)
               v == data[i + 1]
    <3>1. u \in Seq(D) /\ Len(u) = i /\ v \in D
      BY <1>2, <2>1
    <3> HIDE DEF u, v
    <3>2. /\ Append(u, v) \in Seq(D) /\ Len(Append(u, v)) = i + 1
          /\ Append(u, v)[i + 1] = v /\ \A j \in 1 .. i : Append(u, v)[j] = u[j]
      BY <3>1, AppendProperties
    <3> QED
      BY <3>2 DEF u, v
  <2>5. ASSUME NEW j \in 1 .. (i + 1) PROVE a[j] = b[j]
    <3>1. j \in 1 .. i \/ j = i + 1
      OBVIOUS
    <3> QED
      BY <1>2, <2>3, <2>4, <3>1
  <2> HIDE DEF a, b
  <2>6. a = b
    BY <2>3, <2>4, <2>5, SeqEqual
  <2> QED
    BY <2>6 DEF a, b
<1> HIDE DEF Upto
<1>4. out = Upto(p)
  BY DEF Upto
<1>5. CASE sym.dist = 0
  <2>1. q = p + 1 /\ sym.literal = data[p + 1]
    BY <1>5 DEF StandsFor, Byte
  <2> QED
    BY <1>1, <1>3, <1>4, <1>5, <2>1 DEF Upto
<1>6. CASE sym.dist # 0
  <2> DEFINE n == sym.literal
             dist == sym.dist
             Is(f) == f = [k \in 0 .. n |->
                             IF k = 0 THEN out
                             ELSE Append(f[k - 1], f[k - 1][Len(f[k - 1]) + 1 - dist])]
             g == [k \in 0 .. n |-> Upto(p + k)]
  <2>1. q = p + n /\ dist \in 1 .. p /\ \A k \in 0 .. (n - 1) : Byte(p - dist + k) = Byte(p + k)
    BY <1>6 DEF StandsFor, Repeats
  <2>2. n \in Nat
    BY <1>1
  <2>3. Copied(dist, n) = (CHOOSE f : Is(f))[n]
    BY DEF Copied
  <2> HIDE DEF n, dist
  <2>4. ASSUME NEW k \in 1 .. n
        PROVE  Upto(p + k) = Append(Upto(p + (k - 1)),
                                     Upto(p + (k - 1))[Len(Upto(p + (k - 1))) + 1 - dist])
    <3> DEFINE i == p + (k - 1)
    <3>1. i \in 0 .. Len(data) /\ i + 1 <= Len(data) /\ i + 1 = p + k
      BY <1>1, <2>1, <2>2
    <3>2. i + 1 - dist \in 1 .. i
      BY <1>1, <2>1, <2>2
    <3>3. Byte(p - dist + (k - 1)) = Byte(p + (k - 1))
      <4>1. k - 1 \in 0 .. (n - 1)
        BY <2>2
      <4> DEFINE j == k - 1
      <4> HIDE DEF j
      <4>2. j \in 0 .. (n - 1) => Byte(p - dist + j) = Byte(p + j)
        BY <2>1
      <4> QED
        BY <4>1, <4>2 DEF j
    <3>4. p - dist + (k - 1) + 1 = i + 1 - dist
      BY <1>1, <2>1, <2>2
    <3>5. data[i + 1 - dist] = data[i + 1]
      <4>1. data[p - dist + (k - 1) + 1] = data[p + (k - 1) + 1]
        BY <3>3 DEF Byte
      <4>2. p + (k - 1) + 1 = i + 1
        OBVIOUS
      <4> HIDE DEF i
      <4> QED
        BY <3>4, <4>1, <4>2
    <3> HIDE DEF i
    <3>6. Upto(i + 1) = Append(Upto(i), data[i + 1])
      BY <1>3, <3>1
    <3>7. Upto(i)[Len(Upto(i)) + 1 - dist] = data[i + 1]
      BY <1>2, <3>1, <3>2, <3>5
    <3>8. Upto(p + k) = Append(Upto(i), Upto(i)[Len(Upto(i)) + 1 - dist])
      BY <3>1, <3>6, <3>7
    <3> QED
      BY <3>8 DEF i
  <2>5. Is(g)
    <3>1. ASSUME NEW k \in 0 .. n
          PROVE  g[k] = (IF k = 0 THEN out
                         ELSE Append(g[k - 1], g[k - 1][Len(g[k - 1]) + 1 - dist]))
      <4>1. CASE k = 0
        <5>1. p + 0 = p
          BY <1>1
        <5> QED
          BY <1>4, <4>1, <5>1
      <4>2. CASE k # 0
        <5>1. k \in 1 .. n /\ k - 1 \in 0 .. n
          BY <2>2, <4>2
        <5> QED
          BY <2>4, <4>2, <5>1
      <4> QED
        BY <4>1, <4>2
    <3>2. g = [k \in 0 .. n |-> g[k]]
      OBVIOUS
    <3> HIDE DEF g
    <3> QED
      BY <3>1, <3>2
  <2> DEFINE f == CHOOSE f : Is(f)
  <2>6. Is(f)
    <3> HIDE DEF g
    <3> QED
      BY <2>5
  <2> HIDE DEF f
  <2> DEFINE P == {k \in 0 .. n : f[k] = Upto(p + k)}
  <2>7. 0 \in P
    <3>1. p + 0 = p /\ 0 \in 0 .. n
      BY <1>1, <2>2
    <3>2. f[0] = out
      BY <2>6, <3>1
    <3> QED
      BY <1>4, <3>1, <3>2
  <2>8. ASSUME NEW k \in 1 .. n, k - 1 \in P PROVE k \in P
    <3>1. k \in 0 .. n /\ k # 0
      BY <2>2
    <3>2. f[k] = Append(f[k - 1], f[k - 1][Len(f[k - 1]) + 1 - dist])
      BY <2>6, <3>1
    <3>3. f[k - 1] = Upto(p + (k - 1))
      BY <2>8
    <3> QED
      BY <2>4, <3>1, <3>2, <3>3
  <2>9. 0 .. n \subseteq P
    <3> HIDE DEF P
    <3> QED BY <2>2, <2>7, <2>8, Upward
  <2>10. f[n] = Upto(p + n)
    <3>1. n \in 0 .. n
      BY <2>2
    <3> QED
      BY <2>9, <3>1
  <2>11. Copied(dist, n) = Upto(q)
    BY <2>1, <2>3, <2>10 DEF f
  <2> QED
    BY <1>6, <2>11 DEF n, dist, Upto
<1> QED
  BY <1>5, <1>6


(***************************************************************************)
(* What a block's symbols are, beyond their standing for what was passed.    *)
(***************************************************************************)
SymOk(sym) ==
  /\ sym.literal \in Nat /\ sym.dist \in 0 .. (Window - 1)
  /\ IF sym.dist = 0 THEN sym.literal < Literals ELSE sym.literal \in MinMatch .. MaxMatch
SymsOk == phase = "gather" => \A i \in 1 .. Len(syms) : SymOk(syms[i])

(* What Gather adds is a literal or a match that fits the codes.            *)
LEMMA GatherOk ==
  ASSUME ChainsInv, SymsOk, Gather
  PROVE  SymsOk'
<1> DEFINE m == FindMatch
           n == IF m.length >= MinMatch THEN m.length ELSE 1
           sym == IF n >= MinMatch THEN [literal |-> n, dist |-> m.dist]
                  ELSE [literal |-> Byte(pos), dist |-> 0]
<1>1. /\ phase = "gather" /\ RoomLeft
      /\ syms' = Append(syms, sym) /\ pos' = pos + n
  BY DEF Gather
<1>2. /\ data \in Seq(0 .. Literals - 1) /\ Len(data) \in Nat /\ pos \in Nat
      /\ pos < Len(data) /\ chains \in Chains(pos) /\ syms \in Seq(Symbols) /\ Len(syms) \in Nat
  BY <1>1, LenProperties DEF ChainsInv, RoomLeft
<1>3. /\ m.length \in 0 .. MaxMatch /\ m.dist \in Near
      /\ m.length = 0 \/ (m.length <= Len(data) - pos /\ Repeats(pos, m.length, m.dist))
  BY <1>2, FoundUpTo
<1> HIDE DEF m
<1>4. SymOk(sym)
  <2>1. CASE m.length >= MinMatch
    <3>1. sym = [literal |-> m.length, dist |-> m.dist] /\ m.length # 0
      BY <1>3, <2>1, FormatAssumption
    <3>2. m.dist \in 1 .. pos /\ m.dist < Window
      BY <1>3, <3>1 DEF Repeats, Near
    <3>3. sym.literal = m.length /\ sym.dist = m.dist
      BY <3>1
    <3> HIDE DEF sym
    <3> QED BY <1>2, <1>3, <2>1, <3>2, <3>3, FormatAssumption DEF SymOk
  <2>2. CASE ~(m.length >= MinMatch)
    <3>1. sym.literal = Byte(pos) /\ sym.dist = 0
      BY <2>2, FormatAssumption
    <3>2. pos + 1 \in 1 .. Len(data)
      BY <1>2
    <3>3. Byte(pos) \in 0 .. (Literals - 1)
      BY <1>2, <3>2, ElementOfSeq DEF Byte
    <3> HIDE DEF sym
    <3> QED BY <3>1, <3>3, FormatAssumption DEF SymOk
  <2> QED BY <2>1, <2>2
<1> HIDE DEF sym
<1>5. /\ Len(syms') = Len(syms) + 1 /\ syms'[Len(syms) + 1] = sym
      /\ \A i \in 1 .. Len(syms) : syms'[i] = syms[i]
  <2>1. syms \in Seq(Symbols \cup {sym}) /\ sym \in Symbols \cup {sym}
    <3>1. Symbols \subseteq Symbols \cup {sym}
      OBVIOUS
    <3> QED
      BY <1>2, <3>1, SeqMonotonic
  <2> QED
    BY <1>1, <2>1, AppendProperties
<1>6. ASSUME NEW i \in 1 .. Len(syms') PROVE SymOk(syms'[i])
  <2>1. i \in 1 .. Len(syms) \/ i = Len(syms) + 1
    BY <1>2, <1>5
  <2> QED BY <1>1, <1>4, <1>5, <2>1 DEF SymsOk
<1>7. \A i \in 1 .. Len(syms') : SymOk(syms[i])'
  BY <1>6 DEF SymOk
<1> QED
  BY <1>7 DEF SymsOk

(***************************************************************************)
(* The code of a length or a distance, and the bits after it.                *)
(***************************************************************************)
CodeSpans(codes, v) ==
  LET c == CodeOf(codes, v)
  IN /\ c \in 1 .. Len(codes) /\ codes[c][1] \in Nat /\ codes[c][2] \in Nat
     /\ codes[c][1] <= v /\ v - codes[c][1] < 2 ^ codes[c][2]

(* len_sym and dist_sym find a code.                                        *)
LEMMA CodeOfIs ==
  ASSUME NEW codes \in Seq(Nat \X Nat), Len(codes) > 0, NEW v \in Int
  PROVE  CodeOf(codes, v) \in 1 .. Len(codes)
<1> DEFINE n == Len(codes)
           S == {i \in 1 .. n : codes[i][1] <= v \/ i = 1}
           Is(i) == (codes[i][1] <= v \/ i = 1) /\ \A j \in DOMAIN codes : j > i => codes[j][1] > v
<1>1. n \in Nat /\ DOMAIN codes = 1 .. n /\ n > 0
  BY LenProperties
<1>2. \A i \in 1 .. n : codes[i][1] \in Nat
  <2>1. \A i \in 1 .. n : codes[i] \in Nat \X Nat
    BY ElementOfSeq
  <2> QED BY <2>1
<1> HIDE DEF n
<1>3. S \in SUBSET (0 .. n) /\ 1 \in S
  BY <1>1
<1>4. PICK m \in S : \A j \in S : j <= m
  <2> HIDE DEF S
  <2> QED BY <1>1, <1>3, Greatest
<1>5. Is(m)
  <2>1. m \in 1 .. n /\ (codes[m][1] <= v \/ m = 1)
    BY <1>4
  <2>2. ASSUME NEW j \in 1 .. n, j > m PROVE codes[j][1] > v
    <3>1. ~(j \in S)
      <4> HIDE DEF S
      <4>1. j \in S => j <= m
        BY <1>4
      <4> QED BY <2>1, <2>2, <4>1
    <3>2. ~(codes[j][1] <= v)
      BY <3>1
    <3> DEFINE x == codes[j][1]
    <3>3. x \in Nat /\ ~(x <= v)
      BY <1>2, <3>2
    <3> HIDE DEF x
    <3>4. x > v
      BY <3>3
    <3> QED BY <3>4 DEF x
  <2> QED BY <1>1, <2>1, <2>2
<1>6. m \in DOMAIN codes
  BY <1>1, <1>4
<1>7. CodeOf(codes, v) = CHOOSE i \in DOMAIN codes : Is(i)
  BY DEF CodeOf
<1> HIDE DEF Is
<1> QED
  BY <1>1, <1>5, <1>6, <1>7 DEF n

(* The code that is found spans the value: its base is not above it, and    *)
(* its extra bits are enough.                                               *)
LEMMA SpansIs ==
  ASSUME NEW codes \in Seq(Nat \X Nat), Len(codes) > 0, NEW V \in SUBSET Int,
         Spans(codes, V), NEW v \in V
  PROVE  CodeSpans(codes, v)
<1> DEFINE c == CodeOf(codes, v)
           x == codes[c][1]
           y == codes[c][2]
<1>1. c \in 1 .. Len(codes)
  BY CodeOfIs
<1>2. x \in Nat /\ y \in Nat
  <2>1. codes[c] \in Nat \X Nat
    BY <1>1, ElementOfSeq
  <2> QED BY <2>1
<1>3. x <= v /\ v < x + 2 ^ y
  BY DEF Spans
<1> HIDE DEF c
<1>4. v - x < 2 ^ y
  <2> DEFINE e == 2 ^ y
  <2>1. e \in Nat /\ v \in Int /\ v < x + e /\ x \in Nat
    BY <1>2, <1>3, Doubles
  <2> HIDE DEF e, x, y
  <2>2. v - x < e
    BY <2>1
  <2> QED BY <2>2 DEF e
<1> QED
  BY <1>1, <1>2, <1>3, <1>4 DEF CodeSpans, c

(* So it is for the length and the distance of every match.                 *)
LEMMA SymbolSpans ==
  ASSUME NEW sym, SymOk(sym), sym.dist # 0
  PROVE  CodeSpans(LengthCodes, sym.literal) /\ CodeSpans(DistCodes, sym.dist)
<1>1. /\ LengthCodes \in Seq(Nat \X Nat) /\ Len(LengthCodes) > 0
      /\ DistCodes \in Seq(Nat \X Nat) /\ Len(DistCodes) > 0
  <2> DEFINE a == Len(LengthCodes)
             b == Len(DistCodes)
  <2>1. LengthCodes \in Seq(Nat \X Nat) /\ DistCodes \in Seq(Nat \X Nat) /\ a \in 1 .. 31 /\ b \in 2 .. 32
    BY AlphabetAssumption
  <2> HIDE DEF a, b
  <2>2. a > 0 /\ b > 0
    BY <2>1
  <2> QED BY <2>1, <2>2 DEF a, b
<1>2. /\ sym.literal \in MinMatch .. MaxMatch /\ sym.dist \in 1 .. (Window - 1)
      /\ MinMatch .. MaxMatch \in SUBSET Int /\ 1 .. (Window - 1) \in SUBSET Int
  BY FormatAssumption DEF SymOk
<1> QED
  BY <1>1, <1>2, SpansIs, CodesAssumption

(* Whether the tables have a code for it.                                    *)
SymCodes(sym, lit, dist) ==
  IF sym.dist = 0 THEN CodeFor(lit, sym.literal)
  ELSE /\ CodeFor(lit, EndBlock + CodeOf(LengthCodes, sym.literal))
       /\ CodeFor(dist, CodeOf(DistCodes, sym.dist) - 1)

(* The extra bits of a value are what is left of it above the base.         *)
LEMMA ExtraIs ==
  ASSUME NEW codes, NEW v \in Nat, CodeSpans(codes, v)
  PROVE  LET c == CodeOf(codes, v)
         IN  /\ ExtraBits(codes, c, v) = BitsOf(v - codes[c][1], codes[c][2])
             /\ v - codes[c][1] \in Nat
             /\ ExtraBits(codes, c, v) \in Seq(Bits01)
             /\ Len(ExtraBits(codes, c, v)) = codes[c][2]
<1> DEFINE c == CodeOf(codes, v)
           x == codes[c][1]
           y == codes[c][2]
           w == v - x
<1>1. x \in Nat /\ y \in Nat /\ x <= v
  BY DEF CodeSpans
<1>2. ExtraBits(codes, c, v) = BitsOf(w, y)
  BY DEF ExtraBits
<1> HIDE DEF c, x, y
<1>3. w \in Nat
  BY <1>1
<1> HIDE DEF w
<1>4. BitsOf(w, y) \in Seq(Bits01) /\ Len(BitsOf(w, y)) = y
  BY <1>1, <1>3, BitsAreBits
<1> QED
  BY <1>2, <1>3, <1>4 DEF c, x, y, w

(* The parts of a match: two codes, each with its extra bits.                *)
MatchParts(sym, lit, dist) ==
  LET l == CodeOf(LengthCodes, sym.literal)
      d == CodeOf(DistCodes, sym.dist)
  IN <<CodeBits(lit, EndBlock + l), ExtraBits(LengthCodes, l, sym.literal),
       CodeBits(dist, d - 1), ExtraBits(DistCodes, d, sym.dist)>>

(* The bits of a symbol: one code, or two with their extra bits.            *)
LEMMA SymbolBitsAre ==
  ASSUME NEW sym, SymOk(sym), NEW lit, NEW dist, SymCodes(sym, lit, dist)
  PROVE  /\ SymbolBits(sym, lit, dist) \in Seq(Bits01)
         /\ sym.dist = 0 => SymbolBits(sym, lit, dist) = CodeBits(lit, sym.literal)
         /\ sym.dist # 0 =>
              LET p == MatchParts(sym, lit, dist)
              IN  /\ SymbolBits(sym, lit, dist) = p[1] \o p[2] \o p[3] \o p[4]
                  /\ p[1] \in Seq(Bits01) /\ p[2] \in Seq(Bits01)
                  /\ p[3] \in Seq(Bits01) /\ p[4] \in Seq(Bits01)
<1>1. CASE sym.dist = 0
  <2>1. SymbolBits(sym, lit, dist) = CodeBits(lit, sym.literal)
    BY <1>1 DEF SymbolBits
  <2>2. CodeBits(lit, sym.literal) \in Seq(Bits01)
    BY <1>1, CodeBitsAre DEF SymCodes, CodeFor
  <2> QED BY <1>1, <2>1, <2>2
<1>2. CASE sym.dist # 0
  <2> DEFINE l == CodeOf(LengthCodes, sym.literal)
             d == CodeOf(DistCodes, sym.dist)
             p1 == CodeBits(lit, EndBlock + l)
             p2 == ExtraBits(LengthCodes, l, sym.literal)
             p3 == CodeBits(dist, d - 1)
             p4 == ExtraBits(DistCodes, d, sym.dist)
  <2>1. SymbolBits(sym, lit, dist) = p1 \o p2 \o p3 \o p4
    BY <1>2 DEF SymbolBits
  <2>2. CodeFor(lit, EndBlock + l) /\ CodeFor(dist, d - 1)
    BY <1>2 DEF SymCodes
  <2>3. p1 \in Seq(Bits01) /\ p3 \in Seq(Bits01)
    <3> HIDE DEF l, d
    <3>1. CodeBits(lit, EndBlock + l) \in Seq(Bits01)
      BY <2>2, CodeBitsAre DEF CodeFor
    <3>2. CodeBits(dist, d - 1) \in Seq(Bits01)
      BY <2>2, CodeBitsAre DEF CodeFor
    <3> QED BY <3>1, <3>2
  <2>4. p2 \in Seq(Bits01) /\ p4 \in Seq(Bits01)
    <3>1. sym.literal \in Nat /\ sym.dist \in Nat
      BY DEF SymOk
    <3> QED BY <1>2, <3>1, SymbolSpans, ExtraIs
  <2>5. MatchParts(sym, lit, dist) = <<p1, p2, p3, p4>>
    BY DEF MatchParts
  <2> HIDE DEF p1, p2, p3, p4
  <2>6. /\ MatchParts(sym, lit, dist)[1] = p1 /\ MatchParts(sym, lit, dist)[2] = p2
        /\ MatchParts(sym, lit, dist)[3] = p3 /\ MatchParts(sym, lit, dist)[4] = p4
    BY <2>5
  <2>7. p1 \o p2 \o p3 \o p4 \in Seq(Bits01)
    <3>1. p1 \o p2 \in Seq(Bits01)
      BY <2>3, <2>4, ConcatProperties
    <3>2. (p1 \o p2) \o p3 \in Seq(Bits01)
      BY <2>3, <3>1, ConcatProperties
    <3> QED BY <2>4, <3>2, ConcatProperties
  <2> QED BY <1>2, <2>1, <2>3, <2>4, <2>6, <2>7
<1> QED
  BY <1>1, <1>2

(* Codes of the same lengths give a symbol the same bits.                    *)
LEMMA SymbolAlike ==
  ASSUME NEW sym, NEW lit, NEW dist, NEW lit2, NEW dist2, SymCodes(sym, lit, dist),
         Alphabet(lit), Alphabet(dist), Alphabet(lit2), Alphabet(dist2),
         Alike(lit, lit2), Alike(dist, dist2)
  PROVE  /\ SymCodes(sym, lit2, dist2)
         /\ SymbolBits(sym, lit2, dist2) = SymbolBits(sym, lit, dist)
<1>1. ASSUME NEW a, NEW b, NEW s, Alphabet(a), Alphabet(b), Alike(a, b), CodeFor(a, s)
      PROVE  CodeFor(b, s) /\ CodeBits(b, s) = CodeBits(a, s)
  <2>1. s \in DOMAIN a /\ a[s] \in 1 .. MaxBits /\ LeftOver(a) >= 0
    BY <1>1 DEF CodeFor
  <2>2. s \in DOMAIN b /\ b[s] = a[s] /\ CodeBits(b, s) = CodeBits(a, s)
    BY <1>1, <2>1, AlikeBits
  <2>3. LeftOver(b) = LeftOver(a)
    BY <1>1, AlikeLeft
  <2> QED BY <1>1, <2>1, <2>2, <2>3 DEF CodeFor
<1>2. CASE sym.dist = 0
  BY <1>1, <1>2 DEF SymCodes, SymbolBits
<1>3. CASE sym.dist # 0
  <2> DEFINE l == EndBlock + CodeOf(LengthCodes, sym.literal)
             d == CodeOf(DistCodes, sym.dist) - 1
  <2>1. CodeFor(lit, l) /\ CodeFor(dist, d)
    BY <1>3 DEF SymCodes
  <2> HIDE DEF l, d
  <2>2. /\ CodeFor(lit2, l) /\ CodeBits(lit2, l) = CodeBits(lit, l)
        /\ CodeFor(dist2, d) /\ CodeBits(dist2, d) = CodeBits(dist, d)
    BY <1>1, <2>1
  <2> QED BY <1>3, <2>2 DEF SymCodes, SymbolBits, l, d
<1> QED
  BY <1>2, <1>3

(* Four pieces that follow each other lie one behind the other.             *)
LEMMA FourHeld ==
  ASSUME NEW W \in Seq(Bits01), NEW i \in Nat, NEW a \in Seq(Bits01), NEW b \in Seq(Bits01),
         NEW c \in Seq(Bits01), NEW d \in Seq(Bits01), Holds(W, i, a \o b \o c \o d)
  PROVE  /\ Holds(W, i, a) /\ Holds(W, i + Len(a), b)
         /\ Holds(W, i + Len(a) + Len(b), c) /\ Holds(W, i + Len(a) + Len(b) + Len(c), d)
         /\ Len(a \o b \o c \o d) = Len(a) + Len(b) + Len(c) + Len(d)
         /\ Len(a) \in Nat /\ Len(b) \in Nat /\ Len(c) \in Nat /\ Len(d) \in Nat
<1> DEFINE x == a \o b
           y == x \o c
           la == Len(a)
           lb == Len(b)
           lc == Len(c)
           ld == Len(d)
<1>1. la \in Nat /\ lb \in Nat /\ lc \in Nat /\ ld \in Nat
  BY LenProperties
<1>2. x \in Seq(Bits01) /\ Len(x) = la + lb
  BY ConcatProperties
<1> HIDE DEF x
<1>3. y \in Seq(Bits01) /\ Len(y) = Len(x) + lc
  BY <1>2, ConcatProperties
<1> HIDE DEF y
<1>4. Holds(W, i, y \o d)
  BY DEF x, y
<1>5. Holds(W, i, y) /\ Holds(W, i + Len(y), d) /\ Len(y \o d) = Len(y) + ld
  <2>1. Holds(W, i, y) /\ Holds(W, i + Len(y), d) /\ Len(y \o d) = Len(y) + Len(d)
    <3>1. \A z \in Seq(Bits01) : Holds(W, i, z \o d) =>
            /\ Holds(W, i, z) /\ Holds(W, i + Len(z), d)
            /\ Len(z \o d) = Len(z) + Len(d)
      BY HoldsBoth
    <3>2. y \in Seq(Bits01)
      BY <1>3
    <3> HIDE DEF la, lb, lc, ld
    <3> QED BY <1>4, <3>1, <3>2
  <2> QED BY <2>1
<1>6. Holds(W, i, x) /\ Holds(W, i + Len(x), c)
  BY <1>2, <1>5, HoldsBoth DEF y
<1>7. Holds(W, i, a) /\ Holds(W, i + la, b)
  BY <1>6, HoldsBoth DEF x
<1> HIDE DEF la, lb, lc, ld
<1>8. i + Len(y) = i + la + lb + lc /\ i + Len(x) = i + la + lb /\ Len(y) + ld = la + lb + lc + ld
  <2> DEFINE lx == Len(x)
             ly == Len(y)
  <2>1. lx = la + lb /\ ly = lx + lc
    BY <1>2, <1>3
  <2> HIDE DEF lx, ly
  <2>2. i + ly = i + la + lb + lc /\ i + lx = i + la + lb /\ ly + ld = la + lb + lc + ld
    BY <1>1, <2>1
  <2> QED BY <2>2 DEF lx, ly
<1>9. Len(a \o b \o c \o d) = la + lb + lc + ld
  BY <1>5, <1>8 DEF x, y
<1> QED
  BY <1>1, <1>5, <1>6, <1>7, <1>8, <1>9 DEF la, lb, lc, ld

(* The base and the extra bits that are read make the value again.          *)
LEMMA ExtraRead ==
  ASSUME NEW W, Stream(W), NEW i \in Nat, NEW codes, NEW v \in Nat, CodeSpans(codes, v),
         Holds(W, i, ExtraBits(codes, CodeOf(codes, v), v)), Has(i, codes[CodeOf(codes, v)][2])
  PROVE  LET c == codes[CodeOf(codes, v)] IN c[1] + Number(i, c[2]) = v
<1> DEFINE c == codes[CodeOf(codes, v)]
           x == c[1]
           y == c[2]
           z == v - x
<1>1. x \in Nat /\ y \in Nat /\ z < 2 ^ y
  BY DEF CodeSpans
<1>2. ExtraBits(codes, CodeOf(codes, v), v) = BitsOf(z, y) /\ z \in Nat
  BY ExtraIs
<1>3. W \in Seq(Bits01) /\ bits \in Seq(Bits01) /\ Arrives(W)
  BY DEF Stream
<1>4. Holds(W, i, BitsOf(z, y)) /\ Has(i, y)
  BY <1>2
<1>5. v = x + z
  <2> HIDE DEF c
  <2> HIDE DEF x
  <2> QED BY <1>1
<1> HIDE DEF z, c, x, y
<1>6. Number(i, y) = z
  BY <1>1, <1>2, <1>3, <1>4, BitsComeBack
<1> QED
  BY <1>5, <1>6 DEF c, x, y

(* What was put out so far is as long as the place it ends at.              *)
LEMMA OutIs ==
  ASSUME data \in Seq(0 .. Literals - 1), NEW p \in 0 .. Len(data)
  PROVE  Len(SubSeq(data, 1, p)) = p
<1> DEFINE D == 0 .. Literals - 1
<1>1. \A j \in 1 .. p : data[j] \in D
  <2>1. Len(data) \in Nat
    BY LenProperties
  <2>2. \A j \in 1 .. p : j \in 1 .. Len(data)
    BY <2>1
  <2> HIDE DEF D
  <2> QED BY <2>2, ElementOfSeq DEF D
<1>2. p \in Int /\ 1 \in Int /\ p - 1 + 1 = p /\ (1 <= p \/ p = 0)
  <2>1. Len(data) \in Nat
    BY LenProperties
  <2> QED BY <2>1
<1> HIDE DEF D
<1>3. Len(SubSeq(data, 1, p)) = IF 1 <= p THEN p - 1 + 1 ELSE 0
  BY ONLY <1>1, <1>2, SubSeqProperties
<1> QED
  BY <1>2, <1>3

GaveUp == phase' = "refused" /\ UNCHANGED <<encoder, cut>>

(* inf_codes on a symbol that was written.                                   *)
LEMMA LiteralRead ==
  ASSUME NEW W, Stream(W), cursor \in Nat, phase = "symbols", NEW sym \in Symbols, SymOk(sym),
         sym.dist = 0, SymCodes(sym, tables[1], tables[2]),
         Holds(W, cursor, SymbolBits(sym, tables[1], tables[2])), ReadSymbol,
         data \in Seq(0 .. Literals - 1), NEW p \in 0 .. Len(data), NEW q \in 0 .. Len(data),
         StandsFor(sym, p, q), out = SubSeq(data, 1, p)
  PROVE  LET w == Len(SymbolBits(sym, tables[1], tables[2]))
         IN  IF Has(cursor, w)
             THEN /\ out' = SubSeq(data, 1, q) /\ cursor' = cursor + w
                  /\ UNCHANGED <<phase, encoder, bits, tables, cut, last>>
             ELSE GaveUp
<1> DEFINE lit == tables[1]
           s == sym.literal
           d == Decode(cursor, lit)
           w == Len(SymbolBits(sym, lit, tables[2]))
<1>1. SymbolBits(sym, lit, tables[2]) = CodeBits(lit, s) /\ CodeFor(lit, s)
  BY SymbolBitsAre DEF SymCodes
<1>2. Alphabet(lit) /\ LeftOver(lit) >= 0 /\ s \in DOMAIN lit /\ lit[s] \in 1 .. MaxBits
  BY <1>1 DEF CodeFor
<1>3. W \in Seq(Bits01) /\ bits \in Seq(Bits01) /\ Arrives(W)
  BY DEF Stream
<1> HIDE DEF lit, s
<1>4. w = lit[s]
  BY <1>1, <1>2, CodeBitsAre
<1>5. d = IF Has(cursor, lit[s]) THEN [sym |-> s, at |-> cursor + lit[s]]
                                 ELSE [sym |-> None, at |-> cursor]
  <2>1. Holds(W, cursor, CodeBits(lit, s))
    BY <1>1 DEF lit
  <2> QED BY <1>2, <1>3, <2>1, CodesComeBack
<1> HIDE DEF d, w
<1>6. s \in Nat /\ s < EndBlock /\ EndBlock \in Nat /\ s # None
  <2>1. s \in Nat /\ s < EndBlock /\ EndBlock \in Nat
    BY FormatAssumption DEF SymOk, s, EndBlock
  <2> QED BY <2>1, FormatAssumption
<1>7. p < Len(data) /\ Len(out) = p
  <2>1. q = p + 1
    BY DEF StandsFor
  <2>2. Len(data) \in Nat /\ Len(out) = p
    BY OutIs, LenProperties
  <2> QED BY <2>1, <2>2
<1>8. /\ UNCHANGED last
      /\ IF d.sym = None THEN Refuse
         ELSE IF d.sym > EndBlock THEN ReadMatch(d)
         ELSE IF d.sym = EndBlock
           THEN /\ cursor' = d.at /\ phase' = Finished(Len(out))
                /\ UNCHANGED <<encoder, bits, out, tables, cut>>
         ELSE IF Len(out) >= Len(data) THEN Refuse
         ELSE /\ out' = Append(out, d.sym) /\ cursor' = d.at
              /\ UNCHANGED <<phase, encoder, bits, tables, cut>>
  BY DEF ReadSymbol, d, lit
<1>9. CASE Has(cursor, w)
  <2>1. d = [sym |-> s, at |-> cursor + w]
    BY <1>4, <1>5, <1>9
  <2>2. d.sym = s /\ d.at = cursor + w
    BY <2>1
  <2>3. ~(Len(out) >= Len(data))
    <3> DEFINE a == Len(data)
    <3>1. a \in Nat /\ p \in Nat /\ p < a
      BY <1>7, LenProperties
    <3> HIDE DEF a
    <3>2. ~(p >= a)
      BY <3>1
    <3> QED BY <1>7, <3>2 DEF a
  <2>4. /\ out' = Append(out, s) /\ cursor' = cursor + w
        /\ UNCHANGED <<phase, encoder, bits, tables, cut, last>>
    <3>1. d.sym # None /\ ~(d.sym > EndBlock) /\ d.sym # EndBlock
      BY <1>6, <2>2
    <3> QED BY <1>8, <2>2, <2>3, <3>1
  <2>5. Append(out, s) = SubSeq(data, 1, q)
    BY SymbolsComeBack DEF s
  <2> QED BY <1>9, <2>4, <2>5 DEF w, lit
<1>10. CASE ~Has(cursor, w)
  <2>1. d = [sym |-> None, at |-> cursor]
    BY <1>4, <1>5, <1>10
  <2>2. d.sym = None
    BY <2>1
  <2>3. GaveUp
    BY <1>8, <2>2 DEF Refuse, GaveUp
  <2> QED BY <1>10, <2>3 DEF w, lit
<1> QED
  BY <1>9, <1>10

(* Reading the code of the end ends the block, or the stream is at its end. *)
LEMMA EndRead ==
  ASSUME NEW W, Stream(W), cursor \in Nat, phase = "symbols",
         CodeFor(tables[1], EndBlock), Holds(W, cursor, CodeBits(tables[1], EndBlock)), ReadSymbol
  PROVE  LET w == Len(CodeBits(tables[1], EndBlock))
         IN  IF Has(cursor, w)
             THEN /\ cursor' = cursor + w /\ phase' = Finished(Len(out))
                  /\ UNCHANGED <<encoder, bits, out, tables, cut, last>>
             ELSE GaveUp
<1> DEFINE lit == tables[1]
           s == EndBlock
           d == Decode(cursor, lit)
           w == Len(CodeBits(lit, s))
<1>2. Alphabet(lit) /\ LeftOver(lit) >= 0 /\ s \in DOMAIN lit /\ lit[s] \in 1 .. MaxBits
  BY DEF CodeFor
<1>3. W \in Seq(Bits01) /\ bits \in Seq(Bits01) /\ Arrives(W)
  BY DEF Stream
<1> HIDE DEF lit, s
<1>4. w = lit[s]
  BY <1>2, CodeBitsAre
<1>5. d = IF Has(cursor, lit[s]) THEN [sym |-> s, at |-> cursor + lit[s]]
                                 ELSE [sym |-> None, at |-> cursor]
  <2>1. Holds(W, cursor, CodeBits(lit, s))
    BY DEF lit, s
  <2> QED BY <1>2, <1>3, <2>1, CodesComeBack
<1> HIDE DEF d, w
<1>6. s = EndBlock /\ EndBlock \in Nat /\ s # None
  <2>1. s = EndBlock /\ EndBlock \in Nat
    BY FormatAssumption DEF s, EndBlock
  <2> QED BY <2>1, FormatAssumption
<1>8. /\ UNCHANGED last
      /\ IF d.sym = None THEN Refuse
         ELSE IF d.sym > EndBlock THEN ReadMatch(d)
         ELSE IF d.sym = EndBlock
           THEN /\ cursor' = d.at /\ phase' = Finished(Len(out))
                /\ UNCHANGED <<encoder, bits, out, tables, cut>>
         ELSE IF Len(out) >= Len(data) THEN Refuse
         ELSE /\ out' = Append(out, d.sym) /\ cursor' = d.at
              /\ UNCHANGED <<phase, encoder, bits, tables, cut>>
  BY DEF ReadSymbol, d, lit
<1>9. CASE Has(cursor, w)
  <2>1. d = [sym |-> s, at |-> cursor + w]
    BY <1>4, <1>5, <1>9
  <2>2. d.sym = s /\ d.at = cursor + w
    BY <2>1
  <2>3. d.sym # None /\ ~(d.sym > EndBlock) /\ d.sym = EndBlock
    BY <1>6, <2>2
  <2>4. /\ cursor' = cursor + w /\ phase' = Finished(Len(out))
        /\ UNCHANGED <<encoder, bits, out, tables, cut, last>>
    BY <1>8, <2>2, <2>3
  <2> QED BY <1>9, <2>4 DEF w, lit, s
<1>10. CASE ~Has(cursor, w)
  <2>1. d = [sym |-> None, at |-> cursor]
    BY <1>4, <1>5, <1>10
  <2>2. d.sym = None
    BY <2>1
  <2>3. GaveUp
    BY <1>8, <2>2 DEF Refuse, GaveUp
  <2> QED BY <1>10, <2>3 DEF w, lit, s
<1> QED
  BY <1>9, <1>10

(* Reading a match copies what it stands for (inf_codes), or the stream is  *)
(* at its end.                                                              *)
LEMMA MatchRead ==
  ASSUME NEW W, Stream(W), cursor \in Nat, phase = "symbols", NEW sym \in Symbols, SymOk(sym),
         sym.dist # 0, SymCodes(sym, tables[1], tables[2]),
         Holds(W, cursor, SymbolBits(sym, tables[1], tables[2])), ReadSymbol,
         data \in Seq(0 .. Literals - 1), NEW p \in 0 .. Len(data), NEW q \in 0 .. Len(data),
         StandsFor(sym, p, q), out = SubSeq(data, 1, p)
  PROVE  LET w == Len(SymbolBits(sym, tables[1], tables[2]))
         IN  IF Has(cursor, w)
             THEN /\ out' = SubSeq(data, 1, q) /\ cursor' = cursor + w
                  /\ UNCHANGED <<phase, encoder, bits, tables, cut, last>>
             ELSE GaveUp
<1> DEFINE lit == tables[1]
           dis == tables[2]
           v == sym.literal
           u == sym.dist
           lc == CodeOf(LengthCodes, v)
           dc == CodeOf(DistCodes, u)
           ln == LengthCodes[lc]
           dn == DistCodes[dc]
           p1 == CodeBits(lit, EndBlock + lc)
           p2 == ExtraBits(LengthCodes, lc, v)
           p3 == CodeBits(dis, dc - 1)
           p4 == ExtraBits(DistCodes, dc, u)
           w == Len(SymbolBits(sym, lit, dis))
           n1 == lit[EndBlock + lc]
           n2 == ln[2]
           n3 == dis[dc - 1]
           n4 == dn[2]
<1>1. W \in Seq(Bits01) /\ bits \in Seq(Bits01) /\ Arrives(W) /\ Len(bits) \in Nat
  <2>1. W \in Seq(Bits01) /\ bits \in Seq(Bits01) /\ Arrives(W)
    BY DEF Stream
  <2> QED BY <2>1, LenProperties
<1>2. CodeSpans(LengthCodes, v) /\ CodeSpans(DistCodes, u) /\ v \in Nat /\ u \in Nat
  BY SymbolSpans DEF SymOk
<1>3. CodeFor(lit, EndBlock + lc) /\ CodeFor(dis, dc - 1)
  BY DEF SymCodes
<1>4. /\ SymbolBits(sym, lit, dis) = p1 \o p2 \o p3 \o p4
      /\ p1 \in Seq(Bits01) /\ p2 \in Seq(Bits01) /\ p3 \in Seq(Bits01) /\ p4 \in Seq(Bits01)
  <2> DEFINE m == MatchParts(sym, lit, dis)
  <2>1. /\ SymbolBits(sym, lit, dis) = m[1] \o m[2] \o m[3] \o m[4]
        /\ m[1] \in Seq(Bits01) /\ m[2] \in Seq(Bits01) /\ m[3] \in Seq(Bits01) /\ m[4] \in Seq(Bits01)
    BY SymbolBitsAre
  <2>2. m = <<p1, p2, p3, p4>>
    BY DEF MatchParts
  <2> HIDE DEF m, p1, p2, p3, p4
  <2>3. m[1] = p1 /\ m[2] = p2 /\ m[3] = p3 /\ m[4] = p4
    BY <2>2
  <2> QED BY <2>1, <2>3
<1>5. Len(p1) = n1 /\ Len(p2) = n2 /\ Len(p3) = n3 /\ Len(p4) = n4
  <2>1. Len(p1) = n1
    <3> HIDE DEF lc, lit
    <3> QED BY <1>3, CodeBitsAre DEF CodeFor
  <2>2. Len(p3) = n3
    <3> HIDE DEF dc, dis
    <3> QED BY <1>3, CodeBitsAre DEF CodeFor
  <2>3. Len(p2) = n2 /\ Len(p4) = n4
    BY <1>2, ExtraIs
  <2> QED BY <2>1, <2>2, <2>3
<1>6. lc \in 1 .. Len(LengthCodes) /\ dc \in 1 .. Len(DistCodes) /\ lc \in Nat \ {0} /\ dc \in Nat
  <2>1. lc \in 1 .. Len(LengthCodes) /\ dc \in 1 .. Len(DistCodes)
    BY <1>2 DEF CodeSpans
  <2> HIDE DEF lc, dc
  <2>2. Len(LengthCodes) \in Nat /\ Len(DistCodes) \in Nat
    BY AlphabetAssumption, LenProperties
  <2> QED BY <2>1, <2>2
<1> HIDE DEF p1, p2, p3, p4, n1, n2, n3, n4
<1>7. /\ Holds(W, cursor, p1) /\ Holds(W, cursor + n1, p2)
      /\ Holds(W, cursor + n1 + n2, p3) /\ Holds(W, cursor + n1 + n2 + n3, p4)
      /\ w = n1 + n2 + n3 + n4 /\ n1 \in Nat /\ n2 \in Nat /\ n3 \in Nat /\ n4 \in Nat
  <2>1. Holds(W, cursor, p1 \o p2 \o p3 \o p4)
    BY <1>4
  <2> HIDE DEF w
  <2>2. /\ Holds(W, cursor, p1) /\ Holds(W, cursor + Len(p1), p2)
        /\ Holds(W, cursor + Len(p1) + Len(p2), p3)
        /\ Holds(W, cursor + Len(p1) + Len(p2) + Len(p3), p4)
        /\ Len(p1 \o p2 \o p3 \o p4) = Len(p1) + Len(p2) + Len(p3) + Len(p4)
        /\ Len(p1) \in Nat /\ Len(p2) \in Nat /\ Len(p3) \in Nat /\ Len(p4) \in Nat
    BY <1>1, <1>4, <2>1, FourHeld
  <2> QED BY <1>4, <1>5, <2>2 DEF w
<1> DEFINE c1 == cursor + n1
           c2 == cursor + n1 + n2
           c3 == cursor + n1 + n2 + n3
           d == Decode(cursor, lit)
           e == Decode(c2, dis)
           s == EndBlock + lc
           t == dc - 1
<1>8. c1 \in Nat /\ c2 \in Nat /\ c3 \in Nat /\ c2 = c1 + n2 /\ c3 = c2 + n3 /\ cursor + w = c3 + n4
  BY <1>7
<1>9. d = IF Has(cursor, n1) THEN [sym |-> s, at |-> c1] ELSE [sym |-> None, at |-> cursor]
  <2>1. Alphabet(lit) /\ LeftOver(lit) >= 0 /\ s \in DOMAIN lit /\ lit[s] \in 1 .. MaxBits
    BY <1>3 DEF CodeFor
  <2>2. Holds(W, cursor, CodeBits(lit, s)) /\ n1 = lit[s]
    BY <1>7 DEF p1, n1
  <2> HIDE DEF lit, s
  <2> QED BY <1>1, <2>1, <2>2, CodesComeBack
<1>10. e = IF Has(c2, n3) THEN [sym |-> t, at |-> c3] ELSE [sym |-> None, at |-> c2]
  <2>1. Alphabet(dis) /\ LeftOver(dis) >= 0 /\ t \in DOMAIN dis /\ dis[t] \in 1 .. MaxBits
    BY <1>3 DEF CodeFor
  <2>2. Holds(W, c2, CodeBits(dis, t)) /\ n3 = dis[t]
    BY <1>7 DEF p3, n3
  <2>3. c3 = c2 + n3
    BY <1>8
  <2> HIDE DEF dis, t, c2, c3
  <2> QED BY <1>1, <1>8, <2>1, <2>2, <2>3, CodesComeBack
<1>11. Has(c1, n2) => ln[1] + Number(c1, n2) = v
  <2> HIDE DEF v, c1
  <2>1. Holds(W, c1, ExtraBits(LengthCodes, CodeOf(LengthCodes, v), v))
    BY <1>7 DEF p2, c1
  <2> QED BY <1>2, <1>8, <2>1, ExtraRead DEF n2
<1>12. Has(c3, n4) => dn[1] + Number(c3, n4) = u
  <2> HIDE DEF u, c3
  <2>1. Holds(W, c3, ExtraBits(DistCodes, CodeOf(DistCodes, u), u))
    BY <1>7 DEF p4, c3
  <2> QED BY <1>2, <1>8, <2>1, ExtraRead DEF n4
<1>13. /\ s > EndBlock /\ s # None /\ s - EndBlock = lc /\ t # None /\ t + 1 = dc
  <2> HIDE DEF lc, dc
  <2>1. s \in Int /\ t \in Int /\ EndBlock \in Nat /\ s > EndBlock /\ s - EndBlock = lc /\ t + 1 = dc
    BY <1>6, FormatAssumption DEF EndBlock
  <2> QED BY <2>1, FormatAssumption
<1>14. ~(u > Len(out)) /\ ~(Len(out) + v > Len(data))
  <2>1. q = p + v /\ u \in 1 .. p
    BY DEF StandsFor, Repeats
  <2>2. Len(data) \in Nat /\ Len(out) = p
    BY OutIs, LenProperties
  <2> DEFINE a == Len(data)
             b == Len(out)
  <2>3. a \in Nat /\ b = p /\ p \in 0 .. a /\ q \in 0 .. a
    BY <2>2
  <2> HIDE DEF a, b, u, v
  <2>4. ~(u > b) /\ ~(b + v > a)
    BY <1>2, <2>1, <2>3
  <2> QED BY <2>4 DEF a, b
<1>15. (Has(cursor, n1) /\ Has(c1, n2) /\ Has(c2, n3) /\ Has(c3, n4)) <=> Has(cursor, w)
  <2> DEFINE B == Len(bits)
  <2> HIDE DEF B
  <2>1. B \in Nat
    BY <1>1 DEF B
  <2> HIDE DEF w, c1, c2, c3
  <2>2. c1 = cursor + n1
    BY DEF c1
  <2> QED BY <1>7, <1>8, <2>1, <2>2 DEF Has, B
<1>16. UNCHANGED last /\ (IF d.sym = None THEN Refuse
                           ELSE d.sym > EndBlock => ReadMatch(d))
  BY DEF ReadSymbol
<1>17. CASE ~Has(cursor, n1)
  <2>1. d.sym = None
    BY <1>9, <1>17
  <2>2. GaveUp
    BY <1>16, <2>1 DEF Refuse, GaveUp
  <2> QED BY <1>15, <1>17, <2>2
<1>18. CASE Has(cursor, n1)
  <2>1. d.sym = s /\ d.at = c1
    <3> HIDE DEF d, s, c1
    <3> QED BY <1>9, <1>18
  <2>2. ReadMatch(d)
    <3> HIDE DEF d, s
    <3> QED BY <1>13, <1>16, <2>1
  <2> DEFINE n == ln[1] + Number(c1, n2)
             c == DistCodes[e.sym + 1]
             far == c[1] + Number(e.at, c[2])
  <2>3. IF ~Has(c1, n2) \/ e.sym = None THEN Refuse
        ELSE IF ~Has(e.at, c[2]) \/ far > Len(out) \/ Len(out) + n > Len(data) THEN Refuse
        ELSE /\ out' = Copied(far, n) /\ cursor' = e.at + c[2]
             /\ UNCHANGED <<phase, encoder, bits, tables, cut>>
    <3>1. LengthCodes[d.sym - EndBlock] = ln
      <4> HIDE DEF d, s, lc
      <4> QED BY <1>13, <2>1 DEF ln
    <3>2. d.at + ln[2] = c2
      <4> HIDE DEF d
      <4> QED BY <1>8, <2>1 DEF n2
    <3> HIDE DEF d, c2, c1, ln
    <3> QED BY <2>1, <2>2, <3>1, <3>2 DEF ReadMatch, n2
  <2> HIDE DEF d
  <2>4. CASE ~Has(c1, n2) \/ ~Has(c2, n3)
    <3>1. ~Has(c1, n2) \/ e.sym = None
      <4> HIDE DEF e, c1, c2, c3, t
      <4> QED BY <1>10, <2>4
    <3>2. GaveUp
      BY <2>3, <3>1 DEF Refuse, GaveUp
    <3> QED BY <1>15, <2>4, <3>2
  <2>5. CASE Has(c1, n2) /\ Has(c2, n3)
    <3>1. e.sym = t /\ e.at = c3
      <4> HIDE DEF e, t, c1, c2, c3
      <4> QED BY <1>10, <2>5
    <3>2. e.sym # None /\ c = dn /\ n = v
      <4> HIDE DEF e, t, c1, dc
      <4> QED BY <1>11, <1>13, <2>5, <3>1 DEF dn
    <3> HIDE DEF e, c, n
    <3>3. far = dn[1] + Number(c3, n4) /\ (Has(e.at, c[2]) <=> Has(c3, n4)) /\ e.at + c[2] = c3 + n4
      <4> HIDE DEF dn, c3
      <4> QED BY <3>1, <3>2 DEF n4
    <3> HIDE DEF far
    <3>4. CASE ~Has(c3, n4)
      <4>1. GaveUp
        BY <2>3, <2>5, <3>2, <3>3, <3>4 DEF Refuse, GaveUp
      <4> QED BY <1>15, <3>4, <4>1
    <3>5. CASE Has(c3, n4)
      <4>1. far = u
        BY <1>12, <3>3, <3>5
      <4>2. /\ out' = Copied(u, v) /\ cursor' = c3 + n4
            /\ UNCHANGED <<phase, encoder, bits, tables, cut>>
        <5>1. ~(~Has(c1, n2) \/ e.sym = None)
          BY <2>5, <3>2
        <5>2. ~(~Has(e.at, c[2]) \/ far > Len(out) \/ Len(out) + n > Len(data))
          BY <1>14, <3>2, <3>3, <3>5, <4>1
        <5> HIDE DEF u, v, c1, c3
        <5> QED BY <2>3, <3>2, <3>3, <4>1, <5>1, <5>2
      <4>3. Copied(u, v) = SubSeq(data, 1, q)
        BY SymbolsComeBack
      <4>4. cursor' = cursor + w /\ UNCHANGED last
        BY <1>8, <1>16, <4>2
      <4>5. Has(cursor, w)
        BY <1>15, <1>18, <2>5, <3>5
      <4> QED BY <4>2, <4>3, <4>4, <4>5
    <3> QED BY <3>4, <3>5
  <2> QED BY <2>4, <2>5
<1> QED
  BY <1>17, <1>18

(***************************************************************************)
(* What the stream holds: a set of blocks, each from a place in the stream   *)
(* and in the input to where the next one begins.                            *)
(***************************************************************************)
Kept(W, i, b) == i \in Nat /\ b \in Seq(Bits01) /\ Holds(W, i, b)

Flag(b) == IF b.final THEN 1 ELSE 0
TypeCode(b) == CASE b.type = "stored" -> 0 [] b.type = "fixed" -> 1 [] OTHER -> 2
Framed(W, b) ==
  /\ b.at \in Nat /\ b.over \in Nat /\ b.from \in 0 .. Len(data) /\ b.to \in 0 .. Len(data)
  /\ b.from <= b.to /\ b.over <= Len(W) /\ b.final \in BOOLEAN /\ b.type \in Types
  /\ Kept(W, b.at, BitsOf(Flag(b), 1)) /\ Kept(W, b.at + 1, BitsOf(TypeCode(b), 2))

SpanAt(b) == b.at + 3 + Len(Padding(b.at + 3))
Plain(W, b) ==
  LET i    == SpanAt(b)
      span == b.to - b.from
  IN /\ span < 2 ^ SpanBits /\ Kept(W, i, BitsOf(span, SpanBits))
     /\ Kept(W, i + SpanBits, BitsOf((2 ^ SpanBits - 1) - span, SpanBits))
     /\ \A k \in 1 .. span :
          Kept(W, i + 2 * SpanBits + (k - 1) * ByteBits, BitsOf(data[b.from + k], ByteBits))
     /\ b.over = i + 2 * SpanBits + span * ByteBits

Coded(W, b, body) ==
  LET n == Len(b.syms)
  IN /\ b.syms \in Seq(Symbols) /\ CodeFor(b.lit, EndBlock)
     /\ \A k \in 1 .. n : SymOk(b.syms[k]) /\ SymCodes(b.syms[k], b.lit, b.dist)
     /\ b.ends \in [0 .. n -> 0 .. Len(data)] /\ b.ends[0] = b.from /\ b.ends[n] = b.to
     /\ \A k \in 1 .. n : StandsFor(b.syms[k], b.ends[k - 1], b.ends[k])
     /\ b.off \in [0 .. n -> Nat] /\ b.off[0] = body
     /\ \A k \in 1 .. n :
          /\ Kept(W, b.off[k - 1], SymbolBits(b.syms[k], b.lit, b.dist))
          /\ b.off[k] = b.off[k - 1] + Len(SymbolBits(b.syms[k], b.lit, b.dist))
     /\ Kept(W, b.off[n], CodeBits(b.lit, EndBlock))
     /\ b.over = b.off[n] + Len(CodeBits(b.lit, EndBlock))

(* The tables of a dynamic block, as they are sent: without the unused codes *)
(* at their ends.                                                            *)
Tabled(W, b) ==
  LET hdist == Len(b.lens) - b.hlit
  IN /\ Sendable(b.lens) /\ b.hlit \in (EndBlock + 1) .. Cardinality(LitSyms)
     /\ hdist \in 1 .. Cardinality(DistSyms)
     /\ b.hlit - (EndBlock + 1) < 2 ^ 5 /\ hdist - 1 < 2 ^ 5
     /\ b.lit = [s \in 0 .. (b.hlit - 1) |-> b.lens[s + 1]]
     /\ b.dist = [s \in 0 .. (hdist - 1) |-> b.lens[b.hlit + s + 1]]
     /\ LeftOver(b.lit) = 0 /\ LeftOver(b.dist) = 0
     /\ Kept(W, b.at + 3, BitsOf(b.hlit - (EndBlock + 1), 5))
     /\ Kept(W, b.at + 8, BitsOf(hdist - 1, 5))
     /\ Kept(W, b.at + 13, TableBits(b.lens))

Block(W, b) ==
  /\ Framed(W, b)
  /\ b.type = "stored" => Plain(W, b)
  /\ b.type = "fixed" => b.lit = FixedLens /\ b.dist = FixedDist /\ Coded(W, b, b.at + 3)
  /\ b.type = "dynamic" => Tabled(W, b) /\ Coded(W, b, b.at + 13 + Len(TableBits(b.lens)))

Leads(S, a, q) == \E c \in S : c.at = a /\ c.from = q
Open(W, S, p) ==
  /\ W \in Seq(Bits01) /\ (Leads(S, 0, 0) \/ (Len(W) = 0 /\ p = 0))
  /\ \A b \in S : /\ Block(W, b) /\ ~b.final
                  /\ Leads(S, b.over, b.to) \/ (b.over = Len(W) /\ b.to = p)
Whole(W, S) ==
  /\ W \in Seq(Bits01) /\ Len(W) % ByteBits = 0 /\ Leads(S, 0, 0)
  /\ \A b \in S : /\ Block(W, b)
                  /\ IF b.final THEN b.to = Len(data) /\ Len(W) < b.over + ByteBits
                     ELSE Leads(S, b.over, b.to)

(* What the stream holds it still holds when bits are added.                *)
LEMMA KeptLonger ==
  ASSUME NEW W \in Seq(Bits01), NEW x \in Seq(Bits01), NEW i, NEW b, Kept(W, i, b)
  PROVE  Kept(W \o x, i, b)
BY HoldsLonger DEF Kept

(* So a block that was written stays readable.                              *)
LEMMA BlockLonger ==
  ASSUME NEW W \in Seq(Bits01), NEW x \in Seq(Bits01), NEW b, Block(W, b)
  PROVE  Block(W \o x, b)
<1> DEFINE V == W \o x
<1>1. \A i, c : Kept(W, i, c) => Kept(V, i, c)
  BY KeptLonger
<1>2. Len(W) \in Nat /\ Len(V) \in Nat /\ Len(W) <= Len(V)
  <2>1. Len(W) \in Nat /\ Len(x) \in Nat /\ Len(V) = Len(W) + Len(x)
    BY ConcatProperties, LenProperties
  <2> DEFINE a == Len(W)
             c == Len(x)
             d == Len(V)
  <2>2. a \in Nat /\ c \in Nat /\ d = a + c
    BY <2>1
  <2> HIDE DEF a, c, d
  <2>3. d \in Nat /\ a <= d
    BY <2>2
  <2> QED BY <2>1, <2>3 DEF a, d
<1> HIDE DEF V
<1>3. Framed(V, b)
  <2>1. b.over \in Nat /\ b.over <= Len(W)
    BY DEF Block, Framed
  <2> DEFINE a == Len(W)
             d == Len(V)
  <2>2. a \in Nat /\ d \in Nat /\ a <= d /\ b.over \in Nat /\ b.over <= a
    BY <1>2, <2>1
  <2> HIDE DEF a, d
  <2>3. b.over <= d
    BY <2>2
  <2> QED BY <1>1, <2>3 DEF Block, Framed, d
<1>4. b.type = "stored" => Plain(V, b)
  BY <1>1 DEF Block, Plain
<1>5. \A body : Coded(W, b, body) => Coded(V, b, body)
  BY <1>1 DEF Coded
<1>6. b.type = "dynamic" => Tabled(V, b)
  BY <1>1 DEF Block, Tabled
<1> QED
  BY <1>3, <1>4, <1>5, <1>6 DEF Block, V

(* A block that is written behind the others continues them.                *)
LEMMA Added ==
  ASSUME NEW W, NEW S, NEW p, Open(W, S, p), NEW x \in Seq(Bits01), NEW b,
         Block(W \o x, b), b.at = Len(W), b.from = p, ~b.final, b.over = Len(W \o x)
  PROVE  Open(W \o x, S \cup {b}, b.to)
<1> DEFINE V == W \o x
           T == S \cup {b}
<1>1. W \in Seq(Bits01) /\ V \in Seq(Bits01)
  BY ConcatProperties DEF Open
<1>2. Leads(T, Len(W), p) /\ \A a, q : Leads(S, a, q) => Leads(T, a, q)
  BY DEF Leads
<1>3. \A c \in S : Block(V, c)
  BY <1>1, BlockLonger DEF Open
<1> HIDE DEF V
<1>4. \A c \in S : ~c.final /\ Leads(T, c.over, c.to)
  <2> HIDE DEF T
  <2> QED BY <1>2 DEF Open
<1>5. Leads(T, 0, 0)
  <2> HIDE DEF T
  <2> QED BY <1>2 DEF Open
<1>6. Block(V, b) /\ b.over = Len(V)
  BY DEF V
<1>7. Open(V, T, b.to)
  BY <1>1, <1>3, <1>4, <1>5, <1>6 DEF Open
<1> QED BY <1>7 DEF V

(* The last block ends them, with less than a byte of padding.              *)
LEMMA Closed ==
  ASSUME NEW W, NEW S, NEW p, Open(W, S, p), NEW x \in Seq(Bits01), NEW b,
         Block(W \o x, b), b.at = Len(W), b.from = p, b.final, b.to = Len(data),
         Len(W \o x) < b.over + ByteBits, Len(W \o x) % ByteBits = 0
  PROVE  Whole(W \o x, S \cup {b})
<1> DEFINE V == W \o x
           T == S \cup {b}
<1>1. W \in Seq(Bits01) /\ V \in Seq(Bits01)
  BY ConcatProperties DEF Open
<1>2. Leads(T, Len(W), p) /\ \A a, q : Leads(S, a, q) => Leads(T, a, q)
  BY DEF Leads
<1>3. \A c \in S : Block(V, c)
  BY <1>1, BlockLonger DEF Open
<1> HIDE DEF V
<1>4. \A c \in S : ~c.final /\ Leads(T, c.over, c.to)
  <2> HIDE DEF T
  <2> QED BY <1>2 DEF Open
<1>5. Leads(T, 0, 0)
  <2> HIDE DEF T
  <2> QED BY <1>2 DEF Open
<1>6. Block(V, b) /\ Len(V) < b.over + ByteBits /\ Len(V) % ByteBits = 0
  BY DEF V
<1>7. Whole(V, T)
  BY <1>1, <1>3, <1>4, <1>5, <1>6 DEF Whole
<1> QED BY <1>7 DEF V

(* None of it changes while the input stays.                                 *)
LEMMA BlocksStay ==
  ASSUME data' = data, NEW W, NEW S
  PROVE  /\ \A b : Block(W, b)' = Block(W, b)
         /\ Whole(W, S)' = Whole(W, S)
         /\ \A p : Open(W, S, p)' = Open(W, S, p)
<1>1. ASSUME NEW b PROVE Block(W, b)' = Block(W, b)
  <2>1. Framed(W, b)' = Framed(W, b)
    BY DEF Framed
  <2>2. Plain(W, b)' = Plain(W, b)
    BY DEF Plain
  <2>3. ASSUME NEW body PROVE Coded(W, b, body)' = Coded(W, b, body)
    BY DEF Coded, StandsFor, Repeats, Byte
  <2> QED BY <2>1, <2>2, <2>3 DEF Block
<1>2. Whole(W, S)' = Whole(W, S)
  BY <1>1 DEF Whole
<1>3. ASSUME NEW p PROVE Open(W, S, p)' = Open(W, S, p)
  BY <1>1 DEF Open
<1> QED
  BY <1>1, <1>2, <1>3

(***************************************************************************)
(* The tables of a block that is written with codes of its own.              *)
(***************************************************************************)
LitCode(sym) == IF sym.dist = 0 THEN sym.literal
                ELSE EndBlock + CodeOf(LengthCodes, sym.literal)
DistCode(sym) == CodeOf(DistCodes, sym.dist) - 1
Gathered == syms \in Seq(Symbols) /\ \A i \in 1 .. Len(syms) : SymOk(syms[i])

(* The sizes of the two alphabets.                                          *)
LEMMA SizesAre ==
  /\ EndBlock \in Nat \ {0} /\ Len(LengthCodes) \in 1 .. 31 /\ Len(DistCodes) \in 2 .. 32
  /\ LitSyms = 0 .. (EndBlock + Len(LengthCodes)) /\ DistSyms = 0 .. (Len(DistCodes) - 1)
  /\ IsFiniteSet(LitSyms) /\ Cardinality(LitSyms) = EndBlock + Len(LengthCodes) + 1
  /\ IsFiniteSet(DistSyms) /\ Cardinality(DistSyms) = Len(DistCodes)
  /\ Cardinality(LitSyms) <= 2 ^ MaxBits /\ Cardinality(DistSyms) <= 2 ^ MaxBits
  /\ MaxBits \in 2 .. MaxBits
<1> DEFINE a == Len(LengthCodes)
           b == Len(DistCodes)
           e == 2 ^ MaxBits
<1>1. /\ EndBlock \in Nat \ {0} /\ a \in 1 .. 31 /\ b \in 2 .. 32 /\ EndBlock + a < e /\ b <= e
      /\ LitSyms = 0 .. (EndBlock + a) /\ DistSyms = 0 .. (b - 1)
      /\ MaxBits \in 1 .. 15 /\ e \in Nat
  <2>1. MaxBits \in Nat
    BY FormatAssumption
  <2> QED BY <2>1, Doubles, FormatAssumption, AlphabetAssumption DEF EndBlock, LitSyms, DistSyms
<1> HIDE DEF a, b
<1>2. IsFiniteSet(LitSyms) /\ Cardinality(LitSyms) = EndBlock + a + 1
  <2> DEFINE n == EndBlock + a
  <2>1. 0 \in Int /\ n \in Int /\ 0 <= n /\ n - 0 + 1 = n + 1 /\ LitSyms = 0 .. n
    BY <1>1
  <2> HIDE DEF n
  <2>2. IsFiniteSet(LitSyms) /\ Cardinality(LitSyms) = n + 1
    BY <2>1, Between
  <2> QED BY <2>2 DEF n
<1>3. IsFiniteSet(DistSyms) /\ Cardinality(DistSyms) = b
  <2> DEFINE n == b - 1
  <2>1. 0 \in Int /\ n \in Int /\ 0 <= n /\ n - 0 + 1 = b /\ DistSyms = 0 .. n
    BY <1>1
  <2> HIDE DEF n
  <2> QED BY <2>1, Between
<1>4. MaxBits # 1
  <2>1. ASSUME MaxBits = 1 PROVE FALSE
    <3>1. e = 2
      <4>1. 2 ^ 1 = 2
        OBVIOUS
      <4> QED BY <2>1, <4>1
    <3> HIDE DEF e
    <3> QED BY <1>1, <3>1
  <2> QED BY <2>1
<1> HIDE DEF e
<1>5. EndBlock + a + 1 <= e /\ b <= e
  BY <1>1
<1>6. MaxBits \in 2 .. MaxBits
  BY <1>1, <1>4
<1>7. Cardinality(LitSyms) <= e /\ Cardinality(DistSyms) <= e
  <2> DEFINE x == Cardinality(LitSyms)
             y == Cardinality(DistSyms)
  <2>1. x = EndBlock + a + 1 /\ y = b
    BY <1>2, <1>3
  <2> HIDE DEF x, y
  <2>2. x <= e /\ y <= e
    BY <1>5, <2>1
  <2> QED BY <2>2 DEF x, y
<1>8. EndBlock \in Nat \ {0} /\ a \in 1 .. 31 /\ b \in 2 .. 32
  BY <1>1
<1>9. LitSyms = 0 .. (EndBlock + a) /\ DistSyms = 0 .. (b - 1)
  BY <1>1
<1> QED
  BY <1>2, <1>3, <1>6, <1>7, <1>8, <1>9 DEF a, b, e

(* The codes of a symbol are in the alphabets.                              *)
LEMMA CodesIn ==
  ASSUME NEW sym, SymOk(sym)
  PROVE  LitCode(sym) \in LitSyms /\ (sym.dist # 0 => DistCode(sym) \in DistSyms)
<1> DEFINE a == Len(LengthCodes)
           b == Len(DistCodes)
<1>1. EndBlock \in Nat /\ a \in Nat /\ b \in Nat /\ LitSyms = 0 .. (EndBlock + a) /\ DistSyms = 0 .. (b - 1)
  BY SizesAre
<1>2. sym.literal \in Nat /\ (sym.dist = 0 => sym.literal < EndBlock)
  BY DEF SymOk, EndBlock
<1>3. ASSUME sym.dist # 0
      PROVE  CodeOf(LengthCodes, sym.literal) \in 1 .. a /\ CodeOf(DistCodes, sym.dist) \in 1 .. b
  BY <1>3, SymbolSpans DEF CodeSpans
<1> HIDE DEF a, b
<1> QED
  BY <1>1, <1>2, <1>3 DEF LitCode, DistCode

(* Every symbol of the block, and its end, is counted.                      *)
LEMMA FreqsAre ==
  ASSUME Gathered
  PROVE  /\ LitFreq \in [LitSyms -> Nat] /\ LitFreq[EndBlock] > 0
         /\ \A i \in 1 .. Len(syms) : LitFreq[LitCode(syms[i])] > 0
         /\ DistFreq \in [DistSyms -> Nat]
         /\ \A i \in 1 .. Len(syms) : syms[i].dist # 0 => DistFreq[DistCode(syms[i])] > 0
<1> DEFINE K == Len(syms)
           L(s) == {i \in DOMAIN syms : s = IF syms[i].dist = 0 THEN syms[i].literal
                                            ELSE EndBlock + CodeOf(LengthCodes, syms[i].literal)}
           D(s) == {i \in DOMAIN syms : syms[i].dist # 0 /\ s = CodeOf(DistCodes, syms[i].dist) - 1}
<1>1. DOMAIN syms = 1 .. K /\ K \in Nat
  BY LenProperties DEF Gathered
<1>2. IsFiniteSet(1 .. K)
  <2>1. 1 \in Int /\ K \in Int
    BY <1>1
  <2> HIDE DEF K
  <2> QED BY <2>1, FS_Interval
<1>3. ASSUME NEW T, T \subseteq 1 .. K
      PROVE  Cardinality(T) \in Nat /\ (T # {} => Cardinality(T) > 0)
  <2>1. IsFiniteSet(T)
    BY <1>2, <1>3, FS_Subset
  <2> HIDE DEF K
  <2>2. Cardinality(T) \in Nat /\ (Cardinality(T) = 0 <=> T = {})
    BY <2>1, FS_CardinalityType, FS_EmptySet
  <2> QED BY <2>2
<1>4. /\ LitFreq = [s \in LitSyms |-> (IF s = EndBlock THEN 1 ELSE 0) + Cardinality(L(s))]
      /\ DistFreq = [s \in DistSyms |-> Cardinality(D(s))]
  BY DEF LitFreq, DistFreq
<1>5. \A s : L(s) \subseteq 1 .. K /\ D(s) \subseteq 1 .. K
  BY <1>1
<1>6. /\ \A i \in 1 .. K : i \in L(LitCode(syms[i]))
      /\ \A i \in 1 .. K : syms[i].dist # 0 => i \in D(DistCode(syms[i]))
  BY <1>1 DEF LitCode, DistCode
<1>7. EndBlock \in LitSyms
  <2> DEFINE a == Len(LengthCodes)
  <2>1. EndBlock \in Nat /\ a \in Nat /\ LitSyms = 0 .. (EndBlock + a)
    BY SizesAre
  <2> HIDE DEF a
  <2> QED BY <2>1
<1> HIDE DEF L, D, K
<1>8. \A s : Cardinality(L(s)) \in Nat /\ Cardinality(D(s)) \in Nat
  BY <1>3, <1>5
<1>9. LitFreq \in [LitSyms -> Nat] /\ DistFreq \in [DistSyms -> Nat]
  BY <1>4, <1>8
<1>10. LitFreq[EndBlock] > 0
  <2>1. LitFreq[EndBlock] = 1 + Cardinality(L(EndBlock))
    BY <1>4, <1>7
  <2> QED BY <1>8, <2>1
<1>11. ASSUME NEW i \in 1 .. K
       PROVE  LitFreq[LitCode(syms[i])] > 0 /\ (syms[i].dist # 0 => DistFreq[DistCode(syms[i])] > 0)
  <2> DEFINE s == LitCode(syms[i])
             t == DistCode(syms[i])
  <2>1. s \in LitSyms /\ (syms[i].dist # 0 => t \in DistSyms)
    BY CodesIn DEF Gathered, K
  <2>2. i \in L(s) /\ (syms[i].dist # 0 => i \in D(t))
    BY <1>6
  <2> HIDE DEF s, t
  <2>3. Cardinality(L(s)) > 0 /\ (syms[i].dist # 0 => Cardinality(D(t)) > 0)
    BY <1>3, <1>5, <2>2
  <2>4. LitFreq[s] = (IF s = EndBlock THEN 1 ELSE 0) + Cardinality(L(s))
    BY <1>4, <2>1
  <2>5. syms[i].dist # 0 => DistFreq[t] = Cardinality(D(t))
    BY <1>4, <2>1
  <2> QED BY <1>8, <2>3, <2>4, <2>5 DEF s, t
<1> QED
  BY <1>9, <1>10, <1>11 DEF K

(* The two tables of a block.                                                *)
TableFor(lens, freq) ==
  /\ Alphabet(lens) /\ DOMAIN lens = DOMAIN freq /\ LeftOver(lens) = 0
  /\ \A s \in DOMAIN freq : lens[s] \in 0 .. MaxBits
  /\ \A s \in DOMAIN freq : freq[s] > 0 => lens[s] > 0

(* A table of huff_build for counted symbols can be written and decoded     *)
(* with.                                                                    *)
LEMMA TableForIs ==
  ASSUME NEW n \in Nat, n > 0, NEW freq \in [0 .. n -> Nat], Cardinality(0 .. n) <= 2 ^ MaxBits
  PROVE  TableFor(TableOf(freq, MaxBits), freq)
<1>1. IsFiniteSet(0 .. n) /\ 0 .. n \subseteq Int /\ {0, 1} \subseteq 0 .. n /\ DOMAIN freq = 0 .. n
  <2>1. 0 \in Int /\ n \in Int
    OBVIOUS
  <2> QED BY <2>1, FS_Interval
<1>2. Alphabet(freq)
  BY <1>1 DEF Alphabet
<1>3. Cardinality(Used(freq)) <= 2 ^ MaxBits
  <2>1. Used(freq) \subseteq 0 .. n
    BY DEF Used
  <2>2. Cardinality(Used(freq)) \in Nat /\ Cardinality(Used(freq)) <= Cardinality(0 .. n)
        /\ Cardinality(0 .. n) \in Nat
    BY <1>1, <2>1, FS_Subset, FS_CardinalityType
  <2> DEFINE e == 2 ^ MaxBits
             x == Cardinality(Used(freq))
             y == Cardinality(0 .. n)
  <2>3. e \in Nat /\ x \in Nat /\ y \in Nat /\ x <= y /\ y <= e
    BY <2>2, Doubles, FormatAssumption
  <2> HIDE DEF e, x, y
  <2>4. x <= e
    BY <2>3
  <2> QED BY <2>4 DEF e, x
<1>4. MaxBits \in 2 .. MaxBits
  BY SizesAre
<1> DEFINE lens == TableOf(freq, MaxBits)
<1>5. /\ Alphabet(lens) /\ DOMAIN lens = DOMAIN freq /\ LeftOver(lens) = 0
      /\ \A s \in DOMAIN freq : lens[s] \in 0 .. MaxBits
      /\ \A s \in Used(freq) : lens[s] > 0
  BY <1>1, <1>2, <1>3, <1>4, TablesAreComplete
<1> HIDE DEF lens
<1>6. \A s \in DOMAIN freq : freq[s] > 0 => lens[s] > 0
  BY <1>5 DEF Used
<1> QED
  BY <1>5, <1>6 DEF TableFor, lens

(* So can the two tables of a block.                                        *)
LEMMA BlockTables ==
  ASSUME Gathered
  PROVE  LET lit  == TableOf(LitFreq, MaxBits)
             dist == TableOf(DistFreq, MaxBits)
         IN  /\ TableFor(lit, LitFreq) /\ TableFor(dist, DistFreq)
             /\ DOMAIN lit = LitSyms /\ DOMAIN dist = DistSyms
             /\ CodeFor(lit, EndBlock)
             /\ \A i \in 1 .. Len(syms) : SymCodes(syms[i], lit, dist)
<1> DEFINE lit == TableOf(LitFreq, MaxBits)
           dist == TableOf(DistFreq, MaxBits)
           a == Len(LengthCodes)
           b == Len(DistCodes)
<1>1. TableFor(lit, LitFreq)
  <2> DEFINE n == EndBlock + a
  <2>1. n \in Nat /\ n > 0 /\ LitSyms = 0 .. n
    BY SizesAre
  <2> HIDE DEF n
  <2>2. LitFreq \in [0 .. n -> Nat] /\ Cardinality(0 .. n) <= 2 ^ MaxBits
    BY <2>1, FreqsAre, SizesAre
  <2> QED BY <2>1, <2>2, TableForIs
<1>2. TableFor(dist, DistFreq)
  <2> DEFINE n == b - 1
  <2>1. n \in Nat /\ n > 0 /\ DistSyms = 0 .. n
    <3>1. b \in 2 .. 32 /\ DistSyms = 0 .. (b - 1)
      BY SizesAre
    <3> HIDE DEF b
    <3>2. n \in Nat /\ n > 0
      BY <3>1
    <3> QED BY <3>1, <3>2
  <2> HIDE DEF n
  <2>2. DistFreq \in [0 .. n -> Nat] /\ Cardinality(0 .. n) <= 2 ^ MaxBits
    BY <2>1, FreqsAre, SizesAre
  <2> QED BY <2>1, <2>2, TableForIs
<1> HIDE DEF lit, dist
<1>3. DOMAIN LitFreq = LitSyms /\ DOMAIN DistFreq = DistSyms
  BY FreqsAre
<1>4. DOMAIN lit = LitSyms /\ DOMAIN dist = DistSyms
  BY <1>1, <1>2, <1>3 DEF TableFor
<1>5. ASSUME NEW lens, NEW freq, TableFor(lens, freq), NEW s \in DOMAIN freq, freq[s] > 0
      PROVE  CodeFor(lens, s)
  <2> DEFINE v == lens[s]
  <2>1. v \in 0 .. MaxBits /\ v > 0 /\ MaxBits \in Nat
    BY <1>5, FormatAssumption DEF TableFor
  <2> HIDE DEF v
  <2>2. v \in 1 .. MaxBits
    BY <2>1
  <2> QED BY <1>5, <2>2 DEF TableFor, CodeFor, v
<1>6. EndBlock \in LitSyms
  <2>1. EndBlock \in Nat /\ a \in Nat /\ LitSyms = 0 .. (EndBlock + a)
    BY SizesAre
  <2> HIDE DEF a
  <2> QED BY <2>1
<1>7. CodeFor(lit, EndBlock)
  BY <1>1, <1>3, <1>5, <1>6, FreqsAre
<1>8. ASSUME NEW i \in 1 .. Len(syms) PROVE SymCodes(syms[i], lit, dist)
  <2> DEFINE sym == syms[i]
             s == LitCode(sym)
             t == DistCode(sym)
  <2>1. SymOk(sym)
    BY DEF Gathered
  <2>2. LitFreq[s] > 0 /\ (sym.dist # 0 => DistFreq[t] > 0)
    BY FreqsAre
  <2> HIDE DEF sym
  <2>3. s \in LitSyms /\ (sym.dist # 0 => t \in DistSyms)
    BY <2>1, CodesIn
  <2> HIDE DEF s, t
  <2>4. CodeFor(lit, s)
    BY <1>1, <1>3, <1>5, <2>2, <2>3
  <2>5. sym.dist # 0 => CodeFor(dist, t)
    BY <1>2, <1>3, <1>5, <2>2, <2>3
  <2>6. SymCodes(sym, lit, dist)
    BY <2>4, <2>5 DEF SymCodes, LitCode, DistCode, s, t
  <2> QED BY <2>6 DEF sym
<1> QED
  BY <1>1, <1>2, <1>4, <1>7, <1>8 DEF lit, dist

(* The lengths that are left out at the end of a table are 0.               *)
LEMMA UsedUpToIs ==
  ASSUME NEW N \in Nat, NEW lens \in [0 .. (N - 1) -> Nat], NEW least \in 1 .. N
  PROVE  /\ UsedUpTo(lens, least) \in least .. N
         /\ \A s \in 0 .. (N - 1) : s >= UsedUpTo(lens, least) => lens[s] = 0
<1> DEFINE S == {n \in least .. N : n = least \/ lens[n - 1] # 0}
           Is(n) == (n > least => lens[n - 1] # 0) /\ \A s \in DOMAIN lens : s >= n => lens[s] = 0
<1>1. Cardinality(DOMAIN lens) = N /\ DOMAIN lens = 0 .. (N - 1)
  <2> DEFINE m == N - 1
  <2>1. 0 \in Int /\ m \in Int /\ 0 <= m /\ m - 0 + 1 = N
    OBVIOUS
  <2> HIDE DEF m
  <2>2. Cardinality(0 .. m) = N
    BY <2>1, Between
  <2> QED BY <2>2 DEF m
<1>2. S \in SUBSET (0 .. N) /\ least \in S
  OBVIOUS
<1>3. PICK m \in S : \A j \in S : j <= m
  <2> HIDE DEF S
  <2> QED BY <1>2, Greatest
<1>4. Is(m) /\ m \in least .. N
  <2>1. m \in least .. N /\ (m > least => lens[m - 1] # 0)
    BY <1>3
  <2>2. ASSUME NEW s \in 0 .. (N - 1), s >= m, lens[s] # 0 PROVE FALSE
    <3>1. s + 1 \in least .. N /\ (s + 1) - 1 = s
      BY <2>1, <2>2
    <3>2. s + 1 \in S
      BY <2>2, <3>1
    <3> HIDE DEF S
    <3>3. s + 1 <= m
      BY <1>3, <3>2
    <3> QED BY <2>1, <2>2, <3>3
  <2> QED BY <1>1, <2>1, <2>2
<1>5. UsedUpTo(lens, least) = CHOOSE n \in least .. N : Is(n)
  BY <1>1 DEF UsedUpTo
<1> DEFINE h == CHOOSE n \in least .. N : Is(n)
<1>6. Is(h) /\ h \in least .. N
  <2> HIDE DEF Is
  <2> QED BY <1>4
<1> QED
  BY <1>1, <1>5, <1>6

Shortened(lens, h) == [s \in 0 .. (h - 1) |-> lens[s]]

(* Leaving them out leaves the code as it is.                               *)
LEMMA ShortIs ==
  ASSUME NEW N \in Nat, NEW lens \in [0 .. (N - 1) -> 0 .. MaxBits], NEW h \in 1 .. N,
         \A s \in 0 .. (N - 1) : s >= h => lens[s] = 0
  PROVE  /\ Alphabet(lens) /\ Alphabet(Shortened(lens, h)) /\ Alike(lens, Shortened(lens, h))
         /\ LeftOver(Shortened(lens, h)) = LeftOver(lens)
<1> DEFINE b == Shortened(lens, h)
<1>1. MaxBits \in Nat /\ 0 .. (h - 1) \subseteq 0 .. (N - 1)
  BY FormatAssumption
<1>2. Alphabet(lens)
  <2>1. 0 \in Int /\ N - 1 \in Int /\ DOMAIN lens = 0 .. (N - 1) /\ lens \in [DOMAIN lens -> Nat]
    BY <1>1
  <2> DEFINE m == N - 1
  <2>2. IsFiniteSet(0 .. m)
    <3>1. m \in Int /\ 0 \in Int
      BY <2>1
    <3> HIDE DEF m
    <3> QED BY <3>1, FS_Interval
  <2> QED BY <2>1, <2>2 DEF Alphabet
<1>3. Alphabet(b)
  <2>1. 0 \in Int /\ h - 1 \in Int /\ DOMAIN b = 0 .. (h - 1) /\ b \in [DOMAIN b -> Nat]
    BY <1>1 DEF Shortened
  <2> DEFINE m == h - 1
  <2>2. IsFiniteSet(0 .. m)
    <3>1. m \in Int /\ 0 \in Int
      BY <2>1
    <3> HIDE DEF m
    <3> QED BY <3>1, FS_Interval
  <2> QED BY <2>1, <2>2 DEF Alphabet
<1>4. Alike(lens, b)
  <2>1. ASSUME NEW n \in 1 .. MaxBits
        PROVE  {s \in DOMAIN lens : lens[s] = n} = {s \in DOMAIN b : b[s] = n}
    <3>1. n # 0
      BY <1>1
    <3>2. ASSUME NEW s \in 0 .. (N - 1), lens[s] = n PROVE s \in 0 .. (h - 1)
      <4>1. ~(s >= h)
        BY <3>1, <3>2
      <4> QED BY <4>1
    <3>3. DOMAIN b = 0 .. (h - 1) /\ DOMAIN lens = 0 .. (N - 1) /\ \A s \in 0 .. (h - 1) : b[s] = lens[s]
      BY DEF Shortened
    <3> HIDE DEF b
    <3> QED BY <1>1, <3>2, <3>3
  <2> QED BY <2>1 DEF Alike
<1>5. LeftOver(b) = LeftOver(lens)
  <2> HIDE DEF b
  <2> QED BY <1>2, <1>3, <1>4, AlikeLeft
<1> QED
  BY <1>2, <1>3, <1>4, <1>5

(* A table as the list of its lengths.                                      *)
LEMMA ListedIs ==
  ASSUME NEW lens, NEW h \in Nat, \A s \in 0 .. (h - 1) : lens[s] \in 0 .. MaxBits
  PROVE  /\ Listed(lens, h) \in Seq(0 .. MaxBits) /\ Len(Listed(lens, h)) = h
         /\ \A i \in 1 .. h : Listed(lens, h)[i] = lens[i - 1]
<1> DEFINE r == Listed(lens, h)
<1>1. \A i \in 1 .. h : r[i] = lens[i - 1] /\ i - 1 \in 0 .. (h - 1)
  BY DEF Listed
<1>2. r \in [1 .. h -> 0 .. MaxBits] /\ DOMAIN r = 1 .. h
  <2>1. r = [i \in 1 .. h |-> r[i]] /\ DOMAIN r = 1 .. h
    BY DEF Listed
  <2> HIDE DEF r
  <2>2. \A i \in 1 .. h : r[i] \in 0 .. MaxBits
    BY <1>1
  <2> QED BY <2>1, <2>2
<1> HIDE DEF r
<1>3. r \in Seq(0 .. MaxBits)
  <2> DEFINE D == 0 .. MaxBits
  <2>1. r \in [1 .. h -> D] /\ h \in Nat
    BY <1>2
  <2> HIDE DEF D
  <2>2. r \in Seq(D)
    BY <2>1, IsASeq
  <2> QED BY <2>2 DEF D
<1> DEFINE m == Len(r)
<1>4. m \in Nat /\ 1 .. m = 1 .. h
  BY <1>2, <1>3, LenProperties
<1> HIDE DEF m
<1>5. m = h
  BY <1>4, SameUpTo
<1> QED
  BY <1>1, <1>3, <1>5 DEF m, r

(* The two lists as one, as they are sent.                                  *)
LEMMA JoinedIs ==
  ASSUME NEW h \in Nat \ {0}, NEW k \in Nat, NEW lit, NEW dist,
         \A s \in 0 .. (h - 1) : lit[s] \in 0 .. MaxBits,
         \A s \in 0 .. (k - 1) : dist[s] \in 0 .. MaxBits
  PROVE  LET J == Listed(lit, h) \o Listed(dist, k)
         IN  /\ Sendable(J) /\ Len(J) = h + k
             /\ \A s \in 0 .. (h - 1) : J[s + 1] = lit[s]
             /\ \A s \in 0 .. (k - 1) : J[h + s + 1] = dist[s]
<1> DEFINE a == Listed(lit, h)
           b == Listed(dist, k)
           J == a \o b
<1>1. a \in Seq(0 .. MaxBits) /\ Len(a) = h /\ \A i \in 1 .. h : a[i] = lit[i - 1]
  BY ListedIs
<1>2. b \in Seq(0 .. MaxBits) /\ Len(b) = k /\ \A i \in 1 .. k : b[i] = dist[i - 1]
  BY ListedIs
<1> HIDE DEF a, b
<1>3. /\ J \in Seq(0 .. MaxBits) /\ Len(J) = h + k
      /\ \A i \in 1 .. (h + k) : J[i] = IF i <= h THEN a[i] ELSE b[i - h]
  <2>1. /\ J \in Seq(0 .. MaxBits) /\ Len(J) = Len(a) + Len(b)
        /\ \A i \in 1 .. (Len(a) + Len(b)) : J[i] = IF i <= Len(a) THEN a[i] ELSE b[i - Len(a)]
    BY <1>1, <1>2, ConcatProperties
  <2> QED BY <1>1, <1>2, <2>1
<1> HIDE DEF J
<1>4. MaxBits \in 1 .. 15 /\ ClMaxBits \in 1 .. 7
  BY FormatAssumption
<1>5. J \in Seq(0 .. 15) /\ J # <<>>
  <2>1. 0 .. MaxBits \subseteq 0 .. 15
    BY <1>4
  <2>2. \A S, T : S \subseteq T => Seq(S) \subseteq Seq(T)
    OBVIOUS
  <2>3. J \in Seq(0 .. 15)
    BY <1>3, <2>1, <2>2
  <2>4. Len(<<>>) = 0 /\ h + k # 0
    BY EmptySeq
  <2> QED BY <1>3, <2>3, <2>4
<1>6. Cardinality(ValuesOf(J)) + 3 <= 2 ^ ClMaxBits
  <2>1. ValuesOf(J) \subseteq 0 .. MaxBits
    <3>1. \A i \in DOMAIN J : J[i] \in 0 .. MaxBits
      BY <1>3, LenProperties, ElementOfSeq
    <3> QED BY <3>1 DEF ValuesOf
  <2>2. IsFiniteSet(0 .. MaxBits) /\ Cardinality(0 .. MaxBits) = MaxBits + 1
    <3>1. 0 \in Int /\ MaxBits \in Int /\ 0 <= MaxBits /\ MaxBits - 0 + 1 = MaxBits + 1
      BY <1>4
    <3> QED BY <3>1, Between
  <2>3. Cardinality(ValuesOf(J)) \in Nat /\ Cardinality(ValuesOf(J)) <= Cardinality(0 .. MaxBits)
    BY <2>1, <2>2, FS_Subset, FS_CardinalityType
  <2> DEFINE e == 2 ^ ClMaxBits
             x == Cardinality(ValuesOf(J))
  <2>4. e \in Nat /\ x \in Nat /\ x <= MaxBits + 1 /\ MaxBits + 4 <= e
    BY <1>4, <2>2, <2>3, Doubles, AlphabetAssumption
  <2> HIDE DEF e, x
  <2>5. x + 3 <= e
    BY <1>4, <2>4
  <2> QED BY <2>5 DEF e, x
<1>7. ASSUME NEW s \in 0 .. (h - 1) PROVE J[s + 1] = lit[s]
  <2>1. s + 1 \in 1 .. (h + k) /\ s + 1 <= h /\ s + 1 \in 1 .. h /\ (s + 1) - 1 = s
    OBVIOUS
  <2> QED BY <1>1, <1>3, <2>1
<1>8. ASSUME NEW s \in 0 .. (k - 1) PROVE J[h + s + 1] = dist[s]
  <2>1. h + s + 1 \in 1 .. (h + k) /\ ~(h + s + 1 <= h) /\ s + 1 \in 1 .. k /\ (s + 1) - 1 = s
        /\ (h + s + 1) - h = s + 1
    OBVIOUS
  <2> QED BY <1>2, <1>3, <2>1
<1>9. /\ Sendable(J) /\ Len(J) = h + k
      /\ \A s \in 0 .. (h - 1) : J[s + 1] = lit[s]
      /\ \A s \in 0 .. (k - 1) : J[h + s + 1] = dist[s]
  BY <1>3, <1>5, <1>6, <1>7, <1>8 DEF Sendable
<1> QED
  BY <1>9 DEF J, a, b

(* What a dynamic block sends, and the codes that its reader makes of it.    *)
Sends(lens, hlit, lit, dist) ==
  LET hdist == Len(lens) - hlit
  IN /\ Sendable(lens) /\ hlit \in (EndBlock + 1) .. Cardinality(LitSyms)
     /\ hdist \in 1 .. Cardinality(DistSyms)
     /\ hlit - (EndBlock + 1) < 2 ^ 5 /\ hdist - 1 < 2 ^ 5
     /\ lit = [s \in 0 .. (hlit - 1) |-> lens[s + 1]]
     /\ dist = [s \in 0 .. (hdist - 1) |-> lens[hlit + s + 1]]
     /\ LeftOver(lit) = 0 /\ LeftOver(dist) = 0
     /\ DynamicBits = BitsOf(hlit - (EndBlock + 1), 5) \o BitsOf(hdist - 1, 5)
                      \o TableBits(lens) \o WrittenSymbols(lit, dist)
Suits(lit, dist) ==
  CodeFor(lit, EndBlock) /\ \A i \in 1 .. Len(syms) : SymCodes(syms[i], lit, dist)

(* Tables that give each symbol the same code write the same bits.          *)
LEMMA WrittenAlike ==
  ASSUME syms \in Seq(Symbols), NEW lit, NEW dist, NEW lit2, NEW dist2, Suits(lit, dist),
         Alphabet(lit), Alphabet(dist), Alphabet(lit2), Alphabet(dist2),
         Alike(lit, lit2), Alike(dist, dist2)
  PROVE  Suits(lit2, dist2) /\ WrittenSymbols(lit2, dist2) = WrittenSymbols(lit, dist)
<1>1. \A i \in 1 .. Len(syms) : /\ SymCodes(syms[i], lit2, dist2)
                                /\ SymbolBits(syms[i], lit2, dist2) = SymbolBits(syms[i], lit, dist)
  BY SymbolAlike DEF Suits
<1>2. CodeFor(lit2, EndBlock) /\ CodeBits(lit2, EndBlock) = CodeBits(lit, EndBlock)
  <2>1. EndBlock \in DOMAIN lit /\ lit[EndBlock] \in 1 .. MaxBits /\ LeftOver(lit) >= 0
    BY DEF Suits, CodeFor
  <2>2. /\ EndBlock \in DOMAIN lit2 /\ lit2[EndBlock] = lit[EndBlock]
        /\ CodeBits(lit2, EndBlock) = CodeBits(lit, EndBlock)
    BY <2>1, AlikeBits
  <2>3. LeftOver(lit2) = LeftOver(lit)
    BY AlikeLeft
  <2> QED BY <2>1, <2>2, <2>3 DEF CodeFor
<1>3. DOMAIN syms = 1 .. Len(syms)
  BY LenProperties
<1>4. [i \in DOMAIN syms |-> SymbolBits(syms[i], lit2, dist2)]
      = [i \in DOMAIN syms |-> SymbolBits(syms[i], lit, dist)]
  BY <1>1, <1>3
<1>5. WrittenSymbols(lit2, dist2) = WrittenSymbols(lit, dist)
  BY <1>2, <1>4 DEF WrittenSymbols
<1> QED
  BY <1>1, <1>2, <1>5 DEF Suits

(* A dynamic block sends two tables that its symbols can be read with.      *)
LEMMA DynamicIs ==
  ASSUME Gathered
  PROVE  \E lens, hlit, lit, dist : Sends(lens, hlit, lit, dist) /\ Suits(lit, dist)
<1> DEFINE lit == TableOf(LitFreq, MaxBits)
           dist == TableOf(DistFreq, MaxBits)
           hlit == UsedUpTo(lit, EndBlock + 1)
           hdist == UsedUpTo(dist, 1)
           lens == Listed(lit, hlit) \o Listed(dist, hdist)
           N == Cardinality(LitSyms)
           M == Cardinality(DistSyms)
           lit2 == Shortened(lit, hlit)
           dist2 == Shortened(dist, hdist)
<1>1. /\ TableFor(lit, LitFreq) /\ TableFor(dist, DistFreq)
      /\ DOMAIN lit = LitSyms /\ DOMAIN dist = DistSyms /\ Suits(lit, dist)
  BY BlockTables DEF Suits
<1>2. DynamicBits = BitsOf(hlit - (EndBlock + 1), 5) \o BitsOf(hdist - 1, 5)
                    \o TableBits(lens) \o WrittenSymbols(lit, dist)
  BY DEF DynamicBits, CodedBits
<1> HIDE DEF lit, dist
<1>3. /\ EndBlock \in Nat \ {0} /\ N \in Nat /\ M \in Nat /\ LitSyms = 0 .. (N - 1) /\ DistSyms = 0 .. (M - 1)
      /\ EndBlock + 1 \in 1 .. N /\ 1 \in 1 .. M /\ N - (EndBlock + 1) < 32 /\ M - 1 < 32
  <2> DEFINE a == Len(LengthCodes)
             b == Len(DistCodes)
  <2>1. /\ EndBlock \in Nat \ {0} /\ a \in 1 .. 31 /\ b \in 2 .. 32 /\ N = EndBlock + a + 1 /\ M = b
        /\ LitSyms = 0 .. (EndBlock + a) /\ DistSyms = 0 .. (b - 1)
    BY SizesAre
  <2> HIDE DEF a, b, N, M
  <2>2. N - 1 = EndBlock + a
    BY <2>1
  <2> QED BY <2>1, <2>2
<1> HIDE DEF N, M
<1>4. lit \in [0 .. (N - 1) -> 0 .. MaxBits] /\ dist \in [0 .. (M - 1) -> 0 .. MaxBits]
  <2>1. /\ DOMAIN LitFreq = LitSyms /\ DOMAIN DistFreq = DistSyms
    BY FreqsAre
  <2>2. lit \in [LitSyms -> Nat] /\ dist \in [DistSyms -> Nat]
    BY <1>1 DEF TableFor, Alphabet
  <2>3. /\ \A s \in LitSyms : lit[s] \in 0 .. MaxBits
        /\ \A s \in DistSyms : dist[s] \in 0 .. MaxBits
    BY <1>1, <2>1 DEF TableFor
  <2> QED BY <1>3, <2>2, <2>3
<1>5. /\ hlit \in (EndBlock + 1) .. N /\ \A s \in 0 .. (N - 1) : s >= hlit => lit[s] = 0
      /\ hdist \in 1 .. M /\ \A s \in 0 .. (M - 1) : s >= hdist => dist[s] = 0
  <2>1. MaxBits \in Nat /\ 0 .. MaxBits \subseteq Nat
    BY FormatAssumption
  <2>2. lit \in [0 .. (N - 1) -> Nat] /\ dist \in [0 .. (M - 1) -> Nat]
    BY <1>4, <2>1
  <2>3. /\ hlit \in (EndBlock + 1) .. N /\ \A s \in 0 .. (N - 1) : s >= hlit => lit[s] = 0
    <3> DEFINE l == EndBlock + 1
    <3>1. l \in 1 .. N
      BY <1>3
    <3> HIDE DEF l
    <3>2. UsedUpTo(lit, l) \in l .. N /\ \A s \in 0 .. (N - 1) : s >= UsedUpTo(lit, l) => lit[s] = 0
      BY <1>3, <2>2, <3>1, UsedUpToIs
    <3> QED BY <3>2 DEF l
  <2>4. /\ hdist \in 1 .. M /\ \A s \in 0 .. (M - 1) : s >= hdist => dist[s] = 0
    BY <1>3, <2>2, UsedUpToIs
  <2> QED BY <2>3, <2>4
<1> HIDE DEF hlit, hdist
<1>6. /\ hlit \in Nat \ {0} /\ hdist \in Nat /\ hlit \in 1 .. N /\ hdist \in 1 .. M
      /\ hlit - (EndBlock + 1) < 32 /\ hdist - 1 < 32
      /\ 0 .. (hlit - 1) \subseteq 0 .. (N - 1) /\ 0 .. (hdist - 1) \subseteq 0 .. (M - 1)
  BY <1>3, <1>5
<1>7. /\ Alphabet(lit) /\ Alphabet(lit2) /\ Alike(lit, lit2) /\ LeftOver(lit2) = LeftOver(lit)
      /\ Alphabet(dist) /\ Alphabet(dist2) /\ Alike(dist, dist2) /\ LeftOver(dist2) = LeftOver(dist)
  BY <1>3, <1>4, <1>5, <1>6, ShortIs
<1>8. /\ Sendable(lens) /\ Len(lens) = hlit + hdist
      /\ \A s \in 0 .. (hlit - 1) : lens[s + 1] = lit[s]
      /\ \A s \in 0 .. (hdist - 1) : lens[hlit + s + 1] = dist[s]
  <2>1. /\ \A s \in 0 .. (hlit - 1) : lit[s] \in 0 .. MaxBits
        /\ \A s \in 0 .. (hdist - 1) : dist[s] \in 0 .. MaxBits
    BY <1>4, <1>6
  <2>2. hlit \in Nat \ {0} /\ hdist \in Nat
    BY <1>6
  <2> QED BY <2>1, <2>2, JoinedIs
<1> HIDE DEF lens
<1>9. Len(lens) - hlit = hdist
  BY <1>6, <1>8
<1>10. /\ lit2 = [s \in 0 .. (hlit - 1) |-> lens[s + 1]]
       /\ dist2 = [s \in 0 .. (hdist - 1) |-> lens[hlit + s + 1]]
  BY <1>8 DEF Shortened
<1>11. Suits(lit2, dist2) /\ WrittenSymbols(lit2, dist2) = WrittenSymbols(lit, dist)
  <2> HIDE DEF lit2, dist2
  <2> QED BY <1>1, <1>7, WrittenAlike DEF Gathered
<1>12. LeftOver(lit2) = 0 /\ LeftOver(dist2) = 0
  BY <1>1, <1>7 DEF TableFor
<1> HIDE DEF lit2, dist2
<1>13. 2 ^ 5 = 32
  OBVIOUS
<1>14. Sends(lens, hlit, lit2, dist2)
  BY <1>2, <1>5, <1>6, <1>8, <1>9, <1>10, <1>11, <1>12, <1>13 DEF Sends, N, M
<1> QED
  BY <1>11, <1>14

(***************************************************************************)
(* What emit_block writes is one more block of the stream.                   *)
(***************************************************************************)
LEMMA SeqOver ==
  ASSUME NEW n \in Nat, NEW S, NEW f \in [1 .. n -> S]
  PROVE  f \in Seq(S) /\ Len(f) = n
<1>1. f \in Seq(S)
  BY IsASeq
<1> DEFINE m == Len(f)
<1>2. m \in Nat /\ 1 .. m = 1 .. n
  <2>1. DOMAIN f = 1 .. n
    OBVIOUS
  <2> QED BY <1>1, <2>1, LenProperties
<1> HIDE DEF m
<1>3. m = n
  BY <1>2, SameUpTo
<1> QED BY <1>1, <1>3 DEF m

SymbolSeqs(lit, dist) == [i \in DOMAIN syms |-> SymbolBits(syms[i], lit, dist)]

(* The bits of a block's symbols, one after the other, then those of its    *)
(* end.                                                                     *)
LEMMA WrittenIs ==
  ASSUME Gathered, NEW lit, NEW dist, Suits(lit, dist)
  PROVE  LET seqs == SymbolSeqs(lit, dist)
         IN  /\ WrittenSymbols(lit, dist) = FlattenSeq(seqs) \o CodeBits(lit, EndBlock)
             /\ seqs \in Seq(Seq(Bits01)) /\ Len(seqs) = Len(syms)
             /\ \A k \in 1 .. Len(syms) : seqs[k] = SymbolBits(syms[k], lit, dist)
             /\ FlattenSeq(seqs) \in Seq(Bits01) /\ CodeBits(lit, EndBlock) \in Seq(Bits01)
             /\ WrittenSymbols(lit, dist) \in Seq(Bits01)
<1> DEFINE n == Len(syms)
           seqs == SymbolSeqs(lit, dist)
<1>1. n \in Nat /\ DOMAIN syms = 1 .. n
  BY LenProperties DEF Gathered
<1>2. \A k \in 1 .. n : SymbolBits(syms[k], lit, dist) \in Seq(Bits01)
  BY SymbolBitsAre DEF Gathered, Suits
<1>3. WrittenSymbols(lit, dist) = FlattenSeq(seqs) \o CodeBits(lit, EndBlock)
  BY DEF WrittenSymbols, SymbolSeqs
<1>4. seqs \in [1 .. n -> Seq(Bits01)] /\ \A k \in 1 .. n : seqs[k] = SymbolBits(syms[k], lit, dist)
  <2> HIDE DEF n
  <2> QED BY <1>1, <1>2 DEF SymbolSeqs
<1> HIDE DEF n, seqs
<1>5. seqs \in Seq(Seq(Bits01)) /\ Len(seqs) = n
  BY <1>1, <1>4, SeqOver
<1>6. FlattenSeq(seqs) \in Seq(Bits01)
  BY <1>5, Flattened
<1>7. CodeBits(lit, EndBlock) \in Seq(Bits01)
  BY CodeBitsAre DEF Suits, CodeFor
<1>8. WrittenSymbols(lit, dist) \in Seq(Bits01)
  BY <1>3, <1>6, <1>7, ConcatProperties
<1> QED BY <1>3, <1>4, <1>5, <1>6, <1>7, <1>8 DEF n, seqs

Filled(b, lit, dist, ends, off) ==
  /\ b.syms = syms /\ b.lit = lit /\ b.dist = dist /\ b.ends = ends /\ b.off = off
  /\ b.from = start /\ b.to = pos

(* Where the stream holds them, each symbol lies at an offset of its own.   *)
LEMMA CodedFrom ==
  ASSUME NEW W \in Seq(Bits01), NEW body \in Nat, Gathered, NEW lit, NEW dist, Suits(lit, dist),
         NEW ends \in [0 .. Len(syms) -> 0 .. Len(data)], Spells(ends),
         Holds(W, body, WrittenSymbols(lit, dist))
  PROVE  \E off : \A b : Filled(b, lit, dist, ends, off)
                         /\ b.over = body + Len(WrittenSymbols(lit, dist)) => Coded(W, b, body)
<1> DEFINE n == Len(syms)
           seqs == SymbolSeqs(lit, dist)
           flat == FlattenSeq(seqs)
           e == CodeBits(lit, EndBlock)
<1>1. /\ WrittenSymbols(lit, dist) = flat \o e /\ seqs \in Seq(Seq(Bits01)) /\ Len(seqs) = n
      /\ \A k \in 1 .. n : seqs[k] = SymbolBits(syms[k], lit, dist)
      /\ flat \in Seq(Bits01) /\ e \in Seq(Bits01)
  BY WrittenIs
<1>2. n \in Nat
  BY LenProperties DEF Gathered
<1>3. \A k \in 1 .. n : SymbolBits(syms[k], lit, dist) \in Seq(Bits01)
  BY SymbolBitsAre DEF Gathered, Suits
<1> HIDE DEF n, seqs, e
<1>4. Holds(W, body, flat) /\ Holds(W, body + Len(flat), e) /\ Len(flat \o e) = Len(flat) + Len(e)
  <2> HIDE DEF flat
  <2> QED BY <1>1, HoldsBoth
<1>5. PICK off : Offsets(off, body, seqs) /\ \A k \in 1 .. n : Holds(W, off[k - 1], seqs[k])
  BY <1>1, <1>4, Pieces
<1>6. /\ off \in [0 .. n -> Nat] /\ off[0] = body /\ off[n] = body + Len(flat)
      /\ \A k \in 1 .. n : off[k] = off[k - 1] + Len(seqs[k])
  BY <1>1, <1>5 DEF Offsets
<1> HIDE DEF flat
<1>7. Len(flat) \in Nat /\ Len(e) \in Nat
  BY <1>1, LenProperties
<1>8. \A k \in 1 .. n : Kept(W, off[k - 1], SymbolBits(syms[k], lit, dist))
  <2> TAKE k \in 1 .. n
  <2>1. off[k - 1] \in Nat
    BY <1>2, <1>6
  <2> QED BY <1>1, <1>3, <1>5, <2>1 DEF Kept
<1>9. Kept(W, off[n], e)
  <2>1. off[n] \in Nat
    BY <1>2, <1>6
  <2> QED BY <1>1, <1>4, <1>6, <2>1 DEF Kept
<1>10. off[n] + Len(e) = body + Len(WrittenSymbols(lit, dist))
  <2> DEFINE x == Len(flat)
             y == Len(e)
             z == Len(WrittenSymbols(lit, dist))
  <2>1. x \in Nat /\ y \in Nat /\ z = x + y /\ off[n] = body + x
    BY <1>1, <1>4, <1>6, <1>7
  <2> HIDE DEF x, y, z
  <2>2. off[n] + y = body + z
    BY <2>1
  <2> QED BY <2>2 DEF y, z
<1>11. ASSUME NEW b, Filled(b, lit, dist, ends, off),
              b.over = body + Len(WrittenSymbols(lit, dist))
       PROVE  Coded(W, b, body)
  <2>1. /\ b.syms \in Seq(Symbols) /\ CodeFor(b.lit, EndBlock) /\ Len(b.syms) = n
        /\ \A k \in 1 .. n : SymOk(b.syms[k]) /\ SymCodes(b.syms[k], b.lit, b.dist)
    BY <1>11 DEF Filled, Gathered, Suits, n
  <2>2. /\ b.ends \in [0 .. n -> 0 .. Len(data)] /\ b.ends[0] = b.from /\ b.ends[n] = b.to
        /\ \A k \in 1 .. n : StandsFor(b.syms[k], b.ends[k - 1], b.ends[k])
    BY <1>11 DEF Filled, Spells, n
  <2>3. /\ b.off \in [0 .. n -> Nat] /\ b.off[0] = body
        /\ \A k \in 1 .. n :
          /\ Kept(W, b.off[k - 1], SymbolBits(b.syms[k], b.lit, b.dist))
          /\ b.off[k] = b.off[k - 1] + Len(SymbolBits(b.syms[k], b.lit, b.dist))
    BY <1>1, <1>6, <1>8, <1>11 DEF Filled
  <2>4. Kept(W, b.off[n], CodeBits(b.lit, EndBlock)) /\ b.over = b.off[n] + Len(CodeBits(b.lit, EndBlock))
    BY <1>9, <1>10, <1>11 DEF Filled, e
  <2> QED BY <2>1, <2>2, <2>3, <2>4 DEF Coded
<1> QED BY <1>11

(* The fixed tables have a code for every symbol.                           *)
LEMMA FixedSuits ==
  ASSUME Gathered
  PROVE  Suits(FixedLens, FixedDist)
<1>1. /\ IsFiniteSet(LitSyms) /\ IsFiniteSet(DistSyms) /\ EndBlock \in LitSyms
      /\ LitSyms \subseteq Int /\ DistSyms \subseteq Int
  <2> DEFINE a == Len(LengthCodes)
             b == Len(DistCodes)
  <2>1. /\ EndBlock \in Nat /\ a \in Nat /\ b \in Nat /\ LitSyms = 0 .. (EndBlock + a)
        /\ DistSyms = 0 .. (b - 1) /\ IsFiniteSet(LitSyms) /\ IsFiniteSet(DistSyms)
    BY SizesAre
  <2> HIDE DEF a, b
  <2> QED BY <2>1
<1>2. \A s \in LitSyms : CodeFor(FixedLens, s)
  <2>1. FixedLens \in [LitSyms -> 1 .. MaxBits] /\ LeftOver(FixedLens) >= 0 /\ MaxBits \in Nat
    BY FormatAssumption, AlphabetAssumption, CodesAssumption
  <2>2. Alphabet(FixedLens)
    <3>1. 1 .. MaxBits \subseteq Nat
      BY <2>1
    <3> QED BY <1>1, <2>1, <3>1 DEF Alphabet
  <2> QED BY <2>1, <2>2 DEF CodeFor
<1>3. \A s \in DistSyms : CodeFor(FixedDist, s)
  <2>1. FixedDist \in [DistSyms -> 1 .. MaxBits] /\ LeftOver(FixedDist) >= 0 /\ MaxBits \in Nat
    BY FormatAssumption, AlphabetAssumption, CodesAssumption DEF FixedDist
  <2>2. Alphabet(FixedDist)
    <3>1. 1 .. MaxBits \subseteq Nat
      BY <2>1
    <3> QED BY <1>1, <2>1, <3>1 DEF Alphabet
  <2> QED BY <2>1, <2>2 DEF CodeFor
<1>4. ASSUME NEW i \in 1 .. Len(syms) PROVE SymCodes(syms[i], FixedLens, FixedDist)
  <2>1. SymOk(syms[i])
    BY DEF Gathered
  <2>2. LitCode(syms[i]) \in LitSyms /\ (syms[i].dist # 0 => DistCode(syms[i]) \in DistSyms)
    BY <2>1, CodesIn
  <2> QED BY <1>2, <1>3, <2>2 DEF SymCodes, LitCode, DistCode
<1> QED BY <1>1, <1>2, <1>4 DEF Suits

Evenly(W, i, seqs, n, w) ==
  /\ Len(FlattenSeq(seqs)) = n * w
  /\ \A k \in 1 .. n : Holds(W, i + (k - 1) * w, seqs[k])

(* Pieces of one width lie at even offsets.                                 *)
LEMMA EvenPieces ==
  ASSUME NEW W \in Seq(Bits01), NEW i \in Nat, NEW n \in Nat, NEW seqs \in Seq(Seq(Bits01)),
         Len(seqs) = n, NEW w \in Nat, \A k \in 1 .. n : Len(seqs[k]) = w,
         Holds(W, i, FlattenSeq(seqs))
  PROVE  Evenly(W, i, seqs, n, w)
<1>1. PICK off : Offsets(off, i, seqs) /\ \A k \in 1 .. n : Holds(W, off[k - 1], seqs[k])
  BY Pieces
<1> DEFINE z == Len(FlattenSeq(seqs))
<1>2. z \in Nat
  BY Flattened, LenProperties
<1> HIDE DEF z
<1>3. /\ off[0] = i /\ off[n] = i + z /\ \A k \in 1 .. n : off[k] = off[k - 1] + w
  BY <1>1 DEF Offsets, z
<1> DEFINE P == {k \in 0 .. n : off[k] = i + k * w}
<1>4. 0 .. n \subseteq P
  <2>1. 0 \in P
    <3>1. 0 * w = 0
      OBVIOUS
    <3> QED BY <1>3, <3>1
  <2>2. ASSUME NEW k \in 1 .. n, k - 1 \in P PROVE k \in P
    <3>1. off[k - 1] = i + (k - 1) * w /\ off[k] = off[k - 1] + w
      BY <1>3, <2>2
    <3>2. k * w = (k - 1) * w + w /\ (k - 1) * w \in Int
      OBVIOUS
    <3> DEFINE x == (k - 1) * w
               y == k * w
    <3>3. off[k - 1] = i + x /\ off[k] = off[k - 1] + w /\ y = x + w /\ x \in Int
      BY <3>1, <3>2
    <3> HIDE DEF x, y
    <3>4. off[k] = i + y
      BY <3>3
    <3> QED BY <3>4 DEF y
  <2> HIDE DEF P
  <2> QED BY <2>1, <2>2, Upward
<1>5. \A k \in 0 .. n : off[k] = i + k * w
  BY <1>4
<1>6. z = n * w
  <2>1. off[n] = i + n * w /\ n * w \in Nat
    BY <1>5
  <2> DEFINE y == n * w
  <2>2. off[n] = i + y /\ y \in Nat
    BY <2>1
  <2> HIDE DEF y
  <2>3. z = y
    BY <1>2, <1>3, <2>2
  <2> QED BY <2>3 DEF y
<1>7. \A k \in 1 .. n : off[k - 1] = i + (k - 1) * w
  BY <1>5
<1>8. \A k \in 1 .. n : Holds(W, i + (k - 1) * w, seqs[k])
  BY <1>1, <1>7
<1> QED BY <1>6, <1>8 DEF z, Evenly

(* Padding goes to the next byte and no further.                            *)
LEMMA PadIs ==
  ASSUME NEW n \in Nat
  PROVE  /\ Padding(n) \in Seq(Bits01) /\ Len(Padding(n)) \in 0 .. (ByteBits - 1)
         /\ (n + Len(Padding(n))) % ByteBits = 0
<1> DEFINE r == n % ByteBits
           m == (ByteBits - r) % ByteBits
<1>1. ByteBits \in Nat \ {0}
  BY FormatAssumption
<1>2. r \in 0 .. (ByteBits - 1)
  BY <1>1
<1>3. m \in 0 .. (ByteBits - 1) /\ m = (IF r = 0 THEN 0 ELSE ByteBits - r)
  <2> HIDE DEF r
  <2> QED BY <1>1, <1>2
<1>4. (n + m) % ByteBits = 0
  <2> DEFINE q == n \div ByteBits
  <2>1. n = ByteBits * q + r /\ q \in Nat
    BY <1>1
  <2> HIDE DEF q, r, m
  <2>2. n + m = ByteBits * (IF r = 0 THEN q ELSE q + 1)
    BY <1>1, <1>2, <1>3, <2>1
  <2> DEFINE p == IF r = 0 THEN q ELSE q + 1
  <2>3. n + m = ByteBits * p /\ p \in Nat
    BY <2>1, <2>2
  <2> HIDE DEF p
  <2> DEFINE c == n + m
             d == c \div ByteBits
             u == c % ByteBits
  <2>4. c \in Nat /\ p * ByteBits <= c /\ c < p * ByteBits + ByteBits /\ c = p * ByteBits
    BY <1>1, <2>3
  <2> HIDE DEF c
  <2>5. d = p
    BY <1>1, <2>3, <2>4, QuotientIs
  <2>6. c = ByteBits * d + u /\ u \in Int
    <3> DEFINE B == ByteBits
    <3>1. B \in Nat /\ B > 0 /\ c \in Int /\ d = c \div B /\ u = c % B
      BY <1>1, <2>4
    <3> HIDE DEF B, d, u
    <3>2. c = B * (c \div B) + (c % B) /\ c % B \in Int
      BY <3>1
    <3> QED BY <3>1, <3>2 DEF B
  <2> HIDE DEF d, u
  <2>7. u = 0
    BY <1>1, <2>3, <2>4, <2>5, <2>6
  <2> QED BY <2>7 DEF u, c
<1>5. Padding(n) \in [1 .. m -> Bits01]
  BY DEF Padding, Bits01
<1> HIDE DEF m
<1>6. Padding(n) \in Seq(Bits01) /\ Len(Padding(n)) = m
  BY <1>3, <1>5, SeqOver
<1> QED BY <1>3, <1>4, <1>6

(* A byte of the input fits its bits.                                       *)
LEMMA ByteIs ==
  ASSUME data \in Seq(0 .. Literals - 1), NEW k \in 1 .. Len(data)
  PROVE  data[k] \in Nat /\ data[k] < 2 ^ ByteBits /\ data[k] \in 0 .. (Literals - 1)
<1>1. data[k] \in 0 .. (Literals - 1)
  BY ElementOfSeq
<1>2. 2 ^ ByteBits \in Nat /\ Literals \in 1 .. 2 ^ ByteBits
  BY Doubles, FormatAssumption
<1> DEFINE e == 2 ^ ByteBits
           v == data[k]
<1>3. e \in Nat /\ Literals \in 1 .. e /\ v \in 0 .. (Literals - 1)
  BY <1>1, <1>2
<1> HIDE DEF e, v
<1>4. v \in Nat /\ v < e
  BY <1>3
<1> QED BY <1>1, <1>4 DEF e, v

(* A bit string of a block that was written fits where it is held.          *)
Emits == /\ Gathered /\ data \in Seq(0 .. Literals - 1)
         /\ start \in 0 .. pos /\ pos \in 0 .. Len(data)

(* What a stored block holds behind its header: padding, the length twice,  *)
(* and the bytes, each where it is looked for.                              *)
LEMMA StoredBody ==
  ASSUME Emits, pos - start <= BlockBytes, NEW at \in Nat, NEW before, Len(before) = at + 3
  PROVE  /\ StoredBits(before) \in Seq(Bits01)
         /\ \A W \in Seq(Bits01) : \A b :
              /\ Holds(W, at + 3, StoredBits(before))
              /\ b.at = at /\ b.from = start /\ b.to = pos
              /\ b.over = at + 3 + Len(StoredBits(before))
              => Plain(W, b)
<1> DEFINE span == pos - start
           m == 2 ^ SpanBits
           L == Len(data)
           u == (m - 1) - span
           pad == Padding(at + 3)
           one == BitsOf(span, SpanBits)
           two == BitsOf(u, SpanBits)
           seqs == [i \in 1 .. span |-> BitsOf(Byte(start + i - 1), ByteBits)]
           flat == FlattenSeq(seqs)
<1>1. /\ SpanBits \in Nat /\ ByteBits \in Nat \ {0} /\ m \in Nat \ {0} /\ BlockBytes < m /\ BlockBytes \in Nat
      /\ L \in Nat
  BY FormatAssumption, Doubles, LenProperties DEF Emits
<1> HIDE DEF L
<1>2. start \in Nat /\ pos \in Nat /\ start <= pos /\ pos <= L
  BY <1>1 DEF Emits, L
<1> HIDE DEF m
<1>3. span \in Nat /\ span < m /\ u \in Nat /\ u < m
  BY <1>1, <1>2
<1>4. span % m = span
  <2> HIDE DEF span
  <2> QED BY <1>1, <1>3
<1>5. StoredBits(before) = pad \o one \o two \o flat
  BY <1>4 DEF StoredBits, m
<1>6. \A k \in 1 .. span : Byte(start + k - 1) = data[start + k] /\ start + k \in 1 .. L
  <2> TAKE k \in 1 .. span
  <2>1. (start + k - 1) + 1 = start + k /\ start + k \in 1 .. L
    BY <1>1, <1>2
  <2> QED BY <2>1 DEF Byte
<1> HIDE DEF span, u
<1>7. \A k \in 1 .. span : data[start + k] \in Nat /\ data[start + k] < 2 ^ ByteBits
  BY <1>6, ByteIs DEF Emits, L
<1>8. /\ seqs \in [1 .. span -> Seq(Bits01)]
      /\ \A k \in 1 .. span : seqs[k] = BitsOf(data[start + k], ByteBits) /\ Len(seqs[k]) = ByteBits
                              /\ seqs[k] \in Seq(Bits01)
  <2>1. ASSUME NEW k \in 1 .. span
        PROVE  /\ seqs[k] = BitsOf(data[start + k], ByteBits) /\ Len(seqs[k]) = ByteBits
               /\ seqs[k] \in Seq(Bits01)
    <3>1. seqs[k] = BitsOf(data[start + k], ByteBits)
      BY <1>6
    <3> HIDE DEF seqs
    <3> DEFINE v == data[start + k]
    <3>2. v \in Nat
      BY <1>7
    <3> HIDE DEF v
    <3>3. BitsOf(v, ByteBits) \in Seq(Bits01) /\ Len(BitsOf(v, ByteBits)) = ByteBits
      BY <1>1, <3>2, BitsAreBits
    <3> QED BY <3>1, <3>3 DEF v
  <2>2. DOMAIN seqs = 1 .. span /\ seqs = [k \in 1 .. span |-> seqs[k]]
    OBVIOUS
  <2> HIDE DEF seqs
  <2> QED BY <2>1, <2>2
<1> HIDE DEF seqs
<1>9. seqs \in Seq(Seq(Bits01)) /\ Len(seqs) = span
  BY <1>3, <1>8, SeqOver
<1>10. flat \in Seq(Bits01)
  BY <1>9, Flattened
<1>11. /\ one \in Seq(Bits01) /\ Len(one) = SpanBits /\ two \in Seq(Bits01) /\ Len(two) = SpanBits
  BY <1>1, <1>3, BitsAreBits
<1>12. pad \in Seq(Bits01) /\ Len(pad) \in Nat
  <2> DEFINE n == at + 3
  <2>1. n \in Nat
    OBVIOUS
  <2> HIDE DEF n
  <2>2. Padding(n) \in Seq(Bits01)
    BY <2>1, PadIs
  <2> QED BY <2>2, LenProperties DEF n
<1>13. StoredBits(before) \in Seq(Bits01)
  <2> HIDE DEF pad, one, two, flat
  <2>1. pad \o one \in Seq(Bits01)
    BY <1>11, <1>12, ConcatProperties
  <2>2. (pad \o one) \o two \in Seq(Bits01)
    BY <1>11, <2>1, ConcatProperties
  <2>3. ((pad \o one) \o two) \o flat \in Seq(Bits01)
    BY <1>10, <2>2, ConcatProperties
  <2> QED BY <1>5, <2>3
<1>14. ASSUME NEW W \in Seq(Bits01), NEW b, Holds(W, at + 3, StoredBits(before)),
              b.at = at, b.from = start, b.to = pos,
              b.over = at + 3 + Len(StoredBits(before))
       PROVE  Plain(W, b)
  <2> DEFINE i == at + 3
             p == Len(pad)
             j == i + p
             z == Len(flat)
  <2>1. i \in Nat /\ p \in Nat
    BY <1>12
  <2>2. /\ Holds(W, i + p, one) /\ Holds(W, i + p + Len(one), two)
        /\ Holds(W, i + p + Len(one) + Len(two), flat)
        /\ Len(StoredBits(before)) = p + Len(one) + Len(two) + Len(flat)
    <3>1. Holds(W, i, pad \o one \o two \o flat)
      BY <1>5, <1>14
    <3> HIDE DEF pad, one, two, flat, i
    <3>2. /\ pad \in Seq(Bits01) /\ one \in Seq(Bits01) /\ two \in Seq(Bits01)
          /\ flat \in Seq(Bits01) /\ i \in Nat
      BY <1>10, <1>11, <1>12, <2>1
    <3>3. /\ Holds(W, i + Len(pad), one) /\ Holds(W, i + Len(pad) + Len(one), two)
          /\ Holds(W, i + Len(pad) + Len(one) + Len(two), flat)
          /\ Len(pad \o one \o two \o flat) = Len(pad) + Len(one) + Len(two) + Len(flat)
      BY <3>1, <3>2, FourHeld
    <3> QED BY <1>5, <3>3
  <2>3. z \in Nat
    BY <1>10, LenProperties
  <2> HIDE DEF i, p, pad, one, two, flat, z
  <2>4. j \in Nat /\ j + SpanBits \in Nat /\ j + 2 * SpanBits \in Nat
        /\ (j + SpanBits) + SpanBits = j + 2 * SpanBits
    BY <1>1, <2>1
  <2>5. Holds(W, j, one) /\ Holds(W, j + SpanBits, two) /\ Holds(W, j + 2 * SpanBits, flat)
    BY <1>11, <2>2, <2>4
  <2>6. Len(StoredBits(before)) = p + SpanBits + SpanBits + z
    BY <1>11, <2>2 DEF z
  <2> DEFINE h == j + 2 * SpanBits
  <2>7. z = span * ByteBits /\ \A k \in 1 .. span : Holds(W, h + (k - 1) * ByteBits, seqs[k])
    <3>1. h \in Nat /\ Holds(W, h, FlattenSeq(seqs)) /\ span \in Nat /\ ByteBits \in Nat
      BY <1>1, <1>3, <2>4, <2>5 DEF flat
    <3>2. \A k \in 1 .. span : Len(seqs[k]) = ByteBits
      BY <1>8
    <3> HIDE DEF h
    <3>4. Evenly(W, h, seqs, span, ByteBits)
      BY <1>9, <3>1, <3>2, EvenPieces
    <3> QED BY <3>4 DEF z, flat, Evenly
  <2>8. SpanAt(b) = j
    BY <1>14 DEF SpanAt, i, p, pad
  <2>9. b.to - b.from = span
    BY <1>14 DEF span
  <2>10. Kept(W, j, one) /\ Kept(W, j + SpanBits, two)
    BY <1>11, <2>4, <2>5 DEF Kept
  <2>11. \A k \in 1 .. span : Kept(W, h + (k - 1) * ByteBits, BitsOf(data[start + k], ByteBits))
    <3> TAKE k \in 1 .. span
    <3> DEFINE y == (k - 1) * ByteBits
    <3>1. y \in Nat
      <4>1. k - 1 \in Nat
        BY <1>3
      <4> QED BY <1>1, <4>1
    <3> HIDE DEF y
    <3>2. h + y \in Nat
      BY <2>4, <3>1
    <3> QED BY <1>8, <2>7, <3>2 DEF Kept, y
  <2>12. b.over = h + span * ByteBits
    <3>1. b.over = i + (p + SpanBits + SpanBits + z)
      BY <1>14, <2>6 DEF i
    <3>2. b.over = h + z
      BY <1>1, <2>1, <2>3, <3>1
    <3> QED BY <2>7, <3>2
  <2> HIDE DEF h, j
  <2>13. span < 2 ^ SpanBits /\ Kept(W, j, BitsOf(span, SpanBits))
         /\ Kept(W, j + SpanBits, BitsOf((2 ^ SpanBits - 1) - span, SpanBits))
    BY <1>3, <2>10 DEF m, one, two, u
  <2> QED BY <1>14, <2>8, <2>9, <2>11, <2>12, <2>13 DEF Plain, h
<1> QED BY <1>13, <1>14

(* The bits of a table are bits.                                            *)
LEMMA TableBitsSeq ==
  ASSUME NEW lens, Sendable(lens)
  PROVE  TableBits(lens) \in Seq(Bits01) /\ Len(TableBits(lens)) \in Nat /\ Len(TableBits(lens)) >= 4
<1> DEFINE items == EncodeLengths(lens)
           cl == ClTable(items)
           S(h) == Sent(cl, items)
           F(h) == FlattenSeq(ClLengths(cl, h))
           B(h) == BitsOf(h - 4, 4)
<1>1. PICK p, h : /\ TableBits(lens) = B(h) \o F(h) \o S(h)
                  /\ B(h) \in Seq(Bits01) /\ Len(B(h)) = 4
                  /\ F(h) \in Seq(Bits01) /\ S(h) \in Seq(Bits01)
  BY TableBitsAre
<1> HIDE DEF B, F, S
<1> DEFINE b == B(h)
           f == F(h)
           s == S(h)
           t == TableBits(lens)
<1>0. t = (b \o f) \o s /\ b \in Seq(Bits01) /\ Len(b) = 4 /\ f \in Seq(Bits01) /\ s \in Seq(Bits01)
  BY <1>1
<1> HIDE DEF b, f, s, t
<1>2. b \o f \in Seq(Bits01) /\ Len(b \o f) = Len(b) + Len(f) /\ Len(f) \in Nat /\ Len(s) \in Nat
  BY <1>0, ConcatProperties, LenProperties
<1>3. t \in Seq(Bits01) /\ Len(t) = Len(b \o f) + Len(s)
  BY <1>0, <1>2, ConcatProperties
<1> DEFINE x == Len(f)
           y == Len(s)
           z == Len(t)
<1>4. x \in Nat /\ y \in Nat /\ z = (4 + x) + y
  BY <1>0, <1>2, <1>3
<1> HIDE DEF x, y, z
<1>5. z \in Nat /\ z >= 4
  BY <1>4
<1> QED BY <1>3, <1>5 DEF z, t

(* Four pieces of bits are bits.                                            *)
LEMMA FourSeq ==
  ASSUME NEW a \in Seq(Bits01), NEW b \in Seq(Bits01), NEW c \in Seq(Bits01), NEW d \in Seq(Bits01)
  PROVE  a \o b \o c \o d \in Seq(Bits01)
<1>1. a \o b \in Seq(Bits01)
  BY ConcatProperties
<1>2. (a \o b) \o c \in Seq(Bits01)
  BY <1>1, ConcatProperties
<1> QED BY <1>2, ConcatProperties

DynamicParts(lens, hlit, lit, dist) ==
  <<BitsOf(hlit - (EndBlock + 1), 5), BitsOf((Len(lens) - hlit) - 1, 5),
    TableBits(lens), WrittenSymbols(lit, dist)>>

(* A dynamic block in its parts: two counts, the tables, the symbols.       *)
LEMMA DynamicPartsAre ==
  ASSUME Emits, NEW lens, NEW hlit, NEW lit, NEW dist, Sends(lens, hlit, lit, dist), Suits(lit, dist)
  PROVE  LET p == DynamicParts(lens, hlit, lit, dist)
         IN  /\ DynamicBits = p[1] \o p[2] \o p[3] \o p[4]
             /\ p[1] \in Seq(Bits01) /\ p[2] \in Seq(Bits01) /\ p[3] \in Seq(Bits01)
             /\ p[4] \in Seq(Bits01) /\ Len(p[1]) = 5 /\ Len(p[2]) = 5
<1> DEFINE v == hlit - (EndBlock + 1)
           u == (Len(lens) - hlit) - 1
<1>1. v \in Nat /\ u \in Nat
  <2> DEFINE N == Cardinality(LitSyms)
             M == Cardinality(DistSyms)
             k == Len(lens) - hlit
  <2>1. hlit \in (EndBlock + 1) .. N /\ k \in 1 .. M /\ EndBlock \in Nat
    BY SizesAre DEF Sends
  <2> HIDE DEF N, M, k
  <2>2. v \in Nat /\ k - 1 \in Nat
    BY <2>1
  <2> QED BY <2>2 DEF k
<1> HIDE DEF v, u
<1>2. /\ BitsOf(v, 5) \in Seq(Bits01) /\ Len(BitsOf(v, 5)) = 5
      /\ BitsOf(u, 5) \in Seq(Bits01) /\ Len(BitsOf(u, 5)) = 5
  <2>1. 5 \in Nat
    OBVIOUS
  <2> QED BY <1>1, <2>1, BitsAreBits
<1>3. TableBits(lens) \in Seq(Bits01)
  BY TableBitsSeq DEF Sends
<1>4. WrittenSymbols(lit, dist) \in Seq(Bits01)
  BY WrittenIs DEF Emits
<1>5. DynamicBits = BitsOf(v, 5) \o BitsOf(u, 5) \o TableBits(lens) \o WrittenSymbols(lit, dist)
  BY DEF Sends, v, u
<1> QED BY <1>2, <1>3, <1>4, <1>5 DEF DynamicParts, v, u

(* Where the stream holds a dynamic block, it holds the tables and the      *)
(* symbols at their places.                                                 *)
LEMMA DynamicBody ==
  ASSUME Emits, NEW ends \in [0 .. Len(syms) -> 0 .. Len(data)], Spells(ends),
         NEW W \in Seq(Bits01), NEW at \in Nat, Holds(W, at + 3, DynamicBits)
  PROVE  \E lens, hlit, lit, dist, off : \A b :
           /\ Filled(b, lit, dist, ends, off) /\ b.lens = lens /\ b.hlit = hlit /\ b.at = at
           /\ b.over = at + 3 + Len(DynamicBits)
           => Tabled(W, b) /\ Coded(W, b, at + 13 + Len(TableBits(lens)))
<1>1. PICK lens, hlit, lit, dist : Sends(lens, hlit, lit, dist) /\ Suits(lit, dist)
  BY DynamicIs DEF Emits
<1> DEFINE p == DynamicParts(lens, hlit, lit, dist)
           p1 == p[1]
           p2 == p[2]
           p3 == p[3]
           p4 == p[4]
           i == at + 3
<1>2. /\ DynamicBits = p1 \o p2 \o p3 \o p4
      /\ p1 \in Seq(Bits01) /\ p2 \in Seq(Bits01) /\ p3 \in Seq(Bits01)
      /\ p4 \in Seq(Bits01) /\ Len(p1) = 5 /\ Len(p2) = 5
  BY <1>1, DynamicPartsAre
<1>3. /\ p1 = BitsOf(hlit - (EndBlock + 1), 5) /\ p2 = BitsOf((Len(lens) - hlit) - 1, 5)
      /\ p3 = TableBits(lens) /\ p4 = WrittenSymbols(lit, dist)
  BY DEF DynamicParts
<1> HIDE DEF p1, p2, p3, p4, i
<1>4. /\ Holds(W, i, p1) /\ Holds(W, i + Len(p1), p2) /\ Holds(W, i + Len(p1) + Len(p2), p3)
      /\ Holds(W, i + Len(p1) + Len(p2) + Len(p3), p4)
      /\ Len(p1 \o p2 \o p3 \o p4) = Len(p1) + Len(p2) + Len(p3) + Len(p4)
  <2>1. i \in Nat /\ Holds(W, i, p1 \o p2 \o p3 \o p4)
    BY <1>2 DEF i
  <2>2. p1 \in Seq(Bits01) /\ p2 \in Seq(Bits01) /\ p3 \in Seq(Bits01) /\ p4 \in Seq(Bits01)
    BY <1>2
  <2> QED BY <2>1, <2>2, FourHeld
<1> DEFINE x == Len(p3)
           y == Len(p4)
           z == Len(DynamicBits)
<1>5. x \in Nat /\ y \in Nat /\ z = ((5 + 5) + x) + y
  BY <1>2, <1>4, LenProperties
<1>6. Holds(W, i + 5 + 5 + x, p4) /\ Holds(W, i + 5 + 5, p3) /\ Holds(W, i + 5, p2)
  BY <1>2, <1>4
<1> HIDE DEF x, y, z
<1>7. /\ i = at + 3 /\ i + 5 = at + 8 /\ (i + 5) + 5 = at + 13 /\ ((i + 5) + 5) + x = (at + 13) + x
      /\ (at + 13) + x \in Nat /\ at + 13 \in Nat /\ at + 8 \in Nat /\ at + 3 \in Nat
      /\ (at + 3) + z = ((at + 13) + x) + y
  BY <1>5 DEF i
<1>8. Holds(W, at + 3, p1) /\ Holds(W, at + 8, p2) /\ Holds(W, at + 13, p3) /\ Holds(W, (at + 13) + x, p4)
  BY <1>4, <1>6, <1>7
<1> DEFINE body == (at + 13) + x
<1>9. PICK off : \A b : Filled(b, lit, dist, ends, off) /\ b.over = body + Len(p4) => Coded(W, b, body)
  <2>1. body \in Nat /\ Holds(W, body, WrittenSymbols(lit, dist)) /\ Gathered
    BY <1>3, <1>7, <1>8 DEF Emits
  <2> HIDE DEF body
  <2>2. \E off : \A b : Filled(b, lit, dist, ends, off)
                         /\ b.over = body + Len(WrittenSymbols(lit, dist)) => Coded(W, b, body)
    BY <1>1, <2>1, CodedFrom
  <2> QED BY <1>3, <2>2
<1>10. ASSUME NEW b, Filled(b, lit, dist, ends, off), b.lens = lens, b.hlit = hlit, b.at = at,
              b.over = at + 3 + Len(DynamicBits)
       PROVE  Tabled(W, b) /\ Coded(W, b, at + 13 + Len(TableBits(lens)))
  <2>1. b.over = body + Len(p4)
    BY <1>7, <1>10 DEF y, z
  <2>2. Coded(W, b, body)
    <3> HIDE DEF body
    <3> QED BY <1>9, <1>10, <2>1
  <2>3. Coded(W, b, at + 13 + Len(TableBits(lens)))
    BY <1>3, <2>2 DEF x
  <2>4. /\ Kept(W, at + 3, p1) /\ Kept(W, at + 8, p2) /\ Kept(W, at + 13, p3)
    BY <1>2, <1>7, <1>8 DEF Kept
  <2>5. b.lit = lit /\ b.dist = dist
    BY <1>10 DEF Filled
  <2>6. Tabled(W, b)
    BY <1>1, <1>3, <1>10, <2>4, <2>5 DEF Tabled, Sends
  <2> QED BY <2>3, <2>6
<1> QED BY <1>10

(* Pieces are joined in any order.                                          *)
LEMMA Assoc ==
  ASSUME NEW p \in Seq(Bits01), NEW q \in Seq(Bits01), NEW r \in Seq(Bits01)
  PROVE  (p \o q) \o r = p \o (q \o r)
BY ConcatAssociative

Joined(W, a, b, c, d) ==
  LET x == a \o b \o c \o d
      V == W \o a \o b \o c \o d
  IN  /\ x \in Seq(Bits01) /\ V = W \o x /\ V \in Seq(Bits01)
      /\ Holds(V, Len(W), a) /\ Holds(V, Len(W) + Len(a), b)
      /\ Holds(V, Len(W) + Len(a) + Len(b), c)
      /\ Len(W \o a \o b) = Len(W) + Len(a) + Len(b)
      /\ Len(W \o a \o b \o c) = Len(W \o a \o b) + Len(c)
      /\ Len(V) = Len(W \o a \o b \o c) + Len(d)

(* What five joined pieces hold, and where.                                 *)
LEMMA FiveParts ==
  ASSUME NEW W \in Seq(Bits01), NEW a \in Seq(Bits01), NEW b \in Seq(Bits01),
         NEW c \in Seq(Bits01), NEW d \in Seq(Bits01)
  PROVE  Joined(W, a, b, c, d)
<1> DEFINE ab == a \o b
           abc == ab \o c
           x == abc \o d
           Wa == W \o a
           Wab == Wa \o b
           Wabc == Wab \o c
           V == Wabc \o d
<1>1. ab \in Seq(Bits01) /\ Wa \in Seq(Bits01) /\ Len(Wa) = Len(W) + Len(a)
  BY ConcatProperties
<1>2. Wab \in Seq(Bits01) /\ Len(Wab) = Len(Wa) + Len(b) /\ Wab = W \o ab
  <2>1. (W \o a) \o b = W \o (a \o b)
    BY ConcatAssociative
  <2> HIDE DEF ab, Wa
  <2>2. Wab \in Seq(Bits01) /\ Len(Wab) = Len(Wa) + Len(b)
    BY <1>1, ConcatProperties
  <2> QED BY <2>1, <2>2 DEF ab, Wa
<1> HIDE DEF ab, Wa, Wab
<1>3. abc \in Seq(Bits01) /\ Wabc \in Seq(Bits01) /\ Len(Wabc) = Len(Wab) + Len(c)
  BY <1>1, <1>2, ConcatProperties
<1>4. Wabc = W \o abc
  <2>2. (W \o ab) \o c = W \o (ab \o c)
    <3>1. ab \in Seq(Bits01)
      BY <1>1
    <3> HIDE DEF abc, Wabc
    <3> QED BY <3>1, Assoc
  <2> QED BY <1>2, <2>2 DEF abc, Wabc
<1> HIDE DEF abc, Wabc
<1>5. x \in Seq(Bits01) /\ V \in Seq(Bits01) /\ Len(V) = Len(Wabc) + Len(d)
  BY <1>3, ConcatProperties
<1>6. V = W \o x
  <2>2. (W \o abc) \o d = W \o (abc \o d)
    <3>1. abc \in Seq(Bits01)
      BY <1>3
    <3> QED BY <3>1, Assoc
  <2> QED BY <1>4, <2>2
<1> HIDE DEF V
<1>7. Holds(V, Len(W), x)
  <2>1. Len(W) \in Nat
    BY LenProperties
  <2> HIDE DEF x
  <2> QED BY <1>5, <1>6, <2>1, HoldsLonger
<1>8. /\ Holds(V, Len(W), a) /\ Holds(V, Len(W) + Len(a), b)
      /\ Holds(V, Len(W) + Len(a) + Len(b), c)
  <2>1. Len(W) \in Nat
    BY LenProperties
  <2>2. Holds(V, Len(W), a \o b \o c \o d)
    BY <1>7 DEF x, abc, ab
  <2> DEFINE i == Len(W)
  <2>3. i \in Nat /\ Holds(V, i, a \o b \o c \o d)
    BY <2>1, <2>2
  <2> HIDE DEF i
  <2>4. Holds(V, i, a) /\ Holds(V, i + Len(a), b) /\ Holds(V, i + Len(a) + Len(b), c)
    BY <1>5, <2>3, FourHeld
  <2> QED BY <2>4 DEF i
<1>9. Len(Wab) = (Len(W) + Len(a)) + Len(b)
  BY <1>1, <1>2
<1> QED BY <1>2, <1>3, <1>5, <1>6, <1>8, <1>9 DEF V, x, abc, ab, Wabc, Wab, Wa, Joined

AtEnd == pos >= Len(data)
Header(code) == bits \o BitsOf(IF AtEnd THEN 1 ELSE 0, 1) \o BitsOf(code, 2)
Grown(V, over, code, body) ==
  /\ V \in Seq(Bits01) /\ over \in Nat /\ over = Len(bits) + 3 + Len(body) /\ over <= Len(V)
  /\ Kept(V, Len(bits), BitsOf(IF AtEnd THEN 1 ELSE 0, 1))
  /\ Kept(V, Len(bits) + 1, BitsOf(code, 2)) /\ Holds(V, Len(bits) + 3, body)
  /\ IF AtEnd THEN Len(V) < over + ByteBits /\ Len(V) % ByteBits = 0 ELSE over = Len(V)
  /\ \E x \in Seq(Bits01) : V = bits \o x

(* The header of a block is three bits behind what there was.               *)
LEMMA HeaderIs ==
  ASSUME bits \in Seq(Bits01), NEW code \in {0, 1, 2}
  PROVE  /\ Header(code) \in Seq(Bits01) /\ Len(Header(code)) = Len(bits) + 3
         /\ Len(bits) \in Nat
<1> DEFINE f == IF AtEnd THEN 1 ELSE 0
           a == BitsOf(f, 1)
           c == BitsOf(code, 2)
<1>1. f \in Nat /\ code \in Nat
  OBVIOUS
<1> HIDE DEF f
<1>2. a \in Seq(Bits01) /\ Len(a) = 1 /\ c \in Seq(Bits01) /\ Len(c) = 2
  <2>1. 1 \in Nat /\ 2 \in Nat
    OBVIOUS
  <2> QED BY <1>1, <2>1, BitsAreBits
<1> HIDE DEF a, c
<1> DEFINE ba == bits \o a
           bac == ba \o c
<1>3. ba \in Seq(Bits01) /\ Len(ba) = Len(bits) + Len(a) /\ Len(bits) \in Nat
  BY <1>2, ConcatProperties, LenProperties
<1> HIDE DEF ba
<1>4. bac \in Seq(Bits01) /\ Len(bac) = Len(ba) + Len(c)
  BY <1>2, <1>3, ConcatProperties
<1> HIDE DEF bac
<1>5. Len(bac) = Len(bits) + 3
  <2> DEFINE x == Len(bits)
             y == Len(ba)
             z == Len(bac)
  <2>1. x \in Nat /\ y = x + 1 /\ z = y + 2
    BY <1>2, <1>3, <1>4
  <2> HIDE DEF x, y, z
  <2>2. z = x + 3
    BY <2>1
  <2> QED BY <2>2 DEF x, z
<1> QED BY <1>3, <1>4, <1>5 DEF Header, bac, ba, a, c, f

(* Emitting a block leaves what there was in place and adds its header, its *)
(* body and, at the end, padding.                                           *)
LEMMA GrownIs ==
  ASSUME bits \in Seq(Bits01), NEW code \in {0, 1, 2}, NEW body \in Seq(Bits01), NEW V,
         V = Header(code) \o body \o (IF AtEnd THEN Padding(Len(Header(code) \o body)) ELSE <<>>)
  PROVE  Grown(V, Len(bits) + 3 + Len(body), code, body)
<1> DEFINE f == IF AtEnd THEN 1 ELSE 0
           a == BitsOf(f, 1)
           c == BitsOf(code, 2)
           hb == Header(code) \o body
           pad == IF AtEnd THEN Padding(Len(hb)) ELSE <<>>
<1>1. f \in Nat /\ code \in Nat
  OBVIOUS
<1> HIDE DEF f
<1>2. a \in Seq(Bits01) /\ Len(a) = 1 /\ c \in Seq(Bits01) /\ Len(c) = 2
  <2>1. 1 \in Nat /\ 2 \in Nat
    OBVIOUS
  <2> QED BY <1>1, <2>1, BitsAreBits
<1>3. Header(code) = bits \o a \o c
  BY DEF Header, f
<1> HIDE DEF a, c
<1>4. Len(hb) \in Nat
  <2>1. hb \in Seq(Bits01)
    BY HeaderIs, ConcatProperties
  <2> HIDE DEF hb
  <2> QED BY <2>1, LenProperties
<1>5. /\ pad \in Seq(Bits01) /\ Len(pad) \in Nat
      /\ AtEnd => Len(pad) \in 0 .. (ByteBits - 1) /\ (Len(hb) + Len(pad)) % ByteBits = 0
      /\ ~AtEnd => Len(pad) = 0
  <2> DEFINE n == Len(hb)
             q == Padding(n)
  <2>1. n \in Nat
    BY <1>4
  <2> HIDE DEF n
  <2>2. q \in Seq(Bits01) /\ Len(q) \in 0 .. (ByteBits - 1) /\ (n + Len(q)) % ByteBits = 0
    BY <2>1, PadIs
  <2>3. Len(q) \in Nat
    BY <2>2, LenProperties
  <2> HIDE DEF q, hb
  <2>4. <<>> \in Seq(Bits01) /\ Len(<<>>) = 0
    BY EmptySeq
  <2>5. pad = IF AtEnd THEN q ELSE <<>>
    BY DEF n, q
  <2> HIDE DEF pad
  <2> QED BY <2>2, <2>3, <2>4, <2>5 DEF n
<1>6. hb = bits \o a \o c \o body /\ V = bits \o a \o c \o body \o pad
  BY <1>3
<1> HIDE DEF hb, pad
<1> DEFINE x == a \o c \o body \o pad
<1>7. /\ x \in Seq(Bits01) /\ V = bits \o x /\ V \in Seq(Bits01)
      /\ Holds(V, Len(bits), a) /\ Holds(V, Len(bits) + Len(a), c)
      /\ Holds(V, Len(bits) + Len(a) + Len(c), body)
      /\ Len(hb) = Len(bits \o a \o c) + Len(body) /\ Len(bits \o a \o c) = Len(bits) + Len(a) + Len(c)
      /\ Len(V) = Len(hb) + Len(pad)
  <2>1. /\ a \in Seq(Bits01) /\ c \in Seq(Bits01) /\ pad \in Seq(Bits01)
        /\ hb = bits \o a \o c \o body /\ V = hb \o pad
    BY <1>2, <1>5, <1>6
  <2>2. /\ x \in Seq(Bits01) /\ bits \o a \o c \o body \o pad = bits \o x
        /\ bits \o a \o c \o body \o pad \in Seq(Bits01)
        /\ Holds(bits \o a \o c \o body \o pad, Len(bits), a)
        /\ Holds(bits \o a \o c \o body \o pad, Len(bits) + Len(a), c)
        /\ Holds(bits \o a \o c \o body \o pad, Len(bits) + Len(a) + Len(c), body)
        /\ Len(bits \o a \o c \o body) = Len(bits \o a \o c) + Len(body)
        /\ Len(bits \o a \o c) = Len(bits) + Len(a) + Len(c)
        /\ Len(bits \o a \o c \o body \o pad) = Len(bits \o a \o c \o body) + Len(pad)
    <3> HIDE DEF hb, pad
    <3>1. a \in Seq(Bits01) /\ c \in Seq(Bits01) /\ pad \in Seq(Bits01)
      BY <2>1
    <3>2. Joined(bits, a, c, body, pad)
      BY <3>1, FiveParts
    <3> QED BY <3>2 DEF Joined, x
  <2> HIDE DEF x
  <2> QED BY <2>1, <2>2
<1> DEFINE m == Len(bits)
           k == Len(body)
           h == Len(hb)
           n == Len(V)
           p == Len(pad)
           r == Len(bits \o a \o c)
<1>8. /\ m \in Nat /\ k \in Nat /\ p \in Nat /\ h = r + k /\ r = (m + 1) + 2 /\ n = h + p
      /\ Holds(V, m, a) /\ Holds(V, m + 1, c) /\ Holds(V, (m + 1) + 2, body)
  BY <1>2, <1>5, <1>7, LenProperties
<1>9. /\ AtEnd => p \in 0 .. (ByteBits - 1) /\ (h + p) % ByteBits = 0
      /\ ~AtEnd => p = 0
  BY <1>5
<1> HIDE DEF m, k, h, n, p, r, x
<1>10. /\ (m + 1) + 2 = m + 3 /\ m + 1 \in Nat /\ m + 3 \in Nat /\ h = (m + 3) + k /\ h \in Nat /\ h <= n
       /\ n = h + p
  BY <1>8
<1>11. ByteBits \in Nat
  BY FormatAssumption
<1>12. AtEnd => n < h + ByteBits /\ n % ByteBits = 0
  BY <1>9, <1>10, <1>11
<1>13. ~AtEnd => h = n
  BY <1>8, <1>9
<1>14. Kept(V, m, a) /\ Kept(V, m + 1, c) /\ Holds(V, m + 3, body)
  BY <1>2, <1>8, <1>10 DEF Kept
<1>15. Grown(V, h, code, body)
  BY <1>7, <1>10, <1>12, <1>13, <1>14 DEF Grown, m, k, n, a, c, f
<1> QED BY <1>10, <1>15 DEF m, k, h

TypeNo(type) == CASE type = "stored" -> 0 [] type = "fixed" -> 1 [] OTHER -> 2
BodyOf(type) == CASE type = "stored" -> StoredBits(Header(0))
                  [] type = "fixed" -> WrittenSymbols(FixedLens, FixedDist)
                  [] OTHER -> DynamicBits
Adds(V, b) ==
  /\ b.at = Len(bits) /\ b.from = start /\ b.to = pos /\ b.final = AtEnd
  /\ IF AtEnd THEN Len(V) < b.over + ByteBits /\ Len(V) % ByteBits = 0 ELSE b.over = Len(V)
  /\ Block(V, b) /\ \E x \in Seq(Bits01) : V = bits \o x

(* So does emit_block for each type.                                        *)
LEMMA EmitGrows ==
  ASSUME Emits, bits \in Seq(Bits01), NEW type \in Types, EmitBlock(type)
  PROVE  Grown(bits', Len(bits) + 3 + Len(BodyOf(type)), TypeNo(type), BodyOf(type))
<1> DEFINE code == TypeNo(type)
           body == BodyOf(type)
<1>1. /\ code \in {0, 1, 2} /\ (type = "stored" => code = 0)
      /\ type \in {"stored", "fixed", "dynamic"}
  BY DEF Types, TypeNo
<1>2. bits' = Header(code) \o body \o (IF AtEnd THEN Padding(Len(Header(code) \o body)) ELSE <<>>)
  <2>1. body = CASE type = "stored" -> StoredBits(Header(code))
                 [] type = "fixed" -> WrittenSymbols(FixedLens, FixedDist)
                 [] OTHER -> DynamicBits
    BY <1>1 DEF BodyOf
  <2>2. Header(code) = bits \o BitsOf(IF pos >= Len(data) THEN 1 ELSE 0, 1)
                        \o BitsOf(CASE type = "stored" -> 0 [] type = "fixed" -> 1
                                    [] OTHER -> 2, 2)
    BY DEF Header, AtEnd, TypeNo
  <2> HIDE DEF body, code
  <2> QED BY <2>1, <2>2 DEF EmitBlock, AtEnd
<1>3. body \in Seq(Bits01)
  <2>1. CASE type = "stored"
    <3> DEFINE m == Len(bits)
    <3>1. m \in Nat /\ Len(Header(0)) = m + 3
      BY HeaderIs
    <3>2. pos - start <= BlockBytes
      BY <2>1 DEF EmitBlock
    <3> HIDE DEF m
    <3>3. StoredBits(Header(0)) \in Seq(Bits01)
      BY <3>1, <3>2, StoredBody
    <3> QED BY <2>1, <3>3 DEF BodyOf
  <2>2. CASE type = "fixed"
    <3>1. WrittenSymbols(FixedLens, FixedDist) \in Seq(Bits01)
      BY FixedSuits, WrittenIs DEF Emits
    <3> QED BY <2>2, <3>1 DEF BodyOf
  <2>3. CASE type = "dynamic"
    <3>1. PICK lens, hlit, lit, dist : Sends(lens, hlit, lit, dist) /\ Suits(lit, dist)
      BY DynamicIs DEF Emits
    <3> DEFINE p == DynamicParts(lens, hlit, lit, dist)
               p1 == p[1]
               p2 == p[2]
               p3 == p[3]
               p4 == p[4]
    <3>2. /\ DynamicBits = p1 \o p2 \o p3 \o p4
          /\ p1 \in Seq(Bits01) /\ p2 \in Seq(Bits01) /\ p3 \in Seq(Bits01) /\ p4 \in Seq(Bits01)
      BY <3>1, DynamicPartsAre
    <3> HIDE DEF p1, p2, p3, p4
    <3>3. p1 \o p2 \o p3 \o p4 \in Seq(Bits01)
      BY <3>2, FourSeq
    <3> QED BY <2>3, <3>2, <3>3 DEF BodyOf
  <2> QED BY <1>1, <2>1, <2>2, <2>3
<1> HIDE DEF code, body
<1>4. Grown(bits', Len(bits) + 3 + Len(body), code, body)
  BY <1>1, <1>2, <1>3, GrownIs
<1> QED BY <1>4 DEF code, body

(* The header it writes says which type the block is of and whether it is   *)
(* the last.                                                                *)
LEMMA FramedIs ==
  ASSUME Emits, NEW V, NEW over, NEW type \in Types, NEW body,
         Grown(V, over, TypeNo(type), body), NEW b, b.at = Len(bits), b.over = over,
         b.from = start, b.to = pos, b.final = AtEnd, b.type = type, bits \in Seq(Bits01)
  PROVE  Framed(V, b)
<1> DEFINE L == Len(data)
<1>1. L \in Nat
  BY LenProperties DEF Emits
<1>2. start \in 0 .. pos /\ pos \in 0 .. L
  BY DEF Emits
<1> HIDE DEF L
<1>3. start \in 0 .. L /\ pos \in 0 .. L /\ start <= pos
  BY <1>1, <1>2
<1>4. TypeCode(b) = TypeNo(type) /\ Flag(b) = (IF AtEnd THEN 1 ELSE 0) /\ b.final \in BOOLEAN
  <2>1. TypeCode(b) = TypeNo(type)
    BY DEF TypeCode, TypeNo
  <2>2. AtEnd \in BOOLEAN
    BY DEF AtEnd
  <2>3. Flag(b) = (IF AtEnd THEN 1 ELSE 0)
    BY Zenon DEF Flag
  <2> QED BY <2>1, <2>2, <2>3
<1>5. /\ b.at \in Nat /\ b.over \in Nat /\ b.over <= Len(V)
      /\ Kept(V, b.at, BitsOf(Flag(b), 1)) /\ Kept(V, b.at + 1, BitsOf(TypeCode(b), 2))
  BY <1>4, LenProperties DEF Grown
<1> QED BY <1>3, <1>4, <1>5 DEF Framed, L

(* emit_block writes a block that can be read back, whatever type it        *)
(* chooses.                                                                 *)
LEMMA EmitAdded ==
  ASSUME Emits, bits \in Seq(Bits01), NEW ends \in [0 .. Len(syms) -> 0 .. Len(data)],
         Spells(ends), NEW type \in Types, EmitBlock(type)
  PROVE  \E b : Adds(bits', b)
<1> DEFINE V == bits'
           at == Len(bits)
           body == BodyOf(type)
           over == Len(bits) + 3 + Len(body)
           Frame(b) == /\ b.at = at /\ b.over = over /\ b.from = start /\ b.to = pos
                       /\ b.final = AtEnd /\ b.type = type
<1>1. Grown(V, over, TypeNo(type), body) /\ type \in {"stored", "fixed", "dynamic"}
  BY EmitGrows DEF Types
<1>2. at \in Nat
  BY LenProperties
<1> HIDE DEF V, body
<1>3. over \in Nat /\ V \in Seq(Bits01) /\ Holds(V, at + 3, body)
  BY <1>1 DEF Grown
<1> HIDE DEF at, over
<1>4. ASSUME NEW b, Frame(b), Block(V, b) PROVE Adds(V, b)
  BY <1>1, <1>4 DEF Adds, Grown, at
<1>5. ASSUME NEW b, Frame(b) PROVE Framed(V, b)
  BY <1>1, <1>5, FramedIs DEF at
<1>6. over = at + 3 + Len(body)
  BY DEF over, at
<1>7. CASE type = "stored"
  <2> DEFINE b == [at |-> at, over |-> over, from |-> start, to |-> pos, final |-> AtEnd, type |-> type]
  <2>1. Frame(b)
    OBVIOUS
  <2> HIDE DEF b
  <2>2. body = StoredBits(Header(0))
    BY <1>7 DEF body, BodyOf
  <2>3. Len(Header(0)) = at + 3 /\ pos - start <= BlockBytes
    BY <1>7, HeaderIs DEF EmitBlock, at
  <2>4. Plain(V, b)
    <3>1. /\ Holds(V, at + 3, StoredBits(Header(0)))
          /\ b.at = at /\ b.from = start /\ b.to = pos
          /\ b.over = at + 3 + Len(StoredBits(Header(0)))
      BY <1>3, <1>6, <2>1, <2>2
    <3> QED BY <1>2, <1>3, <2>3, <3>1, StoredBody
  <2>5. Framed(V, b)
    BY <1>5, <2>1
  <2>6. Block(V, b)
    BY <1>7, <2>1, <2>4, <2>5 DEF Block
  <2> QED BY <1>4, <2>1, <2>6 DEF V
<1>8. CASE type = "fixed"
  <2>1. body = WrittenSymbols(FixedLens, FixedDist)
    BY <1>8 DEF body, BodyOf
  <2> DEFINE from == at + 3
  <2>2. from \in Nat /\ Holds(V, from, WrittenSymbols(FixedLens, FixedDist)) /\ over = from + Len(body)
    BY <1>2, <1>3, <1>6, <2>1
  <2> HIDE DEF from
  <2>3. PICK off : \A b : Filled(b, FixedLens, FixedDist, ends, off)
                         /\ b.over = from + Len(WrittenSymbols(FixedLens, FixedDist)) => Coded(V, b, from)
    BY <1>3, <2>2, FixedSuits, CodedFrom DEF Emits
  <2> DEFINE b == [at |-> at, over |-> over, from |-> start, to |-> pos, final |-> AtEnd, type |-> type,
                   syms |-> syms, lit |-> FixedLens, dist |-> FixedDist, ends |-> ends, off |-> off]
  <2>4. Frame(b) /\ Filled(b, FixedLens, FixedDist, ends, off) /\ b.lit = FixedLens /\ b.dist = FixedDist
    BY DEF Filled
  <2> HIDE DEF b
  <2>5. Coded(V, b, from)
    BY <2>1, <2>2, <2>3, <2>4
  <2>6. Framed(V, b)
    BY <1>5, <2>4
  <2>7. Block(V, b)
    BY <1>8, <2>4, <2>5, <2>6 DEF Block, from
  <2> QED BY <1>4, <2>4, <2>7 DEF V
<1>9. CASE type = "dynamic"
  <2>1. body = DynamicBits
    BY <1>9 DEF body, BodyOf
  <2>2. Holds(V, at + 3, DynamicBits)
    BY <1>3, <2>1
  <2>3. PICK lens, hlit, lit, dist, off : \A b :
           /\ Filled(b, lit, dist, ends, off) /\ b.lens = lens /\ b.hlit = hlit /\ b.at = at
           /\ b.over = at + 3 + Len(DynamicBits)
           => Tabled(V, b) /\ Coded(V, b, at + 13 + Len(TableBits(lens)))
    BY <1>2, <1>3, <2>2, DynamicBody
  <2> DEFINE b == [at |-> at, over |-> over, from |-> start, to |-> pos, final |-> AtEnd, type |-> type,
                   syms |-> syms, lit |-> lit, dist |-> dist, ends |-> ends, off |-> off,
                   lens |-> lens, hlit |-> hlit]
  <2>4. Frame(b) /\ Filled(b, lit, dist, ends, off) /\ b.lens = lens /\ b.hlit = hlit
    BY DEF Filled
  <2> HIDE DEF b
  <2>5. Tabled(V, b) /\ Coded(V, b, at + 13 + Len(TableBits(lens)))
    <3>1. /\ Filled(b, lit, dist, ends, off) /\ b.lens = lens /\ b.hlit = hlit /\ b.at = at
          /\ b.over = at + 3 + Len(DynamicBits)
      BY <1>6, <2>1, <2>4
    <3> QED BY <2>3, <3>1
  <2>6. Framed(V, b)
    BY <1>5, <2>4
  <2>7. Block(V, b)
    BY <1>9, <2>4, <2>5, <2>6 DEF Block
  <2> QED BY <1>4, <2>4, <2>7 DEF V
<1> QED BY <1>1, <1>7, <1>8, <1>9

(***************************************************************************)
(* The reader: where it stands in the blocks that were written.              *)
(***************************************************************************)
Text == data \in Seq(0 .. Literals - 1)
Reading(W, S) ==
  /\ Whole(W, S) /\ Stream(W) /\ Text
  /\ IF cut THEN Len(bits) + ByteBits <= Len(W) ELSE Len(bits) = Len(W)
AtHeader ==
  \E W, S : /\ Reading(W, S)
            /\ \E b \in S : /\ cursor = b.at /\ out = SubSeq(data, 1, b.from) /\ Has(cursor, 0)
AtSymbol(b, j) ==
  /\ j \in 0 .. Len(b.syms) /\ b.type # "stored" /\ last = b.final /\ tables = <<b.lit, b.dist>>
  /\ cursor = b.off[j] /\ out = SubSeq(data, 1, b.ends[j]) /\ Has(cursor, 0)
InBlock == \E W, S : Reading(W, S) /\ \E b \in S : \E j : AtSymbol(b, j)

(* A step of the reader leaves the stream as it is.                         *)
LEMMA ReadingStays ==
  ASSUME UNCHANGED <<encoder, bits, cut>>, NEW W, NEW S, Reading(W, S)
  PROVE  Reading(W, S)'
<1>1. data' = data /\ bits' = bits /\ cut' = cut
  BY DEF encoder
<1>2. Whole(W, S)' = Whole(W, S)
  BY <1>1, BlocksStay
<1> QED BY <1>1, <1>2 DEF Reading, Stream, Arrives, Text

(* When nothing is cut off, what the stream holds is there.                 *)
LEMMA HeldIsThere ==
  ASSUME NEW W, NEW S, Reading(W, S), ~cut, NEW i, NEW b, Kept(W, i, b)
  PROVE  Has(i, Len(b))
<1> DEFINE n == Len(bits)
           m == Len(W)
           k == Len(b)
<1>1. n \in Nat /\ m \in Nat /\ k \in Nat /\ i \in Nat /\ n = m /\ i + k <= m
  BY LenProperties DEF Reading, Stream, Kept, Holds
<1> HIDE DEF n, m, k
<1>2. i + k <= n
  BY <1>1
<1> QED BY <1>2 DEF Has, n, k

(* What is kept in part is refused only where the stream was cut.            *)
LEMMA Shorter ==
  ASSUME bits \in Seq(Bits01), NEW i \in Nat, NEW n \in Nat, NEW m \in Nat, m <= n, Has(i, n)
  PROVE  Has(i, m)
<1> DEFINE k == Len(bits)
<1>1. k \in Nat /\ i + n <= k
  BY LenProperties DEF Has
<1> HIDE DEF k
<1>2. i + m <= k
  BY <1>1
<1> QED BY <1>2 DEF Has, k

(* At the end of a block the reader is at the header of the next, or done   *)
(* with all of the data.                                                    *)
LEMMA EndOfBlock ==
  ASSUME NEW W, NEW S, Reading(W, S), NEW b \in S, UNCHANGED <<encoder, bits, cut>>,
         cursor' = b.over, Has(b.over, 0), out' = SubSeq(data, 1, b.to), last' = b.final,
         phase' = Finished(b.to)
  PROVE  \/ phase' = "header" /\ AtHeader'
         \/ phase' = "done" /\ out' = data' /\ ~cut'
<1>1. Reading(W, S)' /\ data' = data /\ bits' = bits /\ cut' = cut
  BY ReadingStays DEF encoder
<1>2. Block(W, b) /\ Framed(W, b)
  BY DEF Reading, Whole, Block
<1>3. CASE ~b.final
  <2>1. phase' = "header"
    BY <1>3 DEF Finished
  <2>2. PICK c \in S : c.at = b.over /\ c.from = b.to
    BY <1>3 DEF Reading, Whole, Leads
  <2>3. cursor' = c.at /\ out' = SubSeq(data', 1, c.from) /\ Has(cursor, 0)'
    BY <1>1, <2>2 DEF Has
  <2>4. AtHeader'
    BY <1>1, <2>3 DEF AtHeader
  <2> QED BY <2>1, <2>4
<1>4. CASE b.final
  <2>1. b.to = Len(data) /\ Len(W) < b.over + ByteBits
    BY <1>4 DEF Reading, Whole
  <2>2. phase' = "done"
    BY <1>4, <2>1 DEF Finished
  <2>3. SubSeq(data, 1, Len(data)) = data
    BY DEF Reading, Text
  <2>4. ~cut
    <3> DEFINE n == Len(bits)
               m == Len(W)
               o == b.over
    <3>1. n \in Nat /\ m \in Nat /\ o \in Nat /\ ByteBits \in Nat /\ m < o + ByteBits /\ o + 0 <= n
          /\ (cut => n + ByteBits <= m)
      BY <1>2, <2>1, FormatAssumption, LenProperties DEF Reading, Stream, Framed, Has
    <3> HIDE DEF n, m, o
    <3> QED BY <3>1
  <2> QED BY <1>1, <2>1, <2>2, <2>3, <2>4
<1>5. b.final \in BOOLEAN
  BY <1>2 DEF Framed
<1> QED BY <1>3, <1>4, <1>5

(* Reading one symbol: on in the block, at its end, or at the end of a      *)
(* stream that was cut off.                                                 *)
LEMMA SymbolStep ==
  ASSUME InBlock, phase = "symbols", ReadSymbol
  PROVE  \/ phase' = "symbols" /\ InBlock'
         \/ phase' = "header" /\ AtHeader'
         \/ phase' = "done" /\ out' = data' /\ ~cut'
         \/ phase' = "refused" /\ cut'
<1>1. PICK W, S : Reading(W, S) /\ \E b \in S : \E j : AtSymbol(b, j)
  BY DEF InBlock
<1>2. PICK b \in S : \E j : AtSymbol(b, j)
  BY <1>1
<1>3. PICK j : AtSymbol(b, j)
  BY <1>2
<1>4. Block(W, b) /\ Framed(W, b) /\ Stream(W) /\ Text /\ bits \in Seq(Bits01)
  BY <1>1 DEF Reading, Whole, Block, Stream
<1>5. PICK body : Coded(W, b, body)
  BY <1>3, <1>4 DEF AtSymbol, Block, Framed, Types
<1> DEFINE n == Len(b.syms)
           L == Len(data)
           sym == b.syms[j + 1]
           lit == tables[1]
           dist == tables[2]
           e == CodeBits(lit, EndBlock)
<1>6. lit = b.lit /\ dist = b.dist /\ cursor = b.off[j] /\ out = SubSeq(data, 1, b.ends[j]) /\ j \in 0 .. n
  BY <1>3 DEF AtSymbol
<1> HIDE DEF lit, dist
<1>7. /\ n \in Nat /\ b.syms \in Seq(Symbols) /\ b.ends \in [0 .. n -> 0 .. L] /\ b.off \in [0 .. n -> Nat]
      /\ \A k \in 1 .. n : /\ SymOk(b.syms[k]) /\ SymCodes(b.syms[k], lit, dist)
                           /\ StandsFor(b.syms[k], b.ends[k - 1], b.ends[k])
                           /\ Kept(W, b.off[k - 1], SymbolBits(b.syms[k], lit, dist))
                           /\ b.off[k] = b.off[k - 1] + Len(SymbolBits(b.syms[k], lit, dist))
      /\ b.ends[n] = b.to
      /\ CodeFor(lit, EndBlock) /\ Kept(W, b.off[n], e) /\ b.over = b.off[n] + Len(e)
  BY <1>5, <1>6, LenProperties DEF Coded
<1>8. cursor \in Nat /\ b.ends[j] \in 0 .. L
  BY <1>6, <1>7
<1>9. ASSUME ~cut, NEW x, Kept(W, cursor, x) PROVE Has(cursor, Len(x))
  BY <1>1, <1>9, HeldIsThere
<1>10. CASE j = n
  <2> DEFINE w == Len(e)
  <2>1. Kept(W, cursor, e) /\ Holds(W, cursor, e)
    BY <1>6, <1>7, <1>10 DEF Kept
  <2>2. IF Has(cursor, w)
        THEN /\ cursor' = cursor + w /\ phase' = Finished(Len(out))
             /\ UNCHANGED <<encoder, bits, out, tables, cut, last>>
        ELSE GaveUp
    BY <1>4, <1>7, <1>8, <2>1, EndRead DEF lit
  <2>3. CASE Has(cursor, w)
    <3>1. cursor' = b.over /\ last' = b.final /\ out' = SubSeq(data, 1, b.to)
      BY <1>3, <1>6, <1>7, <1>10, <2>2, <2>3 DEF AtSymbol
    <3>2. Has(b.over, 0)
      <4> DEFINE k == Len(bits)
      <4>1. w \in Nat /\ k \in Nat /\ cursor + w <= k /\ b.over = cursor + w
        BY <1>4, <1>6, <1>7, <1>10, <2>1, <2>3, LenProperties DEF Has, Kept
      <4> HIDE DEF k, w
      <4>2. b.over + 0 <= k
        BY <1>8, <4>1
      <4> QED BY <4>2 DEF Has, k
    <3>3. Len(out) = b.to
      <4>1. b.to \in 0 .. L
        BY <1>4 DEF Framed
      <4>2. Len(SubSeq(data, 1, b.to)) = b.to
        BY <1>4, <4>1, OutIs DEF Text
      <4> QED BY <1>6, <1>7, <1>10, <4>2
    <3>4. phase' = Finished(b.to) /\ UNCHANGED <<encoder, bits, cut>>
      BY <2>2, <2>3, <3>3
    <3> QED BY <1>1, <3>1, <3>2, <3>4, EndOfBlock
  <2>4. CASE ~Has(cursor, w)
    <3>1. cut
      BY <1>9, <2>1, <2>4
    <3> QED BY <2>2, <2>4, <3>1 DEF GaveUp
  <2> QED BY <2>3, <2>4
<1>11. CASE j # n
  <2> DEFINE x == SymbolBits(sym, lit, dist)
             w == Len(x)
             p == b.ends[j]
             q == b.ends[j + 1]
  <2>1. j + 1 \in 1 .. n /\ (j + 1) - 1 = j
    BY <1>6, <1>7, <1>11
  <2>2. /\ sym \in Symbols /\ SymOk(sym) /\ SymCodes(sym, lit, dist) /\ StandsFor(sym, p, q)
        /\ Kept(W, cursor, x) /\ b.off[j + 1] = cursor + w /\ p \in 0 .. L /\ q \in 0 .. L
    <3> DEFINE k == j + 1
    <3>1. k \in 1 .. n /\ k - 1 = j
      BY <2>1
    <3> HIDE DEF k, x
    <3>2. b.syms[k] \in Symbols
      BY <1>7, <3>1, ElementOfSeq
    <3>3. /\ SymOk(b.syms[k]) /\ SymCodes(b.syms[k], lit, dist)
          /\ StandsFor(b.syms[k], b.ends[j], b.ends[k])
          /\ Kept(W, b.off[j], SymbolBits(b.syms[k], lit, dist))
          /\ b.off[k] = b.off[j] + Len(SymbolBits(b.syms[k], lit, dist))
      BY <1>7, <3>1
    <3>4. b.ends[j] \in 0 .. L /\ b.ends[k] \in 0 .. L
      BY <1>8, <1>7, <3>1
    <3> QED BY <1>6, <3>2, <3>3, <3>4 DEF k, x
  <2>3. Holds(W, cursor, x) /\ out = SubSeq(data, 1, p) /\ w \in Nat
    BY <1>6, <2>2, LenProperties DEF Kept
  <2> HIDE DEF sym, p, q, w
  <2>4. IF Has(cursor, w)
        THEN /\ out' = SubSeq(data, 1, q) /\ cursor' = cursor + w
             /\ UNCHANGED <<phase, encoder, bits, tables, cut, last>>
        ELSE GaveUp
    <3>1. CASE sym.dist = 0
      BY <1>4, <1>8, <2>2, <2>3, <3>1, LiteralRead DEF lit, dist, w, Text
    <3>2. CASE sym.dist # 0
      BY <1>4, <1>8, <2>2, <2>3, <3>2, MatchRead DEF lit, dist, w, Text
    <3> QED BY <3>1, <3>2
  <2>5. CASE Has(cursor, w)
    <3>1. Reading(W, S)' /\ data' = data /\ bits' = bits
      BY <1>1, <2>4, <2>5, ReadingStays DEF encoder
    <3>2. Has(cursor + w, 0)
      <4> DEFINE k == Len(bits)
      <4>1. k \in Nat /\ cursor + w <= k
        BY <1>4, <2>5, LenProperties DEF Has
      <4> HIDE DEF k
      <4>2. (cursor + w) + 0 <= k
        BY <1>8, <2>3, <4>1
      <4> QED BY <4>2 DEF Has, k
    <3>3. AtSymbol(b, j + 1)'
      <4>1. j + 1 \in 0 .. n
        BY <1>7, <2>1
      <4>2. /\ b.type # "stored" /\ last' = b.final /\ tables' = <<b.lit, b.dist>>
        BY <1>3, <2>4, <2>5 DEF AtSymbol
      <4>3. cursor' = b.off[j + 1] /\ out' = SubSeq(data', 1, b.ends[j + 1])
        BY <2>2, <2>4, <2>5, <3>1 DEF q
      <4>4. Has(cursor, 0)'
        BY <2>4, <2>5, <3>1, <3>2 DEF Has
      <4> QED BY <4>1, <4>2, <4>3, <4>4 DEF AtSymbol
    <3>4. InBlock' /\ phase' = "symbols"
      BY <2>4, <2>5, <3>1, <3>3 DEF InBlock
    <3> QED BY <3>4
  <2>6. CASE ~Has(cursor, w)
    <3>1. cut
      BY <1>9, <2>2, <2>6 DEF w
    <3> QED BY <2>4, <2>6, <3>1 DEF GaveUp
  <2> QED BY <2>5, <2>6
<1> QED BY <1>10, <1>11

(* A number that is kept is read back, where the stream is long enough.      *)
LEMMA KeptNumber ==
  ASSUME NEW W, Stream(W), NEW i, NEW v \in Nat, NEW n \in Nat, v < 2 ^ n,
         Kept(W, i, BitsOf(v, n)), Has(i, n)
  PROVE  Number(i, n) = v
BY BitsComeBack DEF Stream, Kept

(* The pieces before one of them end where it begins.                       *)
LEMMA TimesUp ==
  ASSUME NEW n \in Nat, NEW k \in 1 .. n, NEW w \in Nat
  PROVE  (k - 1) * w \in Nat /\ (k - 1) * w + w <= n * w
<1>1. k - 1 \in Nat /\ n - k \in Nat
  OBVIOUS
<1> DEFINE x == (k - 1) * w
           y == (n - k) * w
           z == n * w
<1>2. x \in Nat /\ y \in Nat /\ z = x + w + y
  BY <1>1
<1> HIDE DEF x, y, z
<1>3. x \in Nat /\ x + w <= z
  BY <1>2
<1> QED BY <1>3 DEF x, z

(* Bytes that are added to the output continue it.                          *)
LEMMA OutGrows ==
  ASSUME Text, NEW p \in 0 .. Len(data), NEW q \in p .. Len(data), NEW f,
         f = [k \in 1 .. (q - p) |-> data[p + k]]
  PROVE  SubSeq(data, 1, p) \o f = SubSeq(data, 1, q)
<1> DEFINE n == Len(data)
           D == 0 .. (Literals - 1)
           s == SubSeq(data, 1, p)
           t == SubSeq(data, 1, q)
           m == q - p
<1>1. n \in Nat /\ p \in 0 .. n /\ q \in p .. n /\ m \in Nat /\ q \in 0 .. n /\ p + m = q
  BY LenProperties DEF Text
<1>2. \A k \in 1 .. n : data[k] \in D
  BY ElementOfSeq DEF Text
<1>3. f \in Seq(D) /\ Len(f) = m /\ \A k \in 1 .. m : f[k] = data[p + k]
  <2>1. \A k \in 1 .. m : p + k \in 1 .. n
    BY <1>1
  <2> HIDE DEF n, D, m
  <2>2. f \in [1 .. m -> D] /\ \A k \in 1 .. m : f[k] = data[p + k]
    BY <1>2, <2>1 DEF m
  <2> QED BY <1>1, <2>2, SeqOver
<1>4. /\ s \in Seq(D) /\ Len(s) = p /\ \A k \in 1 .. p : s[k] = data[k]
      /\ t \in Seq(D) /\ Len(t) = q /\ \A k \in 1 .. q : t[k] = data[k]
  <2>1. Len(s) = p /\ Len(t) = q
    BY <1>1, OutIs DEF Text
  <2>2. s \in Seq(D) /\ t \in Seq(D) /\ (\A k \in 1 .. p : s[k] = data[k]) /\ \A k \in 1 .. q : t[k] = data[k]
    <3> HIDE DEF D
    <3>1. data \in Seq(D)
      BY DEF Text, D
    <3>2. s \in Seq(D) /\ t \in Seq(D)
      BY <1>1, <3>1, SubSeqProperties
    <3>3. (\A k \in 1 .. p : s[k] = data[k]) /\ \A k \in 1 .. q : t[k] = data[k]
      BY <1>1, <3>1, SubSeqProperties
    <3> QED BY <3>2, <3>3
  <2> QED BY <2>1, <2>2
<1> HIDE DEF n, D, s, t, m
<1> DEFINE r == s \o f
<1>5. r \in Seq(D) /\ Len(r) = p + m /\ \A k \in 1 .. (p + m) : r[k] = IF k <= p THEN s[k] ELSE f[k - p]
  BY <1>3, <1>4, ConcatProperties
<1> HIDE DEF r
<1>6. \A k \in 1 .. q : r[k] = t[k]
  <2> TAKE k \in 1 .. q
  <2>1. CASE k <= p
    <3>1. k \in 1 .. p /\ k \in 1 .. (p + m)
      BY <1>1, <2>1
    <3>2. r[k] = s[k]
      BY <1>5, <2>1, <3>1
    <3> QED BY <1>4, <3>1, <3>2
  <2>2. CASE ~(k <= p)
    <3>1. k - p \in 1 .. m /\ p + (k - p) = k
      BY <1>1, <2>2
    <3>2. r[k] = f[k - p] /\ f[k - p] = data[p + (k - p)]
      BY <1>1, <1>3, <1>5, <2>2, <3>1
    <3> QED BY <1>4, <3>1, <3>2
  <2> QED BY <2>1, <2>2
<1>7. r = t
  <2>1. Len(r) = Len(t) /\ Len(r) = q
    BY <1>1, <1>4, <1>5
  <2> QED BY <1>4, <1>5, <1>6, <2>1, SeqEqual
<1> QED BY <1>7 DEF r, s, t

Ended(W, S, b) ==
  /\ UNCHANGED <<encoder, bits, cut>> /\ cursor' = b.over /\ Has(b.over, 0)
  /\ out' = SubSeq(data, 1, b.to) /\ last' = b.final /\ phase' = Finished(b.to)
TurnedDown == phase' = "refused" /\ cut' /\ UNCHANGED <<encoder, bits>>

(* Reading a stored block copies it, or finds the stream cut off.           *)
LEMMA StoredRead ==
  ASSUME NEW W, NEW S, Reading(W, S), NEW b \in S, Framed(W, b), Plain(W, b),
         cursor = b.at, out = SubSeq(data, 1, b.from), last' = b.final, ReadStored
  PROVE  Ended(W, S, b) \/ TurnedDown
<1> DEFINE i == SpanAt(b)
           m == 2 ^ SpanBits
           span == b.to - b.from
           u == (m - 1) - span
           body == i + 2 * SpanBits
           L == Len(data)
           k == Len(bits)
           y == span * ByteBits
<1>1. /\ Stream(W) /\ Text /\ bits \in Seq(Bits01) /\ k \in Nat /\ L \in Nat
      /\ b.from \in 0 .. L /\ b.to \in 0 .. L /\ b.from <= b.to /\ b.at \in Nat
      /\ SpanBits \in Nat /\ ByteBits \in Nat \ {0} /\ m \in Nat \ {0}
  BY FormatAssumption, Doubles, LenProperties DEF Reading, Stream, Framed, Text
<1>2. /\ i \in Nat /\ span < m /\ Kept(W, i, BitsOf(span, SpanBits))
      /\ Kept(W, i + SpanBits, BitsOf(u, SpanBits))
      /\ \A h \in 1 .. span : Kept(W, body + (h - 1) * ByteBits, BitsOf(data[b.from + h], ByteBits))
      /\ b.over = body + y
  BY DEF Plain, Kept
<1>3. i = cursor + 3 + Len(Padding(cursor + 3))
  BY DEF SpanAt
<1> HIDE DEF m, L, i, k
<1>4. span \in Nat /\ u \in Nat /\ u < m /\ b.from + span = b.to /\ b.from + span <= L
      /\ i + SpanBits \in Nat /\ body \in Nat /\ (i + SpanBits) + SpanBits = body
  <2>1. span \in Nat /\ b.from + span = b.to /\ b.from + span <= L
    BY <1>1
  <2>2. i \in Nat /\ span < m
    BY <1>2
  <2> HIDE DEF span
  <2>3. u \in Nat /\ u < m
    BY <1>1, <2>1, <2>2
  <2> QED BY <1>1, <2>1, <2>2, <2>3
<1> HIDE DEF span, u
<1>5. Len(out) = b.from
  BY <1>1, OutIs DEF Text, L
<1>6. y \in Nat
  BY <1>1, <1>4
<1> HIDE DEF y
<1>7. Len(BitsOf(u, SpanBits)) = SpanBits
  BY <1>1, <1>4, BitsAreBits
<1>8. /\ Has(i, 2 * SpanBits) <=> i + 2 * SpanBits <= k
      /\ Has(body, y) <=> body + y <= k
      /\ Has(i + SpanBits, SpanBits) <=> (i + SpanBits) + SpanBits <= k
      /\ Has(i, SpanBits) <=> i + SpanBits <= k
      /\ Has(b.over, 0) <=> b.over + 0 <= k
  BY DEF Has, k
<1>9. ASSUME ~cut PROVE Has(i, 2 * SpanBits) /\ Has(body, y)
  <2>1. Has(i + SpanBits, SpanBits)
    BY <1>2, <1>7, <1>9, HeldIsThere
  <2>2. b.over <= k
    BY <1>9 DEF Framed, Reading, k
  <2> HIDE DEF body
  <2> QED BY <1>2, <1>4, <1>8, <2>1, <2>2 DEF body
<1>10. ASSUME Has(i, 2 * SpanBits)
       PROVE  Number(i, SpanBits) = span /\ Number(i + SpanBits, SpanBits) = u
  <2>1. Has(i, SpanBits) /\ Has(i + SpanBits, SpanBits)
    BY <1>1, <1>2, <1>4, <1>8, <1>10
  <2>2. u < 2 ^ SpanBits /\ span < 2 ^ SpanBits
    BY <1>2, <1>4 DEF m
  <2>3. i + SpanBits \in Nat
    BY <1>4
  <2>4. Number(i, SpanBits) = span
    BY <1>1, <1>2, <1>4, <2>1, <2>2, KeptNumber
  <2>5. Number(i + SpanBits, SpanBits) = u
    BY <1>1, <1>2, <1>4, <2>1, <2>2, KeptNumber
  <2> QED BY <2>4, <2>5
<1>11. CASE Has(i, 2 * SpanBits) /\ Has(body, y)
  <2> DEFINE f == [h \in 1 .. span |-> Number(body + (h - 1) * ByteBits, ByteBits)]
  <2>1. Number(i, SpanBits) = span /\ Number(i + SpanBits, SpanBits) = (2 ^ SpanBits - 1) - span
    BY <1>10, <1>11 DEF u, m
  <2>2. ~(Len(out) + span > Len(data))
    BY <1>1, <1>4, <1>5 DEF L
  <2>3. /\ out' = out \o f /\ cursor' = body + y
        /\ phase' = Finished(Len(out) + span)
        /\ UNCHANGED <<encoder, bits, tables, cut>>
    BY <1>3, <1>11, <2>1, <2>2 DEF ReadStored, y
  <2>4. \A h \in 1 .. span : Number(body + (h - 1) * ByteBits, ByteBits) = data[b.from + h]
    <3> TAKE h \in 1 .. span
    <3> DEFINE x == (h - 1) * ByteBits
               a == body + x
               v == data[b.from + h]
    <3>1. x \in Nat /\ x + ByteBits <= y
      BY <1>1, <1>4, TimesUp DEF y
    <3>2. Kept(W, a, BitsOf(v, ByteBits))
      BY <1>2
    <3> HIDE DEF x
    <3>3. Has(a, ByteBits)
      <4>1. a + ByteBits <= k
        BY <1>1, <1>4, <1>6, <1>8, <1>11, <3>1
      <4> QED BY <4>1 DEF Has, k
    <3>4. v \in Nat /\ v < 2 ^ ByteBits
      <4>1. b.from + h \in 1 .. L
        BY <1>1, <1>4
      <4> QED BY <1>1, <4>1, ByteIs DEF Text, L
    <3> HIDE DEF a, v
    <3>5. Number(a, ByteBits) = v
      BY <1>1, <3>2, <3>3, <3>4, KeptNumber
    <3> QED BY <3>5 DEF a, v, x
  <2>5. f = [h \in 1 .. (b.to - b.from) |-> data[b.from + h]]
    BY <2>4 DEF span
  <2> HIDE DEF f
  <2>6. out \o f = SubSeq(data, 1, b.to)
    <3>1. b.from \in 0 .. Len(data) /\ b.to \in b.from .. Len(data)
      BY <1>1 DEF L
    <3> QED BY <1>1, <2>5, <3>1, OutGrows
  <2>7. Len(out) + span = b.to /\ Has(b.over, 0)
    <3>1. b.over + 0 <= k
      BY <1>1, <1>2, <1>4, <1>6, <1>8, <1>11
    <3> QED BY <1>4, <1>5, <1>8, <3>1
  <2> QED BY <1>2, <2>3, <2>6, <2>7 DEF Ended
<1>12. CASE ~(Has(i, 2 * SpanBits) /\ Has(body, y))
  <2>1. cut
    BY <1>9, <1>12
  <2>2. Refuse
    <3>1. CASE ~Has(i, 2 * SpanBits)
      BY <1>3, <3>1 DEF ReadStored
    <3>2. CASE Has(i, 2 * SpanBits)
      <4>1. Number(i, SpanBits) = span /\ ~Has(body, span * ByteBits)
        BY <1>10, <1>12, <3>2 DEF y
      <4> QED BY <1>3, <4>1 DEF ReadStored
    <3> QED BY <3>1, <3>2
  <2> QED BY <2>1, <2>2 DEF Refuse, TurnedDown
<1> QED BY <1>11, <1>12

(* With the tables of a block, its symbols can be read.                     *)
LEMMA TakenUp ==
  ASSUME NEW W, NEW S, Reading(W, S), NEW b \in S, b.type # "stored", NEW from,
         Coded(W, b, from), last' = b.final, Has(from, 0), out = SubSeq(data, 1, b.from),
         TakeUp(from, b.lit, b.dist)
  PROVE  phase' = "symbols" /\ InBlock'
<1>1. /\ cursor' = from /\ phase' = "symbols" /\ tables' = <<b.lit, b.dist>>
      /\ UNCHANGED <<encoder, bits, cut>> /\ out' = out
  BY DEF TakeUp
<1>2. Reading(W, S)' /\ data' = data /\ bits' = bits
  BY <1>1, ReadingStays DEF encoder
<1>3. AtSymbol(b, 0)'
  <2>1. 0 \in 0 .. Len(b.syms) /\ b.off[0] = from /\ b.ends[0] = b.from
    <3>1. Len(b.syms) \in Nat
      BY LenProperties DEF Coded
    <3> QED BY <3>1 DEF Coded
  <2>2. Has(cursor, 0)'
    BY <1>1, <1>2 DEF Has
  <2> QED BY <1>1, <1>2, <2>1, <2>2 DEF AtSymbol
<1>4. InBlock'
  BY <1>2, <1>3 DEF InBlock
<1> QED BY <1>1, <1>4

(* Reading the tables of a dynamic block gives those that were written, or  *)
(* finds the stream cut off.                                                *)
LEMMA DynamicRead ==
  ASSUME NEW W, NEW S, Reading(W, S), NEW b \in S, Framed(W, b), Tabled(W, b),
         b.type = "dynamic", Coded(W, b, b.at + 13 + Len(TableBits(b.lens))),
         cursor = b.at, out = SubSeq(data, 1, b.from), last' = b.final, ReadDynamic
  PROVE  (phase' = "symbols" /\ InBlock') \/ TurnedDown
<1> DEFINE hdist == Len(b.lens) - b.hlit
           v == b.hlit - (EndBlock + 1)
           u == hdist - 1
           n == Len(b.lens)
           N == Cardinality(LitSyms)
           M == Cardinality(DistSyms)
           w == Len(TableBits(b.lens))
           k == Len(bits)
           from == cursor + 13
           e == 2 ^ 5
           r == ReadTables(from, n)
<1>1. /\ Stream(W) /\ bits \in Seq(Bits01) /\ k \in Nat /\ cursor \in Nat /\ EndBlock \in Nat
      /\ N \in Nat /\ M \in Nat
  <2>1. Stream(W) /\ bits \in Seq(Bits01) /\ k \in Nat /\ cursor \in Nat
    BY LenProperties DEF Reading, Stream, Framed
  <2> HIDE DEF k
  <2>2. EndBlock \in Nat /\ N \in Nat /\ M \in Nat
    BY SizesAre, FS_CardinalityType
  <2> QED BY <2>1, <2>2
<1>2. /\ Sendable(b.lens) /\ b.hlit \in (EndBlock + 1) .. N /\ hdist \in 1 .. M /\ v < e /\ u < e
      /\ b.lit = [s \in 0 .. (b.hlit - 1) |-> b.lens[s + 1]]
      /\ b.dist = [s \in 0 .. (hdist - 1) |-> b.lens[b.hlit + s + 1]]
      /\ LeftOver(b.lit) = 0 /\ LeftOver(b.dist) = 0
      /\ Kept(W, cursor + 3, BitsOf(v, 5)) /\ Kept(W, cursor + 8, BitsOf(u, 5))
      /\ Kept(W, from, TableBits(b.lens))
  BY DEF Tabled
<1> HIDE DEF N, M, e, k
<1>3. n \in Nat /\ w \in Nat
  <2>1. b.lens \in Seq(0 .. 15)
    BY <1>2 DEF Sendable
  <2>2. w \in Nat
    BY <1>2, TableBitsSeq
  <2> QED BY <2>1, <2>2, LenProperties
<1> HIDE DEF n, w
<1>4. /\ b.hlit \in Nat /\ hdist \in Nat /\ b.hlit + hdist = n /\ v \in Nat /\ u \in Nat
      /\ v + EndBlock + 1 = b.hlit /\ u + 1 = hdist /\ b.hlit <= N /\ hdist <= M
  <2>1. hdist = n - b.hlit
    BY DEF n
  <2>2. b.hlit \in (EndBlock + 1) .. N /\ hdist \in 1 .. M
    BY <1>2
  <2> DEFINE c == b.hlit
  <2> HIDE DEF hdist
  <2>3. c \in (EndBlock + 1) .. N /\ hdist \in 1 .. M /\ hdist = n - c
    BY <2>1, <2>2
  <2> HIDE DEF c
  <2>4. /\ c \in Nat /\ hdist \in Nat /\ c + hdist = n /\ c - (EndBlock + 1) \in Nat
        /\ (c - (EndBlock + 1)) + EndBlock + 1 = c /\ c <= N /\ hdist <= M
        /\ hdist - 1 \in Nat /\ (hdist - 1) + 1 = hdist
    BY <1>1, <1>3, <2>3
  <2> QED BY <2>4 DEF c
<1> HIDE DEF v, u, hdist
<1>5. /\ Has(cursor + 3, 10) <=> (cursor + 3) + 10 <= k
      /\ Has(cursor + 3, 5) <=> (cursor + 3) + 5 <= k
      /\ Has(cursor + 8, 5) <=> (cursor + 8) + 5 <= k
      /\ Has(from, 0) <=> from + 0 <= k
      /\ Has(from, w) <=> from + w <= k
      /\ Has(from + w, 0) <=> (from + w) + 0 <= k
  BY DEF Has, k
<1>6. Len(BitsOf(u, 5)) = 5
  <2>1. 5 \in Nat
    OBVIOUS
  <2> QED BY <1>4, <2>1, BitsAreBits
<1>7. ASSUME ~cut PROVE Has(cursor + 3, 10) /\ Has(from, w)
  <2>1. Has(cursor + 8, 5)
    <3>1. Kept(W, cursor + 8, BitsOf(u, 5))
      BY <1>2
    <3>2. Has(cursor + 8, Len(BitsOf(u, 5)))
      BY <1>7, <3>1, HeldIsThere
    <3> QED BY <1>6, <3>2
  <2>2. Has(from, w)
    BY <1>2, <1>7, HeldIsThere DEF w
  <2> QED BY <1>1, <1>5, <2>1, <2>2
<1>8. ASSUME Has(cursor + 3, 10)
      PROVE  /\ Number(cursor + 3, 5) = v /\ Number(cursor + 8, 5) = u
             /\ IF Has(from, w) THEN r.lens = b.lens /\ r.at = from + w ELSE r.lens = None
  <2>1. Has(cursor + 3, 5) /\ Has(cursor + 8, 5) /\ Has(from, 0) /\ cursor + 3 \in Nat /\ cursor + 8 \in Nat
        /\ from \in Nat
    BY <1>1, <1>5, <1>8
  <2>2. 5 \in Nat /\ v < 2 ^ 5 /\ u < 2 ^ 5
    BY <1>2 DEF e
  <2> DEFINE i == cursor + 3
             j == cursor + 8
             q == 5
  <2>3. /\ Stream(W) /\ v \in Nat /\ u \in Nat /\ q \in Nat /\ v < 2 ^ q /\ u < 2 ^ q
        /\ Kept(W, i, BitsOf(v, q)) /\ Kept(W, j, BitsOf(u, q)) /\ Has(i, q) /\ Has(j, q)
    BY <1>1, <1>2, <1>4, <2>1, <2>2
  <2> HIDE DEF i, j, q
  <2>4. Number(i, q) = v /\ Number(j, q) = u
    BY <2>3, KeptNumber
  <2>5. IF Has(from, w) THEN r.lens = b.lens /\ r.at = from + w ELSE r.lens = None
    <3>1. Holds(W, from, TableBits(b.lens))
      BY <1>2 DEF Kept
    <3> HIDE DEF from
    <3> QED BY <1>1, <1>2, <2>1, <3>1, LengthsComeBack DEF w, n
  <2> QED BY <2>4, <2>5 DEF i, j, q
<1>9. b.lens # None
  <2>1. b.lens \in Seq(0 .. 15) /\ 0 .. 15 \subseteq Nat
    BY <1>2 DEF Sendable
  <2>2. b.lens \in Seq(Nat)
    BY <2>1
  <2> QED BY <2>2, FormatAssumption
<1> DEFINE nlen == Number(cursor + 3, 5) + EndBlock + 1
           ndist == Number(cursor + 8, 5) + 1
           read == ReadTables(cursor + 13, nlen + ndist)
           lit == [s \in 0 .. (nlen - 1) |-> read.lens[s + 1]]
           dist == [s \in 0 .. (ndist - 1) |-> read.lens[nlen + s + 1]]
<1>10. ReadDynamic =
         IF \/ ~Has(cursor + 3, 10)
            \/ nlen > N \/ ndist > M
            \/ read.lens = None THEN Refuse
         ELSE IF lit[EndBlock] = 0 \/ ~Usable(lit) \/ ~Usable(dist) THEN Refuse
         ELSE TakeUp(read.at, lit, dist)
  BY DEF ReadDynamic, N, M
<1>11. CASE Has(cursor + 3, 10) /\ Has(from, w)
  <2>1. nlen = b.hlit /\ ndist = hdist
    BY <1>4, <1>8, <1>11
  <2>2. read = r
    BY <1>4, <2>1
  <2> HIDE DEF nlen, ndist, r
  <2>3. read.lens = b.lens /\ read.at = from + w
    BY <1>8, <1>11, <2>2
  <2>4. lit = b.lit /\ dist = b.dist
    <3> HIDE DEF read
    <3> QED BY <1>2, <2>1, <2>3
  <2> HIDE DEF read, lit, dist
  <2>5. lit[EndBlock] # 0
    <3>1. CodeFor(lit, EndBlock) /\ MaxBits \in Nat
      BY <2>4, FormatAssumption DEF Coded
    <3> QED BY <3>1 DEF CodeFor
  <2>6. Usable(lit) /\ Usable(dist)
    BY <1>2, <2>4 DEF Usable, Complete
  <2>7. TakeUp(from + w, b.lit, b.dist)
    <3>1. nlen <= N /\ ndist <= M /\ ~(nlen > N) /\ ~(ndist > M)
      BY <1>1, <1>4, <2>1
    <3> QED BY <1>9, <1>10, <1>11, <2>3, <2>4, <2>5, <2>6, <3>1
  <2>8. Coded(W, b, from + w)
    BY DEF w
  <2>9. Has(from + w, 0)
    BY <1>1, <1>3, <1>5, <1>11
  <2> DEFINE a == from + w
  <2>10. TakeUp(a, b.lit, b.dist) /\ Coded(W, b, a) /\ Has(a, 0)
    BY <2>7, <2>8, <2>9
  <2> HIDE DEF a
  <2> QED BY <2>10, TakenUp
<1>12. CASE ~(Has(cursor + 3, 10) /\ Has(from, w))
  <2>1. cut
    BY <1>7, <1>12
  <2>2. Refuse
    <3>1. CASE ~Has(cursor + 3, 10)
      BY <1>10, <3>1
    <3>2. CASE Has(cursor + 3, 10)
      <4>1. nlen = b.hlit /\ ndist = hdist
        BY <1>4, <1>8, <3>2
      <4>2. read = r
        BY <1>4, <4>1
      <4> HIDE DEF nlen, ndist, r
      <4>3. read.lens = None
        BY <1>8, <1>12, <3>2, <4>2
      <4> HIDE DEF read, lit, dist
      <4> QED BY <1>10, <4>3
    <3> QED BY <3>1, <3>2
  <2> QED BY <2>1, <2>2 DEF Refuse, TurnedDown
<1> QED BY <1>11, <1>12

(* The reader takes the header of a block that was written.                  *)
LEMMA HeaderStep ==
  ASSUME AtHeader, phase = "header", ReadHeader
  PROVE  \/ phase' = "symbols" /\ InBlock'
         \/ phase' = "header" /\ AtHeader'
         \/ phase' = "done" /\ out' = data' /\ ~cut'
         \/ phase' = "refused" /\ cut'
<1>1. PICK W, S : /\ Reading(W, S)
                  /\ \E b \in S : /\ cursor = b.at /\ out = SubSeq(data, 1, b.from) /\ Has(cursor, 0)
  BY DEF AtHeader
<1>2. PICK b \in S : cursor = b.at /\ out = SubSeq(data, 1, b.from) /\ Has(cursor, 0)
  BY <1>1
<1>3. Block(W, b) /\ Framed(W, b) /\ Stream(W) /\ bits \in Seq(Bits01)
  BY <1>1 DEF Reading, Whole, Block, Stream
<1> DEFINE k == Len(bits)
           f == Flag(b)
           t == TypeCode(b)
<1>4. /\ cursor \in Nat /\ k \in Nat /\ f \in {0, 1} /\ t \in {0, 1, 2} /\ (f = 1 <=> b.final)
      /\ (t = 0 <=> b.type = "stored") /\ (t = 1 <=> b.type = "fixed")
      /\ (t = 2 <=> b.type = "dynamic") /\ b.final \in BOOLEAN
      /\ Kept(W, cursor, BitsOf(f, 1)) /\ Kept(W, cursor + 1, BitsOf(t, 2))
  <2>1. b.type \in {"stored", "fixed", "dynamic"} /\ b.final \in BOOLEAN
    BY <1>3 DEF Framed, Types
  <2>2. f \in {0, 1} /\ (f = 1 <=> b.final)
    BY <2>1 DEF Flag
  <2>3. /\ t \in {0, 1, 2} /\ (t = 0 <=> b.type = "stored") /\ (t = 1 <=> b.type = "fixed")
        /\ (t = 2 <=> b.type = "dynamic")
    BY <2>1 DEF TypeCode
  <2> HIDE DEF f, t
  <2>4. cursor \in Nat /\ k \in Nat
    BY <1>2, <1>3, LenProperties DEF Framed
  <2>5. Kept(W, cursor, BitsOf(f, 1)) /\ Kept(W, cursor + 1, BitsOf(t, 2))
    BY <1>2, <1>3 DEF Framed, f, t
  <2> QED BY <2>1, <2>2, <2>3, <2>4, <2>5
<1> HIDE DEF k, f, t
<1>5. ASSUME ~cut PROVE Has(cursor, 3)
  <2>1. Len(BitsOf(t, 2)) = 2
    <3>1. t \in Nat /\ 2 \in Nat
      BY <1>4
    <3> QED BY <3>1, BitsAreBits
  <2>2. Has(cursor + 1, Len(BitsOf(t, 2)))
    BY <1>1, <1>4, <1>5, HeldIsThere
  <2>3. (cursor + 1) + 2 <= k
    BY <2>1, <2>2 DEF Has, k
  <2>4. cursor + 3 <= k
    BY <1>4, <2>3
  <2> QED BY <2>4 DEF Has, k
<1>6. ASSUME Has(cursor, 3) PROVE Number(cursor, 1) = f /\ Number(cursor + 1, 2) = t
  <2>1. cursor + 3 <= k
    BY <1>6 DEF Has, k
  <2>2. cursor + 1 <= k /\ (cursor + 1) + 2 <= k /\ cursor + 1 \in Nat
    BY <1>4, <2>1
  <2>3. Has(cursor, 1) /\ Has(cursor + 1, 2)
    BY <2>2 DEF Has, k
  <2>4. f \in Nat /\ t \in Nat /\ 1 \in Nat /\ 2 \in Nat /\ f < 2 ^ 1 /\ t < 2 ^ 2
    <3>1. 2 ^ 1 = 2 /\ 2 ^ 2 = 4
      OBVIOUS
    <3> QED BY <1>4, <3>1
  <2> DEFINE i == cursor
             j == cursor + 1
             p == 1
             q == 2
  <2>5. /\ Stream(W) /\ f \in Nat /\ t \in Nat /\ p \in Nat /\ q \in Nat /\ f < 2 ^ p /\ t < 2 ^ q
        /\ Kept(W, i, BitsOf(f, p)) /\ Kept(W, j, BitsOf(t, q)) /\ Has(i, p) /\ Has(j, q)
    BY <1>3, <1>4, <2>3, <2>4
  <2> HIDE DEF i, j, p, q
  <2>6. Number(i, p) = f /\ Number(j, q) = t
    BY <2>5, KeptNumber
  <2> QED BY <2>6 DEF i, j, p, q
<1>7. CASE ~Has(cursor, 3)
  <2>1. cut /\ Refuse
    BY <1>5, <1>7 DEF ReadHeader
  <2> QED BY <2>1 DEF Refuse
<1>8. CASE Has(cursor, 3)
  <2>1. last' = b.final
    <3>1. last' = (Number(cursor, 1) = 1)
      BY <1>8 DEF ReadHeader
    <3>2. (Number(cursor, 1) = 1) = b.final
      BY <1>4, <1>6, <1>8
    <3> QED BY <3>1, <3>2
  <2>2. /\ t = 0 => ReadStored
        /\ t = 1 => TakeUp(cursor + 3, FixedLens, FixedDist)
        /\ t = 2 => ReadDynamic
    <3>1. Number(cursor + 1, 2) = t
      BY <1>6, <1>8
    <3> QED BY <1>4, <1>8, <3>1 DEF ReadHeader
  <2>3. CASE t = 0
    <3>1. Plain(W, b) /\ ReadStored
      BY <1>3, <1>4, <2>2, <2>3 DEF Block
    <3>2. Ended(W, S, b) \/ TurnedDown
      BY <1>1, <1>2, <1>3, <2>1, <3>1, StoredRead
    <3>3. CASE Ended(W, S, b)
      BY <1>1, <3>3, EndOfBlock DEF Ended
    <3>4. CASE TurnedDown
      BY <3>4 DEF TurnedDown
    <3> QED BY <3>2, <3>3, <3>4
  <2>4. CASE t = 1
    <3>1. b.lit = FixedLens /\ b.dist = FixedDist /\ Coded(W, b, b.at + 3) /\ b.type # "stored"
      BY <1>3, <1>4, <2>4 DEF Block
    <3> DEFINE from == cursor + 3
    <3>2. Coded(W, b, from) /\ TakeUp(from, b.lit, b.dist)
      BY <1>2, <2>2, <2>4, <3>1
    <3>3. Has(from, 0)
      <4>1. cursor + 3 <= k
        BY <1>8 DEF Has, k
      <4>2. (cursor + 3) + 0 <= k
        BY <1>4, <4>1
      <4> QED BY <4>2 DEF Has, k
    <3> HIDE DEF from
    <3>4. phase' = "symbols" /\ InBlock'
      BY <1>1, <1>2, <2>1, <3>1, <3>2, <3>3, TakenUp
    <3> QED BY <3>4
  <2>5. CASE t = 2
    <3>1. /\ Tabled(W, b) /\ Coded(W, b, b.at + 13 + Len(TableBits(b.lens))) /\ ReadDynamic
          /\ b.type = "dynamic"
      BY <1>3, <1>4, <2>2, <2>5 DEF Block
    <3>2. (phase' = "symbols" /\ InBlock') \/ TurnedDown
      BY <1>1, <1>2, <1>3, <2>1, <3>1, DynamicRead
    <3> QED BY <3>2 DEF TurnedDown
  <2> QED BY <1>4, <2>3, <2>4, <2>5
<1> QED BY <1>7, <1>8

(***************************************************************************)
(* The invariant of a stream, phase by phase.                                *)
(***************************************************************************)
Fresh == out = <<>> /\ cursor = 0 /\ ~cut
Gathering ==
  /\ Text /\ start \in 0 .. pos /\ Fresh
  /\ \E W, S, p : W = bits /\ p = start /\ Open(W, S, p)
Sealed == Text /\ Fresh /\ \E W, S : W = bits /\ Whole(W, S)
Sending == data \in LengthLists /\ Fresh /\ (bits = <<>> \/ bits = TableBits(data))

(* Emitting a block keeps the stream one that spells the data so far, and   *)
(* after the last one all of it.                                            *)
LEMMA EmitStep ==
  ASSUME SpelledInv, SymsOk, Gathering, NEW type \in Types, EmitBlock(type)
  PROVE  (phase' = "gather" /\ Gathering') \/ (phase' = "cut" /\ Sealed')
<1>1. /\ phase = "gather" /\ start' = pos /\ UNCHANGED <<data, pos, cursor, out, cut>>
      /\ phase' = IF AtEnd THEN "cut" ELSE "gather"
  BY DEF EmitBlock, AtEnd
<1>2. Emits
  BY <1>1 DEF SpelledInv, ChainsInv, SymsOk, Gathering, Text, Emits, Gathered
<1>3. PICK S : Open(bits, S, start)
  BY DEF Gathering
<1>4. PICK ends \in [0 .. Len(syms) -> 0 .. Len(data)] : Spells(ends)
  BY <1>1 DEF SpelledInv, BlockSpelled
<1>5. bits \in Seq(Bits01)
  BY <1>3 DEF Open
<1>6. PICK b : Adds(bits', b)
  BY <1>2, <1>4, <1>5, EmitAdded
<1>7. PICK x \in Seq(Bits01) : bits' = bits \o x
  BY <1>6 DEF Adds
<1>8. PICK V : V = bits'
  OBVIOUS
<1>9. V = bits \o x /\ Block(bits \o x, b) /\ b.at = Len(bits) /\ b.from = start /\ b.to = pos
      /\ b.final = AtEnd
  BY <1>6, <1>7, <1>8 DEF Adds
<1> DEFINE T == S \cup {b}
<1>10. pos \in 0 .. Len(data) /\ Len(data) \in Nat /\ pos \in Nat
  <2>1. Len(data) \in Nat
    BY LenProperties DEF Gathering, Text
  <2>2. pos \in 0 .. Len(data)
    BY <1>1 DEF SpelledInv
  <2> QED BY <2>1, <2>2
<1>11. CASE AtEnd
  <2>1. b.final
    BY <1>9, <1>11
  <2>2. b.to = Len(data)
    BY <1>9, <1>10, <1>11 DEF AtEnd
  <2>3. Len(V) < b.over + ByteBits /\ Len(V) % ByteBits = 0
    BY <1>6, <1>8, <1>11 DEF Adds
  <2>4. Whole(V, T)
    <3>1. Len(bits \o x) < b.over + ByteBits /\ Len(bits \o x) % ByteBits = 0
      BY <1>9, <2>3
    <3>2. Whole(bits \o x, S \cup {b})
      BY <1>3, <1>9, <2>1, <2>2, <3>1, Closed
    <3> QED BY <1>9, <3>2
  <2>5. Whole(V, T)'
    BY <1>1, <2>4, BlocksStay
  <2>6. Sealed'
    BY <1>1, <1>8, <2>5 DEF Sealed, Gathering, Fresh, Text
  <2> QED BY <1>1, <1>11, <2>6
<1>12. CASE ~AtEnd
  <2>1. ~b.final
    BY <1>9, <1>12
  <2>2. b.over = Len(V)
    BY <1>6, <1>8, <1>12 DEF Adds
  <2>3. Open(V, T, pos)
    <3>1. b.over = Len(bits \o x)
      BY <1>9, <2>2
    <3>2. Open(bits \o x, S \cup {b}, b.to)
      BY <1>3, <1>9, <2>1, <3>1, Added
    <3> QED BY <1>9, <3>2
  <2>4. PICK p : p = pos
    OBVIOUS
  <2>5. Open(V, T, p)
    BY <2>3, <2>4
  <2>6. Open(V, T, p)'
    BY <1>1, <2>5, BlocksStay
  <2>7. pos \in 0 .. pos
    BY <1>10
  <2>8. Gathering'
    BY <1>1, <1>8, <2>4, <2>6, <2>7 DEF Gathering, Fresh, Text
  <2> QED BY <1>1, <1>12, <2>8
<1> QED BY <1>11, <1>12

(* Gathering a symbol leaves the stream as it is.                           *)
LEMMA GatherStep ==
  ASSUME SpelledInv, Gathering, Gather
  PROVE  phase' = "gather" /\ Gathering'
<1>1. /\ phase = "gather" /\ phase' = phase
      /\ UNCHANGED <<data, start, bits, cursor, out, cut>>
  BY DEF Gather
<1>2. pos' >= pos /\ pos \in Nat /\ pos' \in Nat
  <2> DEFINE m == FindMatch
             n == IF m.length >= MinMatch THEN m.length ELSE 1
  <2>1. pos' = pos + n /\ RoomLeft
    BY DEF Gather
  <2>2. m.length \in 0 .. MaxMatch /\ MaxMatch \in Nat /\ pos \in Nat
    <3>1. /\ data \in Seq(0 .. Literals - 1) /\ pos \in Nat /\ pos < Len(data) /\ chains \in Chains(pos)
      BY <1>1, <2>1 DEF SpelledInv, ChainsInv, RoomLeft
    <3> QED BY <3>1, FoundUpTo, FormatAssumption
  <2> HIDE DEF m
  <2>3. n \in Nat
    BY <2>2
  <2> HIDE DEF n
  <2> QED BY <2>1, <2>2, <2>3
<1>3. PICK W, S, p : W = bits /\ p = start /\ Open(W, S, p)
  BY DEF Gathering
<1>4. Open(W, S, p)'
  BY <1>1, <1>3, BlocksStay
<1>5. start \in 0 .. pos'
  BY <1>2 DEF Gathering
<1>6. Gathering'
  BY <1>1, <1>3, <1>4, <1>5 DEF Gathering, Fresh, Text
<1> QED BY <1>1, <1>6

(* A delivered stream, cut off or not, is read from its first header.       *)
LEMMA DeliverStep ==
  ASSUME Sealed, Deliver
  PROVE  phase' = "header" /\ AtHeader'
<1>1. /\ phase' = "header" /\ UNCHANGED <<encoder, cursor, out, tables, last>> /\ data' = data
      /\ \/ UNCHANGED <<bits, cut>>
         \/ /\ \E n \in 0 .. (Len(bits) \div ByteBits - 1) : bits' = SubSeq(bits, 1, n * ByteBits)
            /\ cut' = TRUE
  BY DEF Deliver, encoder
<1>2. PICK W, S : W = bits /\ Whole(W, S)
  BY DEF Sealed
<1>3. Whole(W, S)' /\ W \in Seq(Bits01)
  BY <1>1, <1>2, BlocksStay DEF Whole
<1> DEFINE m == Len(W)
           k == Len(bits')
<1>4. /\ bits' \in Seq(Bits01) /\ k \in Nat /\ m \in Nat /\ k <= m /\ \A i \in 1 .. k : bits'[i] = W[i]
      /\ IF cut' THEN k + ByteBits <= m ELSE k = m
  <2>1. m \in Nat /\ ByteBits \in Nat \ {0}
    BY <1>3, FormatAssumption, LenProperties
  <2>2. CASE UNCHANGED <<bits, cut>>
    BY <1>2, <1>3, <2>1, <2>2 DEF Sealed, Fresh
  <2>3. CASE /\ \E n \in 0 .. (Len(bits) \div ByteBits - 1) : bits' = SubSeq(bits, 1, n * ByteBits)
             /\ cut' = TRUE
    <3>1. PICK n \in 0 .. (m \div ByteBits - 1) : bits' = SubSeq(W, 1, n * ByteBits)
      BY <1>2, <2>3
    <3> DEFINE y == n * ByteBits
               B == ByteBits
               q == m \div B
    <3>2. y \in Nat /\ y + B <= m
      <4>1. m = B * q + (m % B) /\ q \in Int /\ m % B \in Nat
        <5>1. B \in Nat /\ B > 0 /\ m \in Int
          BY <2>1
        <5> HIDE DEF B, m
        <5> QED BY <5>1
      <4>2. n \in 0 .. (q - 1) /\ B \in Nat
        BY <2>1, <3>1
      <4> DEFINE r == m % B
      <4>3. r \in Nat
        BY <4>1
      <4> HIDE DEF q, B, r
      <4>4. q \in Nat /\ n + 1 \in 1 .. q
        BY <4>1, <4>2
      <4>5. ((n + 1) - 1) * B \in Nat /\ ((n + 1) - 1) * B + B <= q * B
        <5> DEFINE j == n + 1
        <5>1. j \in 1 .. q
          BY <4>4
        <5> HIDE DEF j
        <5>2. (j - 1) * B \in Nat /\ (j - 1) * B + B <= q * B
          BY <4>2, <4>4, <5>1, TimesUp
        <5> QED BY <5>2 DEF j
      <4>6. (n + 1) - 1 = n
        BY <4>2, <4>4
      <4>7. n * B \in Nat /\ n * B + B <= q * B
        BY <4>5, <4>6
      <4>8. q * B = B * q /\ B * q \in Nat
        BY <4>2, <4>4
      <4> DEFINE z == B * q
                 x == n * B
      <4>9. x \in Nat /\ z \in Nat /\ x + B <= z /\ m = z + r
        BY <4>1, <4>7, <4>8 DEF r
      <4> HIDE DEF z, x, m
      <4>10. x \in Nat /\ x + B <= m
        BY <4>2, <4>3, <4>9
      <4> QED BY <4>10 DEF x, B
    <3> HIDE DEF y
    <3>3. y <= m /\ \A i \in 1 .. y : W[i] \in Bits01
      <4>1. y <= m
        BY <2>1, <3>2
      <4>2. \A i \in 1 .. y : i \in 1 .. m
        BY <2>1, <3>2, <4>1
      <4> QED BY <1>3, <4>1, <4>2, ElementOfSeq
    <3>4. bits' = SubSeq(W, 1, y)
      BY <3>1 DEF y
    <3>5. bits' \in Seq(Bits01) /\ Len(bits') = y /\ \A i \in 1 .. y : bits'[i] = W[i]
      <4>1. 1 \in Int /\ y \in Int /\ y - 1 + 1 = y /\ \A i \in 1 .. y : 1 + i - 1 = i
        BY <3>2
      <4>2. /\ SubSeq(W, 1, y) \in Seq(Bits01)
            /\ Len(SubSeq(W, 1, y)) = IF 1 <= y THEN y - 1 + 1 ELSE 0
            /\ \A i \in 1 .. y - 1 + 1 : SubSeq(W, 1, y)[i] = W[1 + i - 1]
        BY ONLY <3>3, <4>1, SubSeqProperties
      <4>3. Len(SubSeq(W, 1, y)) = y
        BY <3>2, <4>1, <4>2
      <4> QED BY <3>4, <4>1, <4>2, <4>3
    <3> QED BY <2>1, <2>3, <3>2, <3>3, <3>5
  <2> QED BY <1>1, <2>2, <2>3
<1>5. Stream(W)'
  BY <1>3, <1>4 DEF Stream, Arrives
<1>6. Reading(W, S)'
  <2>1. Text'
    BY <1>1 DEF Sealed, Text
  <2>2. (IF cut THEN Len(bits) + ByteBits <= Len(W) ELSE Len(bits) = Len(W))'
    BY <1>4
  <2> QED BY <1>3, <1>5, <2>1, <2>2 DEF Reading
<1>7. PICK b \in S : b.at = 0 /\ b.from = 0
  BY <1>2 DEF Whole, Leads
<1>8. cursor' = b.at /\ out' = SubSeq(data', 1, b.from) /\ Has(cursor, 0)'
  <2>1. cursor' = 0 /\ out' = <<>>
    BY <1>1 DEF Sealed, Fresh
  <2>2. SubSeq(data', 1, 0) = <<>>
    BY SubSeqEmpty
  <2>3. Has(cursor, 0)'
    <3>1. k \in Nat /\ 0 + 0 <= k
      BY <1>4
    <3> QED BY <2>1, <3>1 DEF Has
  <2> QED BY <1>7, <2>1, <2>2, <2>3
<1>9. AtHeader'
  BY <1>6, <1>8 DEF AtHeader
<1> QED BY <1>1, <1>9

(* Lengths that are sent on their own.                                       *)
LEMMA ReceiveStep ==
  ASSUME Sending, ReceiveLengths
  PROVE  phase' = "done" /\ out' = data' /\ ~cut'
<1>1. Sendable(data)
  BY AlphabetAssumption DEF Sending, Sendable, ValuesOf
<1> DEFINE n == Len(bits)
           r == ReadTables(0, Len(data))
<1>2. bits = TableBits(data)
  BY DEF Sending, ReceiveLengths
<1>3. bits \in Seq(Bits01) /\ n \in Nat
  BY <1>1, <1>2, TableBitsSeq
<1>4. PICK W : W = bits
  OBVIOUS
<1>5. Stream(W) /\ Holds(W, 0, TableBits(data)) /\ 0 \in Nat
  <2>1. 0 + n <= n
    BY <1>3
  <2>2. \A i \in 1 .. n : 0 + i = i
    BY <1>3
  <2> QED BY <1>2, <1>3, <1>4, <2>1, <2>2 DEF Stream, Arrives, Holds
<1>6. Has(0, 0) /\ Has(0, Len(TableBits(data)))
  BY <1>2, <1>3 DEF Has
<1>7. r.lens = data
  BY <1>1, <1>5, <1>6, LengthsComeBack
<1>8. r.lens # None
  <2>1. data \in Seq(0 .. 15) /\ 0 .. 15 \subseteq Nat
    BY <1>1 DEF Sendable
  <2>2. data \in Seq(Nat)
    BY <2>1
  <2> QED BY <1>7, <2>2, FormatAssumption
<1> HIDE DEF r
<1>9. phase' = "done" /\ out' = r.lens /\ UNCHANGED <<encoder, cut>>
  BY <1>8 DEF ReceiveLengths, r
<1> QED BY <1>7, <1>9 DEF encoder, Sending, Fresh

StreamInv ==
  /\ SpelledInv /\ SymsOk
  /\ phase = "gather" => Gathering
  /\ phase = "cut" => Sealed
  /\ phase = "header" => AtHeader
  /\ phase = "symbols" => InBlock
  /\ phase = "lengths" => Sending
  /\ phase = "done" => out = data /\ ~cut
  /\ phase = "refused" => cut

(* Before anything is written, the stream is empty and open.                *)
LEMMA StreamStarts ==
  ASSUME StreamInit
  PROVE  StreamInv
<1>1. SpelledInv
  BY SpelledStart
<1>2. SymsOk
  <2>1. syms = <<>> /\ Len(syms) = 0
    BY EmptySeq DEF StreamInit
  <2> QED BY <2>1 DEF SymsOk
<1>3. phase \in {"gather", "lengths"} /\ Fresh /\ bits = <<>> /\ pos = 0 /\ start = 0
  BY DEF StreamInit, Fresh
<1>4. ASSUME phase = "gather" PROVE Gathering
  <2>1. Text
    BY <1>4, FormatAssumption DEF StreamInit, Text
  <2>2. Open(<<>>, {}, 0)
    BY EmptySeq DEF Open
  <2> QED BY <1>3, <2>1, <2>2 DEF Gathering
<1>5. ASSUME phase = "lengths" PROVE Sending
  BY <1>3, <1>5 DEF Sending, StreamInit
<1> QED BY <1>1, <1>2, <1>3, <1>4, <1>5 DEF StreamInv

(* What does not change stays.                                              *)
LEMMA StreamStays ==
  ASSUME StreamInv, UNCHANGED stream
  PROVE  StreamInv'
<1>1. /\ UNCHANGED <<phase, data, pos, start, chains, syms, bits, cursor, out, tables, last, cut>>
  BY DEF stream
<1>2. SpelledInv'
  BY SpelledNext DEF StreamInv
<1>3. SymsOk'
  BY <1>1 DEF StreamInv, SymsOk, SymOk
<1>4. \A W, S : (Reading(W, S) => Reading(W, S)') /\ (Whole(W, S) => Whole(W, S)')
  BY <1>1, ReadingStays, BlocksStay DEF encoder
<1>5. \A W, S, p : Open(W, S, p) => Open(W, S, p)'
  BY <1>1, BlocksStay
<1>6. (phase = "gather" => Gathering)' /\ (phase = "cut" => Sealed)' /\ (phase = "lengths" => Sending)'
  BY <1>1, <1>4, <1>5 DEF StreamInv, Gathering, Sealed, Sending, Fresh, Text
<1>7. (phase = "header" => AtHeader)'
  BY <1>1, <1>4 DEF StreamInv, AtHeader, Has
<1>8. (phase = "symbols" => InBlock)'
  BY <1>1, <1>4 DEF StreamInv, InBlock, AtSymbol, Has
<1> QED BY <1>1, <1>2, <1>3, <1>6, <1>7, <1>8 DEF StreamInv

(* Every step of the writer and of the reader keeps the invariant.          *)
LEMMA StreamSteps ==
  ASSUME StreamInv, StreamNext
  PROVE  StreamInv'
<1>1. SpelledInv'
  BY SpelledNext DEF StreamInv
<1>2. CASE Gather
  <2>1. SymsOk'
    BY <1>2, GatherOk DEF StreamInv, SpelledInv
  <2>2. phase' = "gather" /\ Gathering'
    BY <1>2, GatherStep DEF StreamInv, Gather
  <2> QED BY <1>1, <2>1, <2>2 DEF StreamInv
<1>3. ASSUME NEW type \in Types, EmitBlock(type) PROVE StreamInv'
  <2>1. SymsOk'
    <3>1. syms' = <<>> /\ Len(<<>>) = 0
      BY <1>3, EmptySeq DEF EmitBlock
    <3> QED BY <3>1 DEF SymsOk
  <2>2. (phase' = "gather" /\ Gathering') \/ (phase' = "cut" /\ Sealed')
    BY <1>3, EmitStep DEF StreamInv, EmitBlock
  <2> QED BY <1>1, <2>1, <2>2 DEF StreamInv
<1>4. CASE Deliver
  <2>1. phase' = "header" /\ AtHeader'
    BY <1>4, DeliverStep DEF StreamInv, Deliver
  <2>2. SymsOk'
    BY <2>1 DEF SymsOk
  <2> QED BY <1>1, <2>1, <2>2 DEF StreamInv
<1>5. CASE ReadHeader \/ ReadSymbol
  <2>1. \/ phase' = "symbols" /\ InBlock'
        \/ phase' = "header" /\ AtHeader'
        \/ phase' = "done" /\ out' = data' /\ ~cut'
        \/ phase' = "refused" /\ cut'
    BY <1>5, HeaderStep, SymbolStep DEF StreamInv, ReadHeader, ReadSymbol
  <2>2. SymsOk'
    BY <2>1 DEF SymsOk
  <2> QED BY <1>1, <2>1, <2>2 DEF StreamInv
<1>6. CASE SendLengths
  <2>1. phase' = "lengths" /\ Sending'
    BY <1>6 DEF StreamInv, SendLengths, Sending, Fresh, encoder
  <2>2. SymsOk'
    BY <2>1 DEF SymsOk
  <2> QED BY <1>1, <2>1, <2>2 DEF StreamInv
<1>7. CASE ReceiveLengths
  <2>1. phase' = "done" /\ out' = data' /\ ~cut'
    BY <1>7, ReceiveStep DEF StreamInv, ReceiveLengths
  <2>2. SymsOk'
    BY <2>1 DEF SymsOk
  <2> QED BY <1>1, <2>1, <2>2 DEF StreamInv
<1>8. CASE Over
  BY <1>8, StreamStays DEF Over
<1> QED BY <1>2, <1>3, <1>4, <1>5, <1>6, <1>7, <1>8 DEF StreamNext

(* deflate_raw against inflate_raw: whatever the input, the alphabets, the   *)
(* window and the limits, a stream that arrives whole gives the input back   *)
(* and one whose end is missing is refused, whichever matches were found and *)
(* whichever form each block was written in; a list of code lengths comes    *)
(* back as it was sent.                                                      *)
THEOREM StreamAlwaysComesBack == StreamSpec => []StreamComesBack
<1>1. StreamInit => StreamInv
  BY StreamStarts
<1>2. StreamInv /\ [StreamNext]_stream => StreamInv'
  BY StreamSteps, StreamStays
<1>3. StreamInv => StreamComesBack
  BY DEF StreamInv, StreamComesBack
<1> QED BY <1>1, <1>2, <1>3, PTL DEF StreamSpec
=============================================================================
