---------------------------- MODULE CodesProofs -----------------------------
(***************************************************************************)
(* What deflate_raw and inflate_raw agree on, for alphabets and limits of   *)
(* any size.                                                                 *)
(***************************************************************************)
EXTENDS Deflate, FiniteSetTheorems, FunctionTheorems, WellFoundedInduction, SequenceTheorems, TLAPS

(***************************************************************************)
(* Counting up, and functions defined by it.                                *)
(***************************************************************************)
(* What holds of 0, and of each number up to n when it does of the one      *)
(* before, holds of all of them.                                            *)
LEMMA Upward ==
  ASSUME NEW n \in Nat, NEW P, 0 \in P, \A i \in 1 .. n : i - 1 \in P => i \in P
  PROVE  0 .. n \subseteq P
<1> DEFINE S == (0 .. n) \ P
           T == {0 .. j : j \in S}
<1> SUFFICES ASSUME S # {} PROVE FALSE
  OBVIOUS
<1>1. T # {} /\ T \subseteq FiniteSubsetsOf(Nat)
  <2>1. ASSUME NEW j \in S PROVE 0 .. j \in FiniteSubsetsOf(Nat)
    BY FS_Interval DEF FiniteSubsetsOf
  <2> QED BY <2>1
<1>2. IsWellFoundedOn(StrictSubsetOrdering(Nat), FiniteSubsetsOf(Nat))
  BY FS_StrictSubsetOrderingWellFounded
<1>3. PICK x \in T : \A y \in T : ~(<<y, x>> \in StrictSubsetOrdering(Nat))
  <2> HIDE DEF T
  <2> QED BY <1>1, <1>2, WFMin
<1>4. PICK i \in S : x = 0 .. i
  OBVIOUS
<1>5. i # 0 /\ i - 1 \in S
  OBVIOUS
<1>6. 0 .. (i - 1) \in T
  BY <1>5
<1>7. /\ 0 .. (i - 1) \subseteq 0 .. i /\ 0 .. (i - 1) # 0 .. i
      /\ 0 .. (i - 1) \in SUBSET Nat /\ 0 .. i \in SUBSET Nat
  <2>1. i \in Nat /\ i \in 0 .. i /\ i \notin 0 .. (i - 1)
    OBVIOUS
  <2> QED
    BY <2>1
<1> QED
  BY <1>3, <1>4, <1>6, <1>7 DEF StrictSubsetOrdering

(* A set of numbers that is bounded and not empty has a greatest element.   *)
LEMMA Greatest ==
  ASSUME NEW n \in Nat, NEW S \in SUBSET (0 .. n), S # {}
  PROVE  \E m \in S : \A j \in S : j <= m
<1> DEFINE P == {i \in 0 .. n : \E m \in S : i <= m}
<1> SUFFICES ASSUME \A m \in S : \E j \in S : ~(j <= m) PROVE FALSE
  OBVIOUS
<1>1. 0 \in P
  <2>1. PICK m \in S : TRUE
    OBVIOUS
  <2>2. 0 <= m
    OBVIOUS
  <2> QED
    BY <2>2
<1>2. ASSUME NEW i \in 1 .. n, i - 1 \in P PROVE i \in P
  <2>1. PICK m \in S : i - 1 <= m
    BY <1>2
  <2>2. PICK j \in S : ~(j <= m)
    OBVIOUS
  <2>3. i <= j
    BY <2>1, <2>2
  <2> QED
    BY <2>3
<1>3. n \in P
  <2> HIDE DEF P
  <2> QED BY <1>1, <1>2, Upward
<1> QED
  BY <1>3

(* A function that says how each value follows from the one before defines  *)
(* one from 0 on.                                                           *)
Follows(f, n, a, G) == f[0] = a /\ \A i \in 1 .. n : f[i] = G[<<f[i - 1], i>>]

(* Functions on 0 .. n that do so, with values in V, are there.             *)
LEMMA Recursion ==
  ASSUME NEW n \in Nat, NEW V, NEW a \in V, NEW G \in [V \X (1 .. n) -> V]
  PROVE  \E f \in [0 .. n -> V] : Follows(f, n, a, G)
<1> DEFINE P == {k \in 0 .. n : \E f \in [0 .. k -> V] : Follows(f, k, a, G)}
<1>1. 0 \in P
  <2> DEFINE f == [i \in 0 .. 0 |-> a]
  <2>1. f \in [0 .. 0 -> V] /\ Follows(f, 0, a, G)
    BY DEF Follows
  <2> HIDE DEF f
  <2> QED
    BY <2>1
<1>2. ASSUME NEW k \in 1 .. n, k - 1 \in P PROVE k \in P
  <2>1. PICK f \in [0 .. (k - 1) -> V] : Follows(f, k - 1, a, G)
    BY <1>2
  <2> DEFINE g == [i \in 0 .. k |-> IF i < k THEN f[i] ELSE G[<<f[k - 1], k>>]]
  <2>2. g \in [0 .. k -> V]
    BY <2>1
  <2>3. ASSUME NEW i \in 1 .. k PROVE g[i] = G[<<g[i - 1], i>>]
    BY <2>1 DEF Follows
  <2>4. g[0] = a
    BY <2>1 DEF Follows
  <2> HIDE DEF g
  <2>5. Follows(g, k, a, G)
    BY <2>3, <2>4 DEF Follows
  <2> QED
    BY <2>2, <2>5
<1>3. 0 .. n \subseteq P
  <2> HIDE DEF P
  <2> QED BY <1>1, <1>2, Upward
<1> QED
  BY <1>3

(* A loop that goes from state to state until it is over defines a function, *)
(* whether or not it ends: where it does not, any value will do.             *)
LEMMA Loop ==
  ASSUME NEW S, NEW E, NEW G \in [S -> S]
  PROVE  \E f : f = [s \in S |-> IF s \in E THEN s ELSE f[G[s]]]
<1> DEFINE Leads(t, k, s, e) ==
             /\ t[0] = s /\ t[k] = e
             /\ \A i \in 1 .. k : t[i] = G[t[i - 1]] /\ t[i - 1] \notin E
           R(s) == {e \in E : \E k \in Nat : \E t \in [0 .. k -> S] : Leads(t, k, s, e)}
           V(s) == CHOOSE e : e \in R(s)
           f == [s \in S |-> V(s)]
<1>1. ASSUME NEW s \in S, s \in E PROVE V(s) = s
  <2>1. s \in R(s)
    <3> DEFINE t == [i \in 0 .. 0 |-> s]
    <3>1. t \in [0 .. 0 -> S] /\ Leads(t, 0, s, s)
      OBVIOUS
    <3> HIDE DEF t, Leads
    <3> QED BY <1>1, <3>1
  <2>2. ASSUME NEW e \in R(s) PROVE e = s
    <3>0. PICK k \in Nat : \E t \in [0 .. k -> S] : Leads(t, k, s, e)
      OBVIOUS
    <3>1. PICK t \in [0 .. k -> S] : Leads(t, k, s, e)
      BY <3>0
    <3>2. k = 0
      <4>1. k # 0 => 1 \in 1 .. k
        OBVIOUS
      <4>2. 1 \in 1 .. k => t[1 - 1] \notin E
        BY <3>1
      <4> QED BY <1>1, <3>1, <4>1, <4>2
    <3> QED BY <3>1, <3>2
  <2> HIDE DEF R
  <2> QED BY <2>1, <2>2
<1>2. ASSUME NEW s \in S, s \notin E PROVE V(s) = V(G[s])
  <2>1. ASSUME NEW e \in R(s) PROVE e \in R(G[s])
    <3>0. PICK k \in Nat : \E t \in [0 .. k -> S] : Leads(t, k, s, e)
      OBVIOUS
    <3>1. PICK t \in [0 .. k -> S] : Leads(t, k, s, e)
      BY <3>0
    <3>2. k # 0 /\ e \in E
      BY <1>2, <3>1
    <3> DEFINE u == [i \in 0 .. (k - 1) |-> t[i + 1]]
    <3>3. k - 1 \in Nat /\ \A i \in 0 .. (k - 1) : i + 1 \in 0 .. k
      BY <3>2
    <3>4. u \in [0 .. (k - 1) -> S] /\ \A i \in 0 .. (k - 1) : u[i] = t[i + 1]
      BY <3>3
    <3> HIDE DEF u
    <3>5. u[0] = G[s] /\ u[k - 1] = e
      <4>1. 1 \in 1 .. k /\ 0 \in 0 .. (k - 1) /\ k - 1 \in 0 .. (k - 1) /\ (k - 1) + 1 = k
        BY <3>2, <3>3
      <4>2. t[1] = G[t[0]] /\ t[0] = s /\ t[k] = e
        BY <3>1, <4>1
      <4> QED BY <3>4, <4>1, <4>2
    <3>6. ASSUME NEW i \in 1 .. (k - 1) PROVE u[i] = G[u[i - 1]] /\ u[i - 1] \notin E
      <4>1. i + 1 \in 1 .. k /\ i \in 0 .. (k - 1) /\ i - 1 \in 0 .. (k - 1) /\ (i - 1) + 1 = i
            /\ (i + 1) - 1 = i
        BY <3>3
      <4>2. t[i + 1] = G[t[i]] /\ t[i] \notin E
        BY <3>1, <4>1
      <4> QED BY <3>4, <4>1, <4>2
    <3>7. Leads(u, k - 1, G[s], e)
      BY <3>5, <3>6
    <3> HIDE DEF Leads
    <3> QED BY <3>2, <3>3, <3>4, <3>7
  <2>2. ASSUME NEW e \in R(G[s]) PROVE e \in R(s)
    <3>0. PICK k \in Nat : \E t \in [0 .. k -> S] : Leads(t, k, G[s], e)
      OBVIOUS
    <3>1. PICK t \in [0 .. k -> S] : Leads(t, k, G[s], e)
      BY <3>0
    <3> DEFINE u == [i \in 0 .. (k + 1) |-> IF i = 0 THEN s ELSE t[i - 1]]
    <3>2. k + 1 \in Nat /\ \A i \in 0 .. (k + 1) : i # 0 => i - 1 \in 0 .. k
      OBVIOUS
    <3>3. u \in [0 .. (k + 1) -> S]
          /\ \A i \in 0 .. (k + 1) : u[i] = IF i = 0 THEN s ELSE t[i - 1]
      BY <3>2
    <3> HIDE DEF u
    <3>4. u[0] = s /\ u[k + 1] = e
      <4>1. 0 \in 0 .. (k + 1) /\ k + 1 \in 0 .. (k + 1) /\ (k + 1) - 1 = k /\ k + 1 # 0
        OBVIOUS
      <4> QED BY <3>1, <3>3, <4>1
    <3>5. ASSUME NEW i \in 1 .. (k + 1) PROVE u[i] = G[u[i - 1]] /\ u[i - 1] \notin E
      <4>1. i \in 0 .. (k + 1) /\ i - 1 \in 0 .. (k + 1) /\ i # 0
        OBVIOUS
      <4>2. u[i] = t[i - 1] /\ u[i - 1] = IF i - 1 = 0 THEN s ELSE t[(i - 1) - 1]
        BY <3>3, <4>1
      <4>3. CASE i = 1
        <5>1. i - 1 = 0
          BY <4>3
        <5>2. t[0] = G[s]
          BY <3>1
        <5> QED BY <1>2, <4>2, <5>1, <5>2
      <4>4. CASE i # 1
        <5>1. i - 1 \in 1 .. k /\ i - 1 # 0
          BY <4>4
        <5>2. t[i - 1] = G[t[(i - 1) - 1]] /\ t[(i - 1) - 1] \notin E
          BY <3>1, <5>1
        <5> QED BY <4>2, <5>1, <5>2
      <4> QED BY <4>3, <4>4
    <3>6. Leads(u, k + 1, s, e)
      BY <3>4, <3>5
    <3> HIDE DEF Leads
    <3> QED BY <3>2, <3>3, <3>6
  <2> HIDE DEF R
  <2>3. R(s) = R(G[s])
    BY <2>1, <2>2 DEF R
  <2> QED BY <2>3
<1> HIDE DEF V
<1>3. ASSUME NEW s \in S PROVE f[s] = IF s \in E THEN s ELSE f[G[s]]
  BY <1>1, <1>2
<1>4. f = [s \in S |-> f[s]]
  OBVIOUS
<1> HIDE DEF f
<1> QED BY <1>3, <1>4

(***************************************************************************)
(* Powers of two, and numbers as bits.                                       *)
(***************************************************************************)
(* 2^n counts the subsets of n things, so one thing more doubles it.         *)
LEMMA Doubles ==
  ASSUME NEW n \in Nat
  PROVE  2 ^ n \in Nat \ {0} /\ 2 ^ (n + 1) = 2 * 2 ^ n
<1> DEFINE A == SUBSET (1 .. n)
           B == {x \cup {n + 1} : x \in A}
<1>1. /\ IsFiniteSet(1 .. n) /\ Cardinality(1 .. n) = n
      /\ IsFiniteSet(1 .. (n + 1)) /\ Cardinality(1 .. (n + 1)) = n + 1
  BY FS_Interval
<1>2. IsFiniteSet(A) /\ Cardinality(A) = 2 ^ n
  BY <1>1, FS_SUBSET
<1>3. Cardinality(SUBSET (1 .. (n + 1))) = 2 ^ (n + 1)
  BY <1>1, FS_SUBSET
<1>4. SUBSET (1 .. (n + 1)) = A \cup B /\ A \cap B = {}
  <2>1. 1 .. (n + 1) = (1 .. n) \cup {n + 1} /\ n + 1 \notin 1 .. n
    OBVIOUS
  <2>2. ASSUME NEW y \in SUBSET ((1 .. n) \cup {n + 1}), y \notin A PROVE y \in B
    <3>1. y \ {n + 1} \in A /\ y = (y \ {n + 1}) \cup {n + 1}
      BY <2>2
    <3> QED
      BY <3>1
  <2>3. \A x \in A : n + 1 \notin x
    BY <2>1
  <2>4. A \subseteq SUBSET (1 .. (n + 1)) /\ B \subseteq SUBSET (1 .. (n + 1))
    BY <2>1
  <2>5. A \cap B = {}
    BY <2>3
  <2>6. SUBSET (1 .. (n + 1)) \subseteq A \cup B
    <3> HIDE DEF A, B
    <3> QED BY <2>1, <2>2
  <2> QED
    <3> HIDE DEF A, B
    <3> QED BY <2>4, <2>5, <2>6
<1>5. IsFiniteSet(B) /\ Cardinality(B) = Cardinality(A)
  <2> DEFINE f == [x \in A |-> x \cup {n + 1}]
  <2>1. \A x, y \in A : f[x] = f[y] => x = y
    <3>1. ASSUME NEW x \in A, NEW y \in A, x \cup {n + 1} = y \cup {n + 1} PROVE x = y
      <4>1. n + 1 \notin x /\ n + 1 \notin y
        OBVIOUS
      <4> QED
        BY <3>1, <4>1
    <3> QED BY <3>1
  <2>2. f \in [A -> B] /\ \A y \in B : \E x \in A : f[x] = y
    OBVIOUS
  <2>3. ExistsBijection(A, B)
    <3> HIDE DEF f, A, B
    <3> QED BY <2>1, <2>2 DEF ExistsBijection, Bijection, Injection, Surjection, IsInjective
  <2> QED
    BY <1>2, <2>3, FS_Bijection
<1>7. Cardinality(A) \in Nat /\ 2 ^ n \in Nat
  BY <1>2, FS_CardinalityType
<1>6. Cardinality(A \cup B) = 2 ^ n + 2 ^ n
  <2> HIDE DEF A, B
  <2>1. Cardinality(A \cup B) = Cardinality(A) + Cardinality(B) - Cardinality(A \cap B)
    BY <1>2, <1>5, FS_Union
  <2>2. Cardinality(A \cap B) = 0
    BY <1>4, FS_EmptySet
  <2> QED BY <1>2, <1>5, <1>7, <2>1, <2>2
<1>8. 2 ^ n # 0
  <2>1. {} \in A
    OBVIOUS
  <2> QED BY <1>2, <2>1, FS_EmptySet
<1>9. 2 ^ (n + 1) = 2 ^ n + 2 ^ n
  BY <1>3, <1>4, <1>6
<1> QED
  BY <1>7, <1>8, <1>9

(* A power of two is twice the one before.                                  *)
LEMMA Halves ==
  ASSUME NEW n \in Nat, n > 0
  PROVE  2 ^ n = 2 * 2 ^ (n - 1) /\ 2 ^ (n - 1) \in Nat \ {0} /\ 2 ^ n \in Nat \ {0}
<1>1. n - 1 \in Nat /\ (n - 1) + 1 = n
  OBVIOUS
<1>2. 2 ^ ((n - 1) + 1) = 2 * 2 ^ (n - 1) /\ 2 ^ (n - 1) \in Nat \ {0}
  BY <1>1, Doubles
<1>3. 2 ^ n \in Nat \ {0}
  BY Doubles
<1> QED
  BY <1>1, <1>2, <1>3

Bits01 == {0, 1}

(* What stands in a stream of bits from place i on.                          *)
Holds(W, i, b) == i + Len(b) <= Len(W) /\ \A k \in 1 .. Len(b) : W[i + k] = b[k]

(* The stream as it arrives is the one that was written, or its beginning.   *)
Arrives(W) == Len(bits) <= Len(W) /\ \A k \in 1 .. Len(bits) : bits[k] = W[k]

(* What bw_put writes of a number: its bits, the lowest first.              *)
LEMMA BitsAreBits ==
  ASSUME NEW v \in Nat, NEW n \in Nat
  PROVE  /\ BitsOf(v, n) \in Seq(Bits01) /\ Len(BitsOf(v, n)) = n
         /\ \A k \in 1 .. n : BitsOf(v, n)[k] = (v \div 2 ^ (k - 1)) % 2
<1>1. ASSUME NEW k \in 1 .. n PROVE (v \div 2 ^ (k - 1)) % 2 \in Bits01
  <2>1. k - 1 \in Nat /\ 2 ^ (k - 1) \in Nat \ {0}
    BY Doubles
  <2>2. v \div 2 ^ (k - 1) \in Nat
    BY <2>1
  <2> QED
    BY <2>2 DEF Bits01
<1>2. BitsOf(v, n) \in [1 .. n -> Bits01]
  BY <1>1 DEF BitsOf
<1> QED
  BY <1>2 DEF BitsOf

(* One digit more of a number.                                               *)
LEMMA OneDigit ==
  ASSUME NEW v \in Nat, NEW a \in Nat \ {0}
  PROVE  v % (2 * a) = (v % a) + ((v \div a) % 2) * a
<1> DEFINE q == v \div a
           r == v % a
<1>1. q \in Nat /\ r \in 0 .. (a - 1) /\ v = q * a + r
  OBVIOUS
<1> HIDE DEF q, r
<1> DEFINE h == q \div 2
           d == q % 2
<1>2. h \in Nat /\ d \in 0 .. 1 /\ q = 2 * h + d
  BY <1>1
<1> HIDE DEF h, d
<1>3. q * a = 2 * (h * a) + d * a /\ h * a \in Nat
  BY <1>1, <1>2
<1>4. d * a + r \in 0 .. (2 * a - 1)
  BY <1>1, <1>2
<1>5. v = h * (2 * a) + (d * a + r)
  BY <1>1, <1>2, <1>3, <1>4
<1>6. v % (2 * a) = d * a + r
  <2> DEFINE x == d * a + r
             m == 2 * a
  <2>1. v = h * m + x /\ x \in 0 .. (m - 1) /\ m \in Nat \ {0}
    BY <1>4, <1>5
  <2> HIDE DEF x, m
  <2>2. v % m = x
    BY <1>2, <2>1
  <2> QED
    BY <2>2 DEF x, m
<1> QED
  BY <1>1, <1>6 DEF q, r, d

(* bw_bits against inf_bits: a number is read as it was written.             *)
LEMMA NumberIs ==
  ASSUME NEW i \in Nat, NEW n \in Nat, NEW v \in Nat, v < 2 ^ n,
         \A k \in 1 .. n : Bit(i + k - 1) = (v \div 2 ^ (k - 1)) % 2
  PROVE  Number(i, n) = v
<1> DEFINE Is(f) == f = [k \in 0 .. n |-> IF k = 0 THEN 0
                                          ELSE f[k - 1] + Bit(i + k - 1) * 2 ^ (k - 1)]
           g == [k \in 0 .. n |-> v % 2 ^ k]
<1>1. ASSUME NEW k \in 1 .. n PROVE g[k] = g[k - 1] + Bit(i + k - 1) * 2 ^ (k - 1)
  <2>1. k - 1 \in Nat /\ (k - 1) \in 0 .. n /\ k \in 0 .. n /\ (k - 1) + 1 = k
    OBVIOUS
  <2>2. 2 ^ (k - 1) \in Nat \ {0} /\ 2 ^ k = 2 * 2 ^ (k - 1)
    BY <2>1, Doubles
  <2>3. v % (2 * 2 ^ (k - 1)) = (v % 2 ^ (k - 1)) + ((v \div 2 ^ (k - 1)) % 2) * 2 ^ (k - 1)
    BY <2>2, OneDigit
  <2> QED
    BY <2>1, <2>2, <2>3
<1>2. g[0] = 0
  <2>1. 2 ^ 0 = 1
    OBVIOUS
  <2>2. v % 1 = 0
    OBVIOUS
  <2> QED BY <2>1, <2>2
<1>3. g[n] = v
  <2>1. 2 ^ n \in Nat \ {0}
    BY Doubles
  <2>2. v % 2 ^ n = v
    BY <2>1
  <2> QED BY <2>2
<1>4. Is(g)
  <2>1. ASSUME NEW k \in 0 .. n
        PROVE  g[k] = (IF k = 0 THEN 0 ELSE g[k - 1] + Bit(i + k - 1) * 2 ^ (k - 1))
    <3>1. k = 0 \/ k \in 1 .. n
      OBVIOUS
    <3> HIDE DEF g
    <3> QED BY <1>1, <1>2, <3>1
  <2> QED BY <2>1
<1> DEFINE f == CHOOSE f : Is(f)
<1>5. Is(f)
  BY <1>4
<1>6. Number(i, n) = f[n]
  BY DEF Number
<1> HIDE DEF f
<1> DEFINE P == {k \in 0 .. n : f[k] = g[k]}
<1>7. 0 \in P
  BY <1>2, <1>5
<1>8. ASSUME NEW k \in 1 .. n, k - 1 \in P PROVE k \in P
  <2>1. f[k] = f[k - 1] + Bit(i + k - 1) * 2 ^ (k - 1) /\ f[k - 1] = g[k - 1]
    BY <1>5, <1>8
  <2> HIDE DEF g
  <2> QED BY <1>1, <2>1
<1>9. n \in P
  <2> HIDE DEF P
  <2> QED BY <1>7, <1>8, Upward
<1> QED
  BY <1>3, <1>6, <1>9

(* A number that fits its bits is read back (br_bits) as it was written     *)
(* (bw_put), wherever in the stream it lies.                                *)
THEOREM BitsComeBack ==
  ASSUME NEW W \in Seq(Bits01), NEW i \in Nat, NEW v \in Nat, NEW n \in Nat, v < 2 ^ n,
         bits \in Seq(Bits01), Arrives(W), Holds(W, i, BitsOf(v, n)), Has(i, n)
  PROVE  Number(i, n) = v
<1>1. ASSUME NEW k \in 1 .. n PROVE Bit(i + k - 1) = (v \div 2 ^ (k - 1)) % 2
  <2>1. i + k - 1 < Len(bits) /\ i + k - 1 + 1 = i + k /\ i + k \in 1 .. Len(bits)
    BY DEF Has
  <2>2. Bit(i + k - 1) = bits[i + k]
    BY <2>1 DEF Bit
  <2>3. bits[i + k] = W[i + k]
    BY <2>1 DEF Arrives
  <2>4. W[i + k] = BitsOf(v, n)[k]
    BY BitsAreBits DEF Holds
  <2> QED
    BY <2>2, <2>3, <2>4, BitsAreBits
<1> QED
  BY <1>1, NumberIs

(* What stands in a stream one after the other stands there each for itself. *)
LEMMA HoldsBoth ==
  ASSUME NEW W \in Seq(Bits01), NEW i \in Nat, NEW a \in Seq(Bits01), NEW b \in Seq(Bits01),
         Holds(W, i, a \o b)
  PROVE  /\ Holds(W, i, a) /\ Holds(W, i + Len(a), b)
         /\ Len(a \o b) = Len(a) + Len(b)
<1>1. /\ Len(a) \in Nat /\ Len(b) \in Nat /\ Len(W) \in Nat /\ Len(a \o b) = Len(a) + Len(b)
      /\ \A k \in 1 .. Len(a) + Len(b) : (a \o b)[k] = IF k <= Len(a) THEN a[k] ELSE b[k - Len(a)]
  BY LenProperties, ConcatProperties
<1>2. /\ i + (Len(a) + Len(b)) <= Len(W)
      /\ \A k \in 1 .. Len(a) + Len(b) : W[i + k] = (a \o b)[k]
  BY <1>1 DEF Holds
<1>3. ASSUME NEW k \in 1 .. Len(a) PROVE W[i + k] = a[k]
  <2>1. k \in 1 .. Len(a) + Len(b) /\ k <= Len(a)
    BY <1>1
  <2> QED BY <1>1, <1>2, <2>1
<1>4. ASSUME NEW k \in 1 .. Len(b) PROVE W[i + Len(a) + k] = b[k]
  <2>1. Len(a) + k \in 1 .. Len(a) + Len(b) /\ ~(Len(a) + k <= Len(a))
        /\ Len(a) + k - Len(a) = k /\ i + (Len(a) + k) = i + Len(a) + k
    BY <1>1
  <2> QED BY <1>1, <1>2, <2>1
<1> QED
  BY <1>1, <1>2, <1>3, <1>4 DEF Holds

(* Two pieces that follow each other in the stream are one.                 *)
LEMMA HoldsOn ==
  ASSUME NEW W \in Seq(Bits01), NEW i \in Nat, NEW a \in Seq(Bits01), NEW b \in Seq(Bits01),
         Holds(W, i, a), Holds(W, i + Len(a), b)
  PROVE  Holds(W, i, a \o b)
<1>1. /\ Len(a) \in Nat /\ Len(b) \in Nat /\ Len(W) \in Nat /\ Len(a \o b) = Len(a) + Len(b)
      /\ \A k \in 1 .. Len(a) + Len(b) : (a \o b)[k] = IF k <= Len(a) THEN a[k] ELSE b[k - Len(a)]
  BY LenProperties, ConcatProperties
<1>2. i + Len(a \o b) <= Len(W)
  BY <1>1 DEF Holds
<1>3. ASSUME NEW k \in 1 .. Len(a) + Len(b) PROVE W[i + k] = (a \o b)[k]
  <2>1. CASE k <= Len(a)
    <3>1. k \in 1 .. Len(a)
      BY <1>1, <2>1
    <3> QED BY <1>1, <2>1, <3>1 DEF Holds
  <2>2. CASE ~(k <= Len(a))
    <3>1. k - Len(a) \in 1 .. Len(b) /\ i + Len(a) + (k - Len(a)) = i + k
      BY <1>1, <2>2
    <3> QED BY <1>1, <2>2, <3>1 DEF Holds
  <2> QED BY <1>1, <2>1, <2>2
<1> QED
  BY <1>1, <1>2, <1>3 DEF Holds

(* And what is there stays there when more is written after it.              *)
LEMMA HoldsLonger ==
  ASSUME NEW W \in Seq(Bits01), NEW x \in Seq(Bits01), NEW i \in Nat, NEW b \in Seq(Bits01)
  PROVE  /\ Holds(W, i, b) => Holds(W \o x, i, b)
         /\ Holds(W \o x, Len(W), x)
         /\ W \o x \in Seq(Bits01) /\ Len(W \o x) = Len(W) + Len(x)
<1>1. /\ Len(x) \in Nat /\ Len(b) \in Nat /\ Len(W) \in Nat /\ Len(W \o x) = Len(W) + Len(x)
      /\ \A k \in 1 .. Len(W) + Len(x) : (W \o x)[k] = IF k <= Len(W) THEN W[k] ELSE x[k - Len(W)]
      /\ W \o x \in Seq(Bits01)
  BY LenProperties, ConcatProperties
<1>2. ASSUME Holds(W, i, b) PROVE Holds(W \o x, i, b)
  <2>1. ASSUME NEW k \in 1 .. Len(b) PROVE (W \o x)[i + k] = b[k]
    <3>1. i + k \in 1 .. Len(W) + Len(x) /\ i + k <= Len(W)
      BY <1>1, <1>2 DEF Holds
    <3> QED BY <1>1, <1>2, <3>1 DEF Holds
  <2> QED BY <1>1, <1>2, <2>1 DEF Holds
<1>3. ASSUME NEW k \in 1 .. Len(x) PROVE (W \o x)[Len(W) + k] = x[k]
  <2>1. Len(W) + k \in 1 .. Len(W) + Len(x) /\ ~(Len(W) + k <= Len(W)) /\ Len(W) + k - Len(W) = k
    BY <1>1
  <2> QED BY <1>1, <2>1
<1> QED
  BY <1>1, <1>2, <1>3 DEF Holds

(* Sequences one after the other, as they add up.                            *)
LEMMA FlattenSteps ==
  ASSUME NEW S, NEW seqs \in Seq(Seq(S))
  PROVE  \E f \in [0 .. Len(seqs) -> Seq(S)] :
            /\ f[0] = <<>> /\ f[Len(seqs)] = FlattenSeq(seqs)
            /\ \A i \in 1 .. Len(seqs) : f[i] = f[i - 1] \o seqs[i]
<1> DEFINE n == Len(seqs)
           Is(f) == f = [i \in 1 .. n |-> IF i = 1 THEN seqs[i] ELSE f[i - 1] \o seqs[i]]
           G == [x \in Seq(S) \X (1 .. n) |-> x[1] \o seqs[x[2]]]
<1>1. n \in Nat /\ \A i \in 1 .. n : seqs[i] \in Seq(S)
  BY LenProperties, ElementOfSeq
<1>2. ASSUME NEW x \in Seq(S), NEW i \in 1 .. n PROVE x \o seqs[i] \in Seq(S)
  BY <1>1, ConcatProperties
<1>3. G \in [Seq(S) \X (1 .. n) -> Seq(S)]
  BY <1>2
<1>4. ASSUME NEW x \in Seq(S), NEW i \in 1 .. n PROVE G[<<x, i>>] = x \o seqs[i]
  OBVIOUS
<1>5. <<>> \in Seq(S)
  BY EmptySeq
<1> HIDE DEF G, n
<1>6. PICK g \in [0 .. n -> Seq(S)] : Follows(g, n, <<>>, G)
  BY <1>1, <1>3, <1>5, Recursion
<1>7. g[0] = <<>> /\ \A i \in 1 .. n : g[i] = g[i - 1] \o seqs[i]
  <2>1. ASSUME NEW i \in 1 .. n PROVE g[i] = g[i - 1] \o seqs[i]
    <3>1. g[i - 1] \in Seq(S)
      BY <1>1
    <3> QED BY <1>4, <1>6, <3>1 DEF Follows
  <2> QED BY <1>6, <2>1 DEF Follows
<1>8. g[n] = FlattenSeq(seqs)
  <2>1. CASE n = 0
    <3>1. seqs = <<>> /\ FlattenSeq(seqs) = seqs
      BY <2>1, EmptySeq DEF FlattenSeq, n
    <3> QED BY <1>7, <2>1, <3>1
  <2>2. CASE n # 0
    <3> DEFINE h == [i \in 1 .. n |-> g[i]]
    <3>1. ASSUME NEW i \in 1 .. n PROVE g[i] = (IF i = 1 THEN seqs[i] ELSE h[i - 1] \o seqs[i])
      <4>1. CASE i = 1
        <5>0. 1 \in 1 .. n /\ 1 - 1 = 0
          BY <1>1, <4>1
        <5>1. g[1] = <<>> \o seqs[1] /\ seqs[1] \in Seq(S)
          <6> HIDE DEF h
          <6>1. g[1] = g[1 - 1] \o seqs[1]
            BY <1>7, <5>0
          <6> QED BY <1>1, <1>7, <5>0, <6>1
        <5> QED BY <4>1, <5>1, ConcatEmptySeq
      <4>2. CASE i # 1
        <5>1. i - 1 \in 1 .. n
          BY <1>1, <4>2
        <5> QED BY <1>7, <4>2, <5>1
      <4> QED BY <4>1, <4>2
    <3>2. Is(h)
      BY <3>1
    <3> DEFINE f == CHOOSE f : Is(f)
    <3>3. Is(f)
      <4> HIDE DEF h
      <4> QED BY <3>2
    <3>4. FlattenSeq(seqs) = f[n]
      BY <2>2 DEF FlattenSeq, n
    <3> HIDE DEF f
    <3> DEFINE P == {i \in 0 .. n : i = 0 \/ f[i] = g[i]}
    <3>5. 0 \in P
      BY <1>1
    <3>6. ASSUME NEW i \in 1 .. n, i - 1 \in P PROVE i \in P
      <4>1. f[i] = (IF i = 1 THEN seqs[i] ELSE f[i - 1] \o seqs[i])
        BY <3>3
      <4>2. i # 1 => f[i - 1] = g[i - 1] /\ h[i - 1] = g[i - 1]
        BY <3>6, <1>1
      <4> QED
        <5> HIDE DEF h
        <5> QED BY <3>1, <4>1, <4>2
    <3>7. n \in P
      <4> HIDE DEF P, h
      <4>1. 0 .. n \subseteq P
        BY <1>1, <3>5, <3>6, Upward
      <4> QED BY <1>1, <4>1
    <3> QED BY <2>2, <3>4, <3>7
  <2> QED BY <2>1, <2>2
<1> QED
  BY <1>7, <1>8 DEF n

(* Sequences one after the other are a sequence of what they hold.          *)
LEMMA Flattened ==
  ASSUME NEW S, NEW seqs \in Seq(Seq(S))
  PROVE  FlattenSeq(seqs) \in Seq(S)
<1>1. Len(seqs) \in 0 .. Len(seqs)
  BY LenProperties
<1>2. PICK f \in [0 .. Len(seqs) -> Seq(S)] : f[Len(seqs)] = FlattenSeq(seqs)
  BY FlattenSteps
<1> QED
  BY <1>1, <1>2

(* Where each of the pieces stands.                                          *)
Offsets(off, i, seqs) ==
  /\ off \in [0 .. Len(seqs) -> Nat] /\ off[0] = i /\ off[Len(seqs)] = i + Len(FlattenSeq(seqs))
  /\ \A k \in 1 .. Len(seqs) : off[k] = off[k - 1] + Len(seqs[k])

(* Where the stream holds pieces one after the other, it holds each of them *)
(* at an offset of its own.                                                 *)
LEMMA Pieces ==
  ASSUME NEW W \in Seq(Bits01), NEW i \in Nat, NEW seqs \in Seq(Seq(Bits01)),
         Holds(W, i, FlattenSeq(seqs))
  PROVE  \E off : Offsets(off, i, seqs) /\ \A k \in 1 .. Len(seqs) : Holds(W, off[k - 1], seqs[k])
<1> DEFINE n == Len(seqs)
<1>1. n \in Nat /\ \A k \in 1 .. n : seqs[k] \in Seq(Bits01)
  BY LenProperties, ElementOfSeq
<1>2. PICK f \in [0 .. n -> Seq(Bits01)] :
            /\ f[0] = <<>> /\ f[n] = FlattenSeq(seqs)
            /\ \A k \in 1 .. n : f[k] = f[k - 1] \o seqs[k]
  BY FlattenSteps
<1> HIDE DEF n
<1> DEFINE off == [k \in 0 .. n |-> i + Len(f[k])]
<1>3. ASSUME NEW k \in 1 .. n
      PROVE  /\ k \in 0 .. n /\ k - 1 \in 0 .. n /\ f[k] = f[k - 1] \o seqs[k]
             /\ f[k - 1] \in Seq(Bits01) /\ seqs[k] \in Seq(Bits01)
             /\ Len(f[k - 1]) \in Nat /\ Len(seqs[k]) \in Nat
             /\ Len(f[k]) = Len(f[k - 1]) + Len(seqs[k])
  <2>1. k \in 0 .. n /\ k - 1 \in 0 .. n
    BY <1>1
  <2>2. f[k] = f[k - 1] \o seqs[k] /\ f[k - 1] \in Seq(Bits01) /\ seqs[k] \in Seq(Bits01)
    BY <1>1, <1>2, <2>1
  <2> QED BY <2>1, <2>2, LenProperties, ConcatProperties
<1> DEFINE P == {j \in 0 .. n : Holds(W, i, f[n - j])}
<1>4. 0 \in P
  BY <1>1, <1>2
<1>5. ASSUME NEW j \in 1 .. n, j - 1 \in P PROVE j \in P
  <2> DEFINE k == n - j + 1
  <2>1. k \in 1 .. n /\ n - (j - 1) = k /\ n - j = k - 1
    BY <1>1
  <2> HIDE DEF k
  <2>2. Holds(W, i, f[k])
    BY <1>5, <2>1
  <2>3. Holds(W, i, f[k - 1] \o seqs[k])
    BY <1>3, <2>1, <2>2
  <2>4. f[k - 1] \in Seq(Bits01) /\ seqs[k] \in Seq(Bits01)
    BY <1>3, <2>1
  <2>5. Holds(W, i, f[k - 1])
    BY <2>3, <2>4, HoldsBoth
  <2> QED BY <2>1, <2>5
<1>6. 0 .. n \subseteq P
  <2> HIDE DEF P
  <2> QED BY <1>1, <1>4, <1>5, Upward
<1>7. ASSUME NEW k \in 1 .. n PROVE Holds(W, off[k - 1], seqs[k])
  <2>1. n - k \in 0 .. n /\ n - (n - k) = k
    BY <1>1
  <2>2. Holds(W, i, f[k])
    BY <1>6, <2>1
  <2>3. off[k - 1] = i + Len(f[k - 1])
    BY <1>3
  <2>4. Holds(W, i, f[k - 1] \o seqs[k]) /\ f[k - 1] \in Seq(Bits01) /\ seqs[k] \in Seq(Bits01)
    BY <1>3, <2>2
  <2>5. Holds(W, i + Len(f[k - 1]), seqs[k])
    BY <2>4, HoldsBoth
  <2> QED BY <2>3, <2>5
<1>8. off \in [0 .. n -> Nat]
  <2>1. ASSUME NEW k \in 0 .. n PROVE Len(f[k]) \in Nat
    BY LenProperties
  <2> QED BY <2>1
<1>9. ASSUME NEW k \in 1 .. n PROVE off[k] = off[k - 1] + Len(seqs[k])
  <2>1. off[k] = i + Len(f[k]) /\ off[k - 1] = i + Len(f[k - 1])
    BY <1>3
  <2>2. Len(f[k]) = Len(f[k - 1]) + Len(seqs[k]) /\ Len(f[k - 1]) \in Nat /\ Len(seqs[k]) \in Nat
    BY <1>3
  <2>3. i + Len(f[k]) = i + Len(f[k - 1]) + Len(seqs[k])
    <3> DEFINE x == Len(f[k - 1])
               y == Len(seqs[k])
               z == Len(f[k])
    <3>1. z = x + y /\ x \in Nat /\ y \in Nat
      BY <2>2
    <3> HIDE DEF x, y, z, P, off
    <3>2. i + z = i + x + y
      BY <3>1
    <3> QED BY <3>2 DEF x, y, z
  <2> HIDE DEF off
  <2> QED BY <2>1, <2>3
<1>10. off[0] = i /\ off[n] = i + Len(FlattenSeq(seqs))
  <2>1. 0 \in 0 .. n /\ n \in 0 .. n /\ Len(f[0]) = 0
    BY <1>1, <1>2, EmptySeq
  <2>2. off[0] = i + Len(f[0]) /\ off[n] = i + Len(f[n])
    BY <2>1
  <2> HIDE DEF off
  <2> QED BY <1>2, <2>1, <2>2
<1> HIDE DEF off
<1> QED
  BY <1>7, <1>8, <1>9, <1>10 DEF Offsets, n

(***************************************************************************)
(* Canonical codes.                                                          *)
(***************************************************************************)
Alphabet(lens) ==
  /\ IsFiniteSet(DOMAIN lens) /\ DOMAIN lens \subseteq Int
  /\ lens \in [DOMAIN lens -> Nat]

(* The symbols of a length can be counted.                                  *)
LEMMA Counted ==
  ASSUME NEW lens, Alphabet(lens), NEW n
  PROVE  CountOf(lens, n) \in Nat /\ IsFiniteSet({s \in DOMAIN lens : lens[s] = n})
<1>1. {s \in DOMAIN lens : lens[s] = n} \in SUBSET DOMAIN lens
  OBVIOUS
<1>2. IsFiniteSet({s \in DOMAIN lens : lens[s] = n})
  BY <1>1, FS_Subset DEF Alphabet
<1> QED
  BY <1>2, FS_CardinalityType DEF CountOf

(* huff_assign and inf_decode: the first code of each length from the one    *)
(* before.                                                                   *)
LEMMA FirstUpTo ==
  ASSUME NEW lens, Alphabet(lens), NEW n \in Nat \ {0}
  PROVE  \E g \in [1 .. n -> Nat] :
            /\ g[1] = 0 /\ \A k \in 2 .. n : g[k] = (g[k - 1] + CountOf(lens, k - 1)) * 2
            /\ \A k \in 1 .. n : FirstOf(lens, k) = g[k]
<1> DEFINE V == Nat
           G == [x \in V \X (1 .. (n - 1)) |-> (x[1] + CountOf(lens, x[2])) * 2]
<1>1. n - 1 \in Nat /\ 0 \in V
  OBVIOUS
<1>2. ASSUME NEW v \in V, NEW k \in 1 .. (n - 1) PROVE (v + CountOf(lens, k)) * 2 \in V
  <2>1. CountOf(lens, k) \in Nat
    BY Counted
  <2> QED BY <2>1
<1>3. G \in [V \X (1 .. (n - 1)) -> V]
  BY <1>2
<1>4. ASSUME NEW v \in V, NEW k \in 1 .. (n - 1) PROVE G[<<v, k>>] = (v + CountOf(lens, k)) * 2
  OBVIOUS
<1> HIDE DEF G, V
<1>5. PICK h \in [0 .. (n - 1) -> V] : Follows(h, n - 1, 0, G)
  BY <1>1, <1>3, Recursion
<1> DEFINE g == [k \in 1 .. n |-> h[k - 1]]
<1>6. g \in [1 .. n -> Nat]
  BY <1>5 DEF V
<1>7. g[1] = 0
  BY <1>5 DEF Follows
<1>8. ASSUME NEW k \in 2 .. n PROVE g[k] = (g[k - 1] + CountOf(lens, k - 1)) * 2
  <2>1. k - 1 \in 1 .. (n - 1) /\ k \in 1 .. n /\ k - 1 \in 1 .. n /\ k - 1 - 1 \in 0 .. (n - 1)
    OBVIOUS
  <2>2. h[k - 1] = G[<<h[k - 1 - 1], k - 1>>]
    BY <1>5, <2>1 DEF Follows
  <2>3. h[k - 1 - 1] \in V
    BY <1>5, <2>1
  <2>4. h[k - 1] = (h[k - 1 - 1] + CountOf(lens, k - 1)) * 2
    BY <1>4, <2>1, <2>2, <2>3
  <2> QED BY <2>1, <2>4
<1> HIDE DEF g
<1>9. ASSUME NEW m \in 1 .. n PROVE FirstOf(lens, m) = g[m]
  <2> DEFINE Is(f) == f = [k \in 1 .. m |-> IF k = 1 THEN 0
                                            ELSE (f[k - 1] + CountOf(lens, k - 1)) * 2]
             c == [k \in 1 .. m |-> g[k]]
  <2>1. Is(c)
    <3>1. ASSUME NEW k \in 1 .. m
          PROVE  g[k] = IF k = 1 THEN 0 ELSE (c[k - 1] + CountOf(lens, k - 1)) * 2
      <4>1. CASE k = 1
        BY <1>7, <4>1
      <4>2. CASE k # 1
        <5>1. k \in 2 .. n /\ k - 1 \in 1 .. m
          BY <4>2
        <5>2. c[k - 1] = g[k - 1]
          BY <5>1
        <5> HIDE DEF c
        <5> QED BY <1>8, <4>2, <5>1, <5>2
      <4> QED BY <4>1, <4>2
    <3> QED BY <3>1
  <2> DEFINE f == CHOOSE f : Is(f)
  <2>2. Is(f)
    <3> HIDE DEF c
    <3> QED BY <2>1
  <2>3. FirstOf(lens, m) = f[m]
    BY DEF FirstOf
  <2> HIDE DEF f
  <2> DEFINE P == {k \in 0 .. m : k = 0 \/ f[k] = g[k]}
  <2>4. 0 \in P
    OBVIOUS
  <2>5. ASSUME NEW k \in 1 .. m, k - 1 \in P PROVE k \in P
    <3>1. f[k] = IF k = 1 THEN 0 ELSE (f[k - 1] + CountOf(lens, k - 1)) * 2
      BY <2>2
    <3>2. CASE k = 1
      BY <1>7, <3>1, <3>2
    <3>3. CASE k # 1
      <4>1. k \in 2 .. n /\ f[k - 1] = g[k - 1]
        BY <2>5, <3>3
      <4> QED BY <1>8, <3>1, <3>3, <4>1
    <3> QED BY <3>2, <3>3
  <2>6. 0 .. m \subseteq P
    <3> HIDE DEF P
    <3>1. m \in Nat
      OBVIOUS
    <3> QED BY <2>4, <2>5, <3>1, Upward
  <2> QED BY <2>3, <2>6
<1> QED
  BY <1>6, <1>7, <1>8, <1>9

(* The first code of each length, computed from the one before as in        *)
(* canonical_codes and inf_decode.                                          *)
LEMMA FirstIs ==
  ASSUME NEW lens, Alphabet(lens)
  PROVE  /\ FirstOf(lens, 1) = 0
         /\ \A n \in Nat \ {0} :
              /\ FirstOf(lens, n) \in Nat
              /\ FirstOf(lens, n + 1) = (FirstOf(lens, n) + CountOf(lens, n)) * 2
<1>1. ASSUME NEW n \in Nat \ {0}
      PROVE  /\ FirstOf(lens, 1) = 0 /\ FirstOf(lens, n) \in Nat
             /\ FirstOf(lens, n + 1) = (FirstOf(lens, n) + CountOf(lens, n)) * 2
  <2>0. n + 1 \in Nat \ {0}
    OBVIOUS
  <2>1. PICK g \in [1 .. (n + 1) -> Nat] :
            /\ g[1] = 0 /\ \A k \in 2 .. (n + 1) : g[k] = (g[k - 1] + CountOf(lens, k - 1)) * 2
            /\ \A k \in 1 .. (n + 1) : FirstOf(lens, k) = g[k]
    BY <2>0, FirstUpTo
  <2>2. 1 \in 1 .. (n + 1) /\ n \in 1 .. (n + 1) /\ n + 1 \in 2 .. (n + 1) /\ n + 1 - 1 = n
        /\ n + 1 \in 1 .. (n + 1)
    OBVIOUS
  <2>3. g[n + 1] = (g[n + 1 - 1] + CountOf(lens, n + 1 - 1)) * 2
    BY <2>1, <2>2
  <2>4. FirstOf(lens, n + 1) = g[n + 1] /\ FirstOf(lens, n) = g[n] /\ g[n] \in Nat
        /\ FirstOf(lens, 1) = g[1]
    BY <2>1, <2>2
  <2> QED BY <2>1, <2>2, <2>3, <2>4
<1>2. 1 \in Nat \ {0}
  OBVIOUS
<1> QED
  BY <1>1, <1>2

(* inf_build, the codes left over at each length.                            *)
Lefts(left, lens) ==
  /\ left \in [0 .. MaxBits -> Int] /\ left[0] = 1 /\ left[MaxBits] = LeftOver(lens)
  /\ \A n \in 1 .. MaxBits :
       left[n] = IF left[n - 1] < 0 THEN left[n - 1] ELSE 2 * left[n - 1] - CountOf(lens, n)

(* The room a table leaves, length by length, as inf_construct counts it.   *)
LEMMA LeftIs ==
  ASSUME NEW lens, Alphabet(lens)
  PROVE  \E left : Lefts(left, lens)
<1> DEFINE V == Int
           G == [x \in V \X (1 .. MaxBits) |->
                   IF x[1] < 0 THEN x[1] ELSE 2 * x[1] - CountOf(lens, x[2])]
           Is(f) == f = [n \in 0 .. MaxBits |->
                           IF n = 0 THEN 1
                           ELSE IF f[n - 1] < 0 THEN f[n - 1]
                                ELSE 2 * f[n - 1] - CountOf(lens, n)]
<1>1. MaxBits \in Nat /\ 1 \in V
  BY FormatAssumption
<1>2. ASSUME NEW v \in V, NEW n \in 1 .. MaxBits
      PROVE  (IF v < 0 THEN v ELSE 2 * v - CountOf(lens, n)) \in V
  <2>1. CountOf(lens, n) \in Nat
    BY Counted
  <2> QED BY <2>1
<1>3. G \in [V \X (1 .. MaxBits) -> V]
  BY <1>2
<1>4. ASSUME NEW v \in V, NEW n \in 1 .. MaxBits
      PROVE  G[<<v, n>>] = IF v < 0 THEN v ELSE 2 * v - CountOf(lens, n)
  OBVIOUS
<1> HIDE DEF G, V
<1>5. PICK g \in [0 .. MaxBits -> V] : Follows(g, MaxBits, 1, G)
  BY <1>1, <1>3, Recursion
<1>6. Is(g)
  <2>1. ASSUME NEW n \in 0 .. MaxBits
        PROVE  g[n] = IF n = 0 THEN 1 ELSE IF g[n - 1] < 0 THEN g[n - 1]
                                           ELSE 2 * g[n - 1] - CountOf(lens, n)
    <3>1. CASE n = 0
      BY <1>5, <3>1 DEF Follows
    <3>2. CASE n # 0
      <4>1. n \in 1 .. MaxBits /\ n - 1 \in 0 .. MaxBits
        BY <1>1, <3>2
      <4>2. g[n] = G[<<g[n - 1], n>>] /\ g[n - 1] \in V
        BY <1>5, <4>1 DEF Follows
      <4> QED BY <1>4, <3>2, <4>1, <4>2
    <3> QED BY <3>1, <3>2
  <2>2. g = [n \in 0 .. MaxBits |-> g[n]]
    BY <1>5
  <2> QED BY <2>1, <2>2
<1> DEFINE f == CHOOSE f : Is(f)
<1>7. Is(f)
  BY <1>6
<1>8. LeftOver(lens) = f[MaxBits]
  BY DEF LeftOver
<1> HIDE DEF f
<1> DEFINE P == {n \in 0 .. MaxBits : f[n] = g[n]}
<1>9. 0 \in P
  BY <1>1, <1>6, <1>7
<1>10. ASSUME NEW n \in 1 .. MaxBits, n - 1 \in P PROVE n \in P
  <2>1. n \in 0 .. MaxBits /\ n # 0 /\ f[n - 1] = g[n - 1]
    BY <1>1, <1>10
  <2> QED BY <1>6, <1>7, <2>1
<1>11. MaxBits \in P
  <2> HIDE DEF P
  <2>1. 0 .. MaxBits \subseteq P
    BY <1>1, <1>9, <1>10, Upward
  <2> QED BY <1>1, <2>1
<1>12. ASSUME NEW n \in 1 .. MaxBits
       PROVE  g[n] = IF g[n - 1] < 0 THEN g[n - 1] ELSE 2 * g[n - 1] - CountOf(lens, n)
  <2>1. n \in 0 .. MaxBits /\ n # 0
    BY <1>1
  <2> QED BY <1>6, <2>1
<1>13. g[0] = 1 /\ g[MaxBits] = LeftOver(lens) /\ g \in [0 .. MaxBits -> Int]
  BY <1>5, <1>8, <1>11 DEF Follows, V
<1> QED
  BY <1>12, <1>13 DEF Lefts

(* A code that is not over-subscribed: the codes of each length are numbers  *)
(* of that many bits.                                                        *)
LEMMA CodesFit ==
  ASSUME NEW lens, Alphabet(lens), LeftOver(lens) >= 0, NEW n \in 1 .. MaxBits
  PROVE  FirstOf(lens, n) + CountOf(lens, n) <= 2 ^ n
<1>1. MaxBits \in Nat
  BY FormatAssumption
<1>2. PICK left : Lefts(left, lens)
  BY LeftIs
<1>3. ASSUME NEW k \in 1 .. MaxBits
      PROVE  /\ left[k] = IF left[k - 1] < 0 THEN left[k - 1] ELSE 2 * left[k - 1] - CountOf(lens, k)
             /\ left[k - 1] \in Int /\ left[k] \in Int /\ CountOf(lens, k) \in Nat
  <2>1. k - 1 \in 0 .. MaxBits /\ k \in 0 .. MaxBits
    BY <1>1
  <2> QED BY <1>2, <2>1, Counted DEF Lefts
<1> DEFINE P == {j \in 0 .. MaxBits : left[MaxBits - j] >= 0}
<1>4. 0 \in P
  BY <1>1, <1>2 DEF Lefts
<1>5. ASSUME NEW j \in 1 .. MaxBits, j - 1 \in P PROVE j \in P
  <2> DEFINE k == MaxBits - j + 1
  <2>1. k \in 1 .. MaxBits /\ MaxBits - (j - 1) = k /\ MaxBits - j = k - 1
    BY <1>1
  <2> HIDE DEF k
  <2>2. left[k] >= 0
    BY <1>5, <2>1
  <2>3. left[k - 1] >= 0
    BY <1>3, <2>1, <2>2
  <2> QED BY <2>1, <2>3
<1>6. 0 .. MaxBits \subseteq P
  <2> HIDE DEF P
  <2> QED BY <1>1, <1>4, <1>5, Upward
<1>7. ASSUME NEW k \in 0 .. MaxBits PROVE left[k] >= 0
  <2>1. MaxBits - k \in 0 .. MaxBits /\ MaxBits - (MaxBits - k) = k
    BY <1>1
  <2> QED BY <1>6, <2>1
<1> HIDE DEF P
<1> DEFINE Q == {k \in 0 .. n : k = 0 \/ FirstOf(lens, k) + CountOf(lens, k) = 2 ^ k - left[k]}
<1>8. 0 \in Q
  OBVIOUS
<1>9. ASSUME NEW k \in 1 .. n, k - 1 \in Q PROVE k \in Q
  <2>1. k \in 1 .. MaxBits /\ k - 1 \in 0 .. MaxBits
    BY <1>1
  <2>2. left[k] = 2 * left[k - 1] - CountOf(lens, k) /\ left[k - 1] \in Int /\ CountOf(lens, k) \in Nat
    BY <1>3, <1>7, <2>1
  <2>3. CASE k = 1
    <3>1. left[0] = 1 /\ FirstOf(lens, 1) = 0 /\ 2 ^ 1 = 2 /\ k - 1 = 0
      BY <1>2, <2>3, FirstIs DEF Lefts
    <3>2. left[1] = 2 - CountOf(lens, 1)
      BY <2>2, <2>3, <3>1
    <3> QED BY <2>2, <2>3, <3>1, <3>2
  <2>4. CASE k # 1
    <3>1. k - 1 \in Nat \ {0} /\ k - 1 + 1 = k /\ k - 1 # 0
      BY <2>4
    <3>2. FirstOf(lens, k) = (FirstOf(lens, k - 1) + CountOf(lens, k - 1)) * 2
      BY <3>1, FirstIs
    <3>3. FirstOf(lens, k - 1) + CountOf(lens, k - 1) = 2 ^ (k - 1) - left[k - 1]
      BY <1>9, <3>1
    <3>4. 2 ^ k = 2 * 2 ^ (k - 1) /\ 2 ^ (k - 1) \in Nat
      BY <3>1, Doubles
    <3> DEFINE p == 2 ^ (k - 1)
               l == left[k - 1]
               c == CountOf(lens, k)
    <3>5. FirstOf(lens, k) = (p - l) * 2 /\ 2 ^ k = 2 * p /\ left[k] = 2 * l - c
          /\ p \in Nat /\ l \in Int /\ c \in Nat
      BY <2>2, <3>2, <3>3, <3>4
    <3> HIDE DEF p, l, Q
    <3>6. FirstOf(lens, k) + c = 2 ^ k - left[k]
      <4> HIDE DEF c
      <4> QED BY <3>5
    <3> QED BY <3>6 DEF Q
  <2> QED BY <2>3, <2>4
<1>10. n \in Q
  <2> HIDE DEF Q
  <2>1. 0 .. n \subseteq Q
    BY <1>1, <1>8, <1>9, Upward
  <2> QED BY <2>1
<1>11. left[n] >= 0 /\ left[n] \in Int /\ 2 ^ n \in Nat
  BY <1>3, <1>7, Doubles
<1>12. FirstOf(lens, n) + CountOf(lens, n) = 2 ^ n - left[n]
  BY <1>10
<1> QED
  <2> DEFINE a == FirstOf(lens, n) + CountOf(lens, n)
             b == left[n]
             c == 2 ^ n
  <2>1. a = c - b /\ b \in Int /\ b >= 0 /\ c \in Nat
    BY <1>11, <1>12
  <2> HIDE DEF a, b, c
  <2>2. a <= c
    BY <2>1
  <2> QED BY <2>2 DEF a, c

(* The first code of a length lies above all the shorter ones.               *)
LEMMA FirstGrows ==
  ASSUME NEW lens, Alphabet(lens), NEW k \in Nat \ {0}, NEW n \in Nat, k < n
  PROVE  FirstOf(lens, n) >= (FirstOf(lens, k) + CountOf(lens, k)) * 2 ^ (n - k)
<1> DEFINE a == FirstOf(lens, k) + CountOf(lens, k)
           P == {j \in 0 .. (n - k) : j = 0 \/ FirstOf(lens, k + j) >= a * 2 ^ j}
<1>1. a \in Nat
  <2>1. FirstOf(lens, k) \in Nat
    BY FirstIs
  <2>2. CountOf(lens, k) \in Nat
    BY Counted
  <2> QED BY <2>1, <2>2
<1> HIDE DEF a
<1>2. 0 \in P
  OBVIOUS
<1>3. ASSUME NEW j \in 1 .. (n - k), j - 1 \in P PROVE j \in P
  <2>1. 2 ^ j = 2 * 2 ^ (j - 1) /\ 2 ^ (j - 1) \in Nat /\ 2 ^ 1 = 2
    <3>1. j - 1 \in Nat /\ j - 1 + 1 = j
      OBVIOUS
    <3> QED BY <3>1, Doubles
  <2>2. CASE j = 1
    <3>1. FirstOf(lens, k + 1) = a * 2
      BY FirstIs DEF a
    <3> QED BY <1>1, <2>1, <2>2, <3>1
  <2>3. CASE j # 1
    <3> DEFINE m == k + (j - 1)
               x == FirstOf(lens, m)
               c == CountOf(lens, m)
               p == 2 ^ (j - 1)
    <3>1. m \in Nat \ {0} /\ k + j = m + 1
      BY <2>3
    <3>2. x \in Nat /\ FirstOf(lens, m + 1) = (x + c) * 2 /\ c \in Nat
      BY <3>1, FirstIs, Counted
    <3>3. x >= a * p
      BY <1>3, <2>3
    <3>4. 2 ^ j = 2 * p /\ p \in Nat
      BY <2>1
    <3> HIDE DEF m, x, c, p
    <3>5. a * p \in Nat /\ a * (2 * p) = 2 * (a * p)
      BY <1>1, <3>4
    <3> DEFINE q == a * p
    <3>6. (x + c) * 2 >= 2 * q
      <4>1. q \in Nat /\ x >= q
        BY <3>3, <3>5
      <4> HIDE DEF q
      <4> QED BY <3>2, <4>1
    <3>7. FirstOf(lens, k + j) >= a * 2 ^ j
      BY <3>1, <3>2, <3>4, <3>5, <3>6
    <3> QED BY <3>7
  <2> QED BY <2>2, <2>3
<1>4. n - k \in P /\ n - k # 0 /\ k + (n - k) = n
  <2>1. n - k \in Nat /\ n - k \in 0 .. (n - k)
    OBVIOUS
  <2>2. 0 .. (n - k) \subseteq P
    <3> HIDE DEF P
    <3> QED BY <1>2, <1>3, <2>1, Upward
  <2> QED BY <2>1, <2>2
<1>5. FirstOf(lens, k + (n - k)) >= a * 2 ^ (n - k)
  BY <1>4
<1> QED
  BY <1>4, <1>5 DEF a

(* The place of a symbol among those of its length: each has another.        *)
Peers(lens, s) == {t \in DOMAIN lens : t < s /\ lens[t] = lens[s]}

(* A symbol's place among those of its length is its own.                   *)
LEMMA Placed ==
  ASSUME NEW lens, Alphabet(lens), NEW s \in DOMAIN lens
  PROVE  /\ Place(lens, s) \in Nat /\ Place(lens, s) < CountOf(lens, lens[s])
         /\ \A t \in DOMAIN lens : lens[t] = lens[s] /\ Place(lens, t) = Place(lens, s) => t = s
<1> DEFINE Same == {t \in DOMAIN lens : lens[t] = lens[s]}
<1>1. IsFiniteSet(Same) /\ CountOf(lens, lens[s]) = Cardinality(Same)
  BY Counted DEF CountOf
<1>2. ASSUME NEW t \in Same
      PROVE  /\ Peers(lens, t) \in SUBSET Same /\ IsFiniteSet(Peers(lens, t))
             /\ Cardinality(Peers(lens, t)) \in Nat /\ Place(lens, t) = Cardinality(Peers(lens, t))
  <2>1. Peers(lens, t) \in SUBSET Same
    BY DEF Peers
  <2>2. IsFiniteSet(Peers(lens, t))
    BY <1>1, <2>1, FS_Subset
  <2>3. Place(lens, t) = Cardinality(Peers(lens, t))
    BY DEF Place, Peers
  <2> QED BY <2>1, <2>2, <2>3, FS_CardinalityType
<1>3. s \in Same /\ s \notin Peers(lens, s)
  <2>1. s \in Int
    BY DEF Alphabet
  <2> QED BY <2>1 DEF Peers
<1>4. Cardinality(Peers(lens, s)) < Cardinality(Same)
  <2>1. /\ Cardinality(Peers(lens, s)) <= Cardinality(Same)
        /\ Cardinality(Same) = Cardinality(Peers(lens, s)) => Same = Peers(lens, s)
    BY <1>1, <1>2, <1>3, FS_Subset
  <2>2. Cardinality(Same) \in Nat
    BY <1>1, FS_CardinalityType
  <2> QED BY <1>2, <1>3, <2>1, <2>2
<1>5. ASSUME NEW t \in Same, NEW u \in Same, t < u
      PROVE  Cardinality(Peers(lens, t)) < Cardinality(Peers(lens, u))
  <2>0. DOMAIN lens \subseteq Int
    BY DEF Alphabet
  <2>1. Peers(lens, t) \in SUBSET Peers(lens, u) /\ t \in Peers(lens, u) /\ t \notin Peers(lens, t)
    BY <1>5, <2>0 DEF Peers
  <2>2. /\ Cardinality(Peers(lens, t)) <= Cardinality(Peers(lens, u))
        /\ Cardinality(Peers(lens, u)) = Cardinality(Peers(lens, t)) => Peers(lens, u) = Peers(lens, t)
    BY <1>2, <2>1, FS_Subset
  <2> QED BY <1>2, <2>1, <2>2
<1>6. ASSUME NEW t \in DOMAIN lens, lens[t] = lens[s], Place(lens, t) = Place(lens, s) PROVE t = s
  <2>1. t \in Same /\ t \in Int /\ s \in Int
    BY <1>6 DEF Alphabet
  <2>2. Cardinality(Peers(lens, t)) = Cardinality(Peers(lens, s)) /\ Cardinality(Peers(lens, t)) \in Nat
    BY <1>2, <1>3, <1>6, <2>1
  <2>3. ~(t < s) /\ ~(s < t)
    BY <1>3, <1>5, <2>1, <2>2
  <2> QED BY <2>1, <2>3
<1> QED
  BY <1>1, <1>2, <1>3, <1>4, <1>6

(* A code is a number of its length, and its beginnings are too big for the  *)
(* shorter codes.                                                            *)
CodeAt(lens, s) == FirstOf(lens, lens[s]) + Place(lens, s)

(* The canonical code of a symbol lies in the range of its length, and no   *)
(* shorter prefix of it lies in the range of another.                       *)
LEMMA CodeIs ==
  ASSUME NEW lens, Alphabet(lens), LeftOver(lens) >= 0, NEW s \in DOMAIN lens,
         lens[s] \in 1 .. MaxBits
  PROVE  /\ CodeAt(lens, s) \in Nat /\ CodeAt(lens, s) < 2 ^ lens[s]
         /\ CodeAt(lens, s) - CountOf(lens, lens[s]) < FirstOf(lens, lens[s])
         /\ CodeAt(lens, s) - FirstOf(lens, lens[s]) = Place(lens, s)
         /\ \A k \in 1 .. (lens[s] - 1) :
              ~((CodeAt(lens, s) \div 2 ^ (lens[s] - k)) - CountOf(lens, k) < FirstOf(lens, k))
<1> DEFINE n == lens[s]
           f == FirstOf(lens, n)
           p == Place(lens, s)
           c == CountOf(lens, n)
<1>1. n \in Nat \ {0} /\ n \in 1 .. MaxBits
  OBVIOUS
<1>2. f \in Nat /\ p \in Nat /\ c \in Nat /\ p < c
  <2>1. f \in Nat
    BY <1>1, FirstIs
  <2>2. c \in Nat
    BY Counted
  <2>3. p \in Nat /\ p < c
    BY Placed
  <2> QED BY <2>1, <2>2, <2>3
<1>3. f + c <= 2 ^ n /\ 2 ^ n \in Nat
  BY <1>1, CodesFit, Doubles
<1>4. ASSUME NEW k \in 1 .. (n - 1)
      PROVE  ~(((f + p) \div 2 ^ (n - k)) - CountOf(lens, k) < FirstOf(lens, k))
  <2> DEFINE a == FirstOf(lens, k) + CountOf(lens, k)
             q == 2 ^ (n - k)
  <2>1. FirstOf(lens, k) \in Nat
    <3>1. k \in Nat \ {0}
      OBVIOUS
    <3> QED BY <3>1, FirstIs
  <2>2. CountOf(lens, k) \in Nat
    BY Counted
  <2>3. q \in Nat \ {0}
    <3>1. n - k \in Nat
      BY <1>1
    <3> QED BY <3>1, Doubles
  <2>4. f >= a * q
    <3>1. k \in Nat \ {0} /\ n \in Nat /\ k < n
      BY <1>1
    <3> QED BY <3>1, FirstGrows
  <2> DEFINE d == (f + p) \div q
             r == (f + p) % q
  <2>5. f + p = d * q + r /\ d \in Nat /\ r \in 0 .. (q - 1)
    <3> HIDE DEF f, p, q
    <3> QED BY <1>2, <2>3
  <2>6. d >= a
    <3> HIDE DEF d, r, q, f, p
    <3>1. a \in Nat
      BY <2>1, <2>2
    <3> HIDE DEF a
    <3>2. ASSUME d < a PROVE FALSE
      <4>1. d + 1 <= a
        BY <3>1, <3>2, <2>5
      <4>2. (d + 1) * q <= a * q
        BY <2>3, <2>5, <3>1, <4>1
      <4>3. (d + 1) * q = d * q + q /\ d * q \in Nat /\ a * q \in Nat
        BY <2>3, <2>5, <3>1
      <4> DEFINE x == d * q
                 y == a * q
                 z == (d + 1) * q
      <4>4. z = x + q /\ z <= y /\ x \in Nat /\ y \in Nat /\ f >= y /\ f + p = x + r
        BY <2>4, <2>5, <4>2, <4>3
      <4> HIDE DEF x, y, z
      <4> QED BY <1>2, <2>3, <2>5, <4>4
    <3> QED BY <2>5, <3>1, <3>2
  <2> HIDE DEF d, q, f, p
  <2>7. ~(d - CountOf(lens, k) < FirstOf(lens, k))
    BY <2>1, <2>2, <2>5, <2>6
  <2> QED BY <2>7 DEF d, q
<1>5. CodeAt(lens, s) = f + p
  BY DEF CodeAt
<1> HIDE DEF f, p, c
<1>6. f + p \in Nat /\ f + p < 2 ^ n /\ (f + p) - c < f /\ (f + p) - f = p
  BY <1>2, <1>3
<1> QED
  BY <1>4, <1>5, <1>6 DEF f, p, c

(* What is written of a code: its bits, the highest first.                  *)
LEMMA CodeBitsAre ==
  ASSUME NEW lens, Alphabet(lens), LeftOver(lens) >= 0, NEW s \in DOMAIN lens,
         lens[s] \in 1 .. MaxBits
  PROVE  /\ CodeBits(lens, s) \in Seq(Bits01) /\ Len(CodeBits(lens, s)) = lens[s]
         /\ \A k \in 1 .. lens[s] :
              CodeBits(lens, s)[k] = (CodeAt(lens, s) \div 2 ^ (lens[s] - k)) % 2
<1> DEFINE n == lens[s]
           c == CodeAt(lens, s)
           b == BitsOf(c, n)
<1>1. c \in Nat /\ n \in Nat
  BY CodeIs
<1>2. /\ b \in Seq(Bits01) /\ Len(b) = n
      /\ \A k \in 1 .. n : b[k] = (c \div 2 ^ (k - 1)) % 2
  BY <1>1, BitsAreBits
<1>3. CodeBits(lens, s) = Reverse(b)
  BY DEF CodeBits, CodeAt
<1>4. Reverse(b) = [k \in 1 .. n |-> b[(n - k) + 1]]
  BY <1>2 DEF Reverse
<1>5. ASSUME NEW k \in 1 .. n
      PROVE  b[(n - k) + 1] = (c \div 2 ^ (n - k)) % 2 /\ b[(n - k) + 1] \in Bits01
  <2> DEFINE j == (n - k) + 1
  <2>1. j \in 1 .. n /\ j - 1 = n - k
    BY <1>1
  <2> HIDE DEF j, b, c
  <2>2. b[j] \in Bits01
    BY <1>2, <2>1, ElementOfSeq
  <2>3. b[j] = (c \div 2 ^ (j - 1)) % 2
    BY <1>2, <2>1
  <2> QED BY <2>1, <2>2, <2>3 DEF j
<1> HIDE DEF b, c
<1>6. Reverse(b) \in Seq(Bits01) /\ Len(Reverse(b)) = n
  <2> DEFINE g == [k \in 1 .. n |-> b[(n - k) + 1]]
  <2>1. g \in [1 .. n -> Bits01]
    BY <1>5
  <2>2. g \in Seq(Bits01) /\ Len(g) = n
    BY <1>1, <2>1
  <2> QED BY <1>4, <2>2
<1> QED
  BY <1>3, <1>4, <1>5, <1>6 DEF c

(* inf_decode as the walk it makes over the bits.                            *)
DecodeBy(code, at, lens) ==
  LET ends == {n \in 1 .. MaxBits : code[n] - CountOf(lens, n) < FirstOf(lens, n)}
      n    == CHOOSE n \in ends : \A m \in ends : n <= m
  IN IF ends = {} \/ ~Has(at, n) THEN [sym |-> None, at |-> at]
     ELSE [sym |-> CHOOSE s \in DOMAIN lens :
                     lens[s] = n /\ Place(lens, s) = code[n] - FirstOf(lens, n),
           at |-> at + n]

(* What is read past the end is a bit too.                                  *)
LEMMA BitIs ==
  ASSUME bits \in Seq(Bits01), NEW i \in Nat
  PROVE  Bit(i) \in Bits01
<1>1. CASE i < Len(bits)
  <2>1. i + 1 \in 1 .. Len(bits)
    BY <1>1, LenProperties
  <2> QED BY <1>1, <2>1, ElementOfSeq DEF Bit
<1>2. CASE ~(i < Len(bits))
  BY <1>2 DEF Bit, Bits01
<1> QED
  BY <1>1, <1>2

Walk(code, at) ==
  /\ code \in [0 .. MaxBits -> Nat] /\ code[0] = 0
  /\ \A n \in 1 .. MaxBits : code[n] = 2 * code[n - 1] + Bit(at + n - 1)

(* inf_decode reads the code bit by bit.                                    *)
LEMMA DecodeIs ==
  ASSUME bits \in Seq(Bits01), NEW lens, NEW at \in Nat
  PROVE  \E code : Walk(code, at) /\ Decode(at, lens) = DecodeBy(code, at, lens)
<1> DEFINE V == Nat
           G == [x \in V \X (1 .. MaxBits) |-> 2 * x[1] + Bit(at + x[2] - 1)]
           Is(f) == f = [n \in 0 .. MaxBits |->
                           IF n = 0 THEN 0 ELSE 2 * f[n - 1] + Bit(at + n - 1)]
<1>1. MaxBits \in Nat /\ 0 \in V
  BY FormatAssumption
<1>2. ASSUME NEW v \in V, NEW n \in 1 .. MaxBits PROVE 2 * v + Bit(at + n - 1) \in V
  <2>1. at + n - 1 \in Nat
    OBVIOUS
  <2>2. Bit(at + n - 1) \in Bits01
    BY <2>1, BitIs
  <2> QED BY <2>2 DEF Bits01
<1>3. G \in [V \X (1 .. MaxBits) -> V]
  BY <1>2
<1>4. ASSUME NEW v \in V, NEW n \in 1 .. MaxBits
      PROVE  G[<<v, n>>] = 2 * v + Bit(at + n - 1)
  OBVIOUS
<1> HIDE DEF G, V
<1>5. PICK g \in [0 .. MaxBits -> V] : Follows(g, MaxBits, 0, G)
  BY <1>1, <1>3, Recursion
<1>6. Is(g)
  <2>1. ASSUME NEW n \in 0 .. MaxBits
        PROVE  g[n] = IF n = 0 THEN 0 ELSE 2 * g[n - 1] + Bit(at + n - 1)
    <3>1. CASE n = 0
      BY <1>5, <3>1 DEF Follows
    <3>2. CASE n # 0
      <4>1. n \in 1 .. MaxBits /\ n - 1 \in 0 .. MaxBits
        BY <1>1, <3>2
      <4>2. g[n] = G[<<g[n - 1], n>>] /\ g[n - 1] \in V
        BY <1>5, <4>1 DEF Follows
      <4> QED BY <1>4, <3>2, <4>1, <4>2
    <3> QED BY <3>1, <3>2
  <2>2. g = [n \in 0 .. MaxBits |-> g[n]]
    BY <1>5
  <2> QED BY <2>1, <2>2
<1> DEFINE f == CHOOSE f : Is(f)
<1>7. Is(f)
  BY <1>6
<1>8. Decode(at, lens) = DecodeBy(f, at, lens)
  BY DEF Decode, DecodeBy
<1> HIDE DEF f
<1> DEFINE P == {n \in 0 .. MaxBits : f[n] = g[n]}
<1>9. 0 \in P
  BY <1>1, <1>6, <1>7
<1>10. ASSUME NEW n \in 1 .. MaxBits, n - 1 \in P PROVE n \in P
  <2>1. n \in 0 .. MaxBits /\ n # 0 /\ f[n - 1] = g[n - 1]
    BY <1>1, <1>10
  <2> QED BY <1>6, <1>7, <2>1
<1>11. \A n \in 0 .. MaxBits : f[n] = g[n]
  <2>1. 0 .. MaxBits \subseteq P
    <3> HIDE DEF P
    <3> QED BY <1>1, <1>9, <1>10, Upward
  <2> QED BY <2>1
<1>12. f = g
  <2>1. g = [n \in 0 .. MaxBits |-> g[n]]
    BY <1>5
  <2>2. f = [n \in 0 .. MaxBits |-> f[n]]
    BY <1>7
  <2> QED BY <1>11, <2>1, <2>2
<1>13. \A n \in 1 .. MaxBits : g[n] = 2 * g[n - 1] + Bit(at + n - 1)
  <2>1. ASSUME NEW n \in 1 .. MaxBits PROVE g[n] = 2 * g[n - 1] + Bit(at + n - 1)
    <3>1. n \in 0 .. MaxBits /\ n # 0
      BY <1>1
    <3> QED BY <1>6, <3>1
  <2> QED BY <2>1
<1>14. g \in [0 .. MaxBits -> Nat] /\ g[0] = 0
  BY <1>5 DEF V, Follows
<1> QED
  BY <1>8, <1>12, <1>13, <1>14 DEF Walk

(* Reading one more bit of a number.                                        *)
LEMMA OneBit ==
  ASSUME NEW c \in Nat, NEW p \in Nat \ {0}
  PROVE  c \div p \in Nat /\ c \div p = 2 * (c \div (2 * p)) + ((c \div p) % 2)
<1> DEFINE d == c \div p
<1>1. d \in Nat
  OBVIOUS
<1>2. c \div (2 * p) = d \div 2
  OBVIOUS
<1> HIDE DEF d
<1> DEFINE h == d \div 2
           r == d % 2
<1>3. h \in Nat /\ r \in 0 .. 1 /\ d = 2 * h + r
  BY <1>1
<1> QED
  BY <1>1, <1>2, <1>3 DEF d

(* huff_assign against inf_decode: as far as the code of a symbol has        *)
(* arrived, the walk is at the number its bits make so far.                  *)
LEMMA WalkIs ==
  ASSUME NEW W \in Seq(Bits01), bits \in Seq(Bits01), Arrives(W),
         NEW lens, Alphabet(lens), LeftOver(lens) >= 0, NEW s \in DOMAIN lens,
         lens[s] \in 1 .. MaxBits, NEW at \in Nat, Holds(W, at, CodeBits(lens, s)),
         NEW code, Walk(code, at), NEW m \in 0 .. lens[s], Has(at, m)
  PROVE  code[m] = CodeAt(lens, s) \div 2 ^ (lens[s] - m)
<1> DEFINE n == lens[s]
           c == CodeAt(lens, s)
           P == {k \in 0 .. m : code[k] = c \div 2 ^ (n - k)}
<1>0. MaxBits \in Nat /\ n \in 1 .. MaxBits /\ m \in 0 .. n
  BY FormatAssumption
<1>a. c \in Nat /\ c < 2 ^ n
  BY CodeIs
<1>b. /\ \A k \in 1 .. MaxBits : code[k] = 2 * code[k - 1] + Bit(at + k - 1)
      /\ \A k \in 1 .. n : CodeBits(lens, s)[k] = (c \div 2 ^ (n - k)) % 2
      /\ Len(CodeBits(lens, s)) = n /\ code[0] = 0
  BY CodeBitsAre DEF Walk
<1> HIDE DEF c, n
<1>1. n \in Nat /\ m \in Nat /\ 2 ^ n \in Nat \ {0}
  <2>1. n \in Nat /\ m \in Nat
    BY <1>0
  <2> QED BY <2>1, Doubles
<1>2. 0 \in P
  <2> DEFINE p == 2 ^ n
  <2>1. p \in Nat \ {0} /\ c \in Nat /\ c < p
    BY <1>1, <1>a
  <2> HIDE DEF p
  <2>2. c \div p = 0
    BY <2>1
  <2>3. n - 0 = n
    BY <1>1
  <2> QED BY <1>1, <1>b, <2>2, <2>3 DEF p
<1>3. ASSUME NEW k \in 1 .. m, k - 1 \in P PROVE k \in P
  <2>1. k \in 1 .. n /\ k \in 1 .. MaxBits /\ n - k \in Nat /\ n - (k - 1) = (n - k) + 1
    BY <1>0, <1>1
  <2>2. Bit(at + k - 1) = (c \div 2 ^ (n - k)) % 2
    <3>1. at + k - 1 < Len(bits) /\ at + k - 1 + 1 = at + k /\ at + k \in 1 .. Len(bits)
      BY LenProperties DEF Has
    <3>2. Bit(at + k - 1) = bits[at + k]
      BY <3>1 DEF Bit
    <3>3. bits[at + k] = W[at + k]
      BY <3>1 DEF Arrives
    <3>4. W[at + k] = CodeBits(lens, s)[k]
      BY <1>b, <2>1 DEF Holds
    <3> QED
      BY <1>b, <2>1, <3>2, <3>3, <3>4
  <2> DEFINE p == 2 ^ (n - k)
  <2>3. p \in Nat \ {0} /\ 2 ^ ((n - k) + 1) = 2 * p
    BY <2>1, Doubles
  <2>4. code[k - 1] = c \div (2 * p)
    BY <1>3, <2>1, <2>3
  <2>5. code[k] = 2 * code[k - 1] + Bit(at + k - 1)
    BY <1>b, <2>1
  <2> HIDE DEF p, P
  <2>6. c \div p = 2 * (c \div (2 * p)) + ((c \div p) % 2)
    <3>1. c \in Nat /\ p \in Nat \ {0}
      BY <1>a, <2>3
    <3> QED BY <3>1, OneBit
  <2>7. Bit(at + k - 1) = (c \div p) % 2
    BY <2>2 DEF p
  <2>8. code[k] = c \div p
    <3> DEFINE x == c \div (2 * p)
               y == (c \div p) % 2
    <3>1. code[k] = 2 * x + y /\ c \div p = 2 * x + y
      BY <2>4, <2>5, <2>6, <2>7
    <3> QED BY <3>1
  <2>9. k \in 0 .. m
    OBVIOUS
  <2> QED BY <2>8, <2>9 DEF p, P
<1>4. m \in P
  <2> HIDE DEF P
  <2>1. 0 .. m \subseteq P
    BY <1>1, <1>2, <1>3, Upward
  <2> QED BY <1>1, <2>1
<1> QED
  BY <1>4 DEF c, n

(* What one writes as the code of a symbol the other reads as that symbol,   *)
(* or as nothing when not all of its bits have arrived.                      *)
THEOREM CodesComeBack ==
  ASSUME NEW W \in Seq(Bits01), bits \in Seq(Bits01), Arrives(W),
         NEW lens, Alphabet(lens), LeftOver(lens) >= 0, NEW s \in DOMAIN lens,
         lens[s] \in 1 .. MaxBits, NEW at \in Nat, Holds(W, at, CodeBits(lens, s))
  PROVE  Decode(at, lens) = IF Has(at, lens[s]) THEN [sym |-> s, at |-> at + lens[s]]
                                                ELSE [sym |-> None, at |-> at]
<1> DEFINE n == lens[s]
           c == CodeAt(lens, s)
<1>1. PICK code : Walk(code, at) /\ Decode(at, lens) = DecodeBy(code, at, lens)
  BY DecodeIs
<1>2. ASSUME NEW k \in 0 .. n, Has(at, k) PROVE code[k] = c \div 2 ^ (n - k)
  <2>1. k \in 0 .. lens[s]
    OBVIOUS
  <2>2. code[k] = CodeAt(lens, s) \div 2 ^ (lens[s] - k)
    <3> HIDE DEF n, c
    <3> QED BY <1>1, <1>2, <2>1, WalkIs
  <2> QED BY <2>2
<1> DEFINE ends == {k \in 1 .. MaxBits : code[k] - CountOf(lens, k) < FirstOf(lens, k)}
           e    == CHOOSE k \in ends : \A j \in ends : k <= j
           here == CHOOSE t \in DOMAIN lens :
                     lens[t] = e /\ Place(lens, t) = code[e] - FirstOf(lens, e)
<1>3. Decode(at, lens) = IF ends = {} \/ ~Has(at, e) THEN [sym |-> None, at |-> at]
                         ELSE [sym |-> here, at |-> at + e]
  BY <1>1 DEF DecodeBy
<1>4. /\ c \in Nat /\ c < 2 ^ n /\ c - CountOf(lens, n) < FirstOf(lens, n)
      /\ c - FirstOf(lens, n) = Place(lens, s)
      /\ \A k \in 1 .. (n - 1) :
           ~((c \div 2 ^ (n - k)) - CountOf(lens, k) < FirstOf(lens, k))
  BY CodeIs
<1>5. MaxBits \in Nat /\ n \in Nat /\ n \in 1 .. MaxBits /\ Len(bits) \in Nat
  BY FormatAssumption, LenProperties
<1> HIDE DEF c
<1>6. ASSUME NEW k \in ends, Has(at, k) PROVE k >= n /\ Has(at, n)
  <2>1. ASSUME k < n PROVE FALSE
    <3>1. k \in 1 .. (n - 1) /\ k \in 0 .. n
      BY <1>5, <2>1
    <3>2. code[k] = c \div 2 ^ (n - k)
      BY <1>2, <1>6, <3>1
    <3> QED BY <1>4, <3>1, <3>2
  <2>2. k \in Nat
    BY <1>5
  <2> QED BY <1>5, <1>6, <2>1, <2>2 DEF Has
<1>7. ends # {} => e \in ends /\ \A j \in ends : e <= j
  <2>1. ASSUME ends # {} PROVE \E k \in ends : \A j \in ends : k <= j
    <3> DEFINE back == {j \in 0 .. MaxBits : MaxBits - j \in ends}
    <3>1. PICK k \in ends : TRUE
      BY <2>1
    <3>2. \A j \in ends : j \in 1 .. MaxBits /\ MaxBits - j \in back
      BY <1>5
    <3>3. back # {} /\ back \in SUBSET (0 .. MaxBits)
      BY <3>1, <3>2
    <3>4. PICK b \in back : \A j \in back : j <= b
      <4> HIDE DEF back
      <4> QED BY <1>5, <3>3, Greatest
    <3>5. MaxBits - b \in ends /\ b \in 0 .. MaxBits
      OBVIOUS
    <3>6. ASSUME NEW j \in ends PROVE MaxBits - b <= j
      <4>1. j \in 1 .. MaxBits /\ MaxBits - j \in back
        BY <3>2
      <4> HIDE DEF back, ends
      <4>2. MaxBits - j <= b
        BY <3>4, <4>1
      <4> QED BY <1>5, <3>5, <4>1, <4>2
    <3> QED BY <3>5, <3>6
  <2> HIDE DEF ends
  <2> QED BY <2>1
<1>8. CASE Has(at, n)
  <2>1. code[n] = c
    <3>1. n \in 0 .. n /\ n - n = 0 /\ 2 ^ 0 = 1
      BY <1>5
    <3>2. code[n] = c \div 2 ^ (n - n)
      BY <1>2, <1>8, <3>1
    <3>3. c \div 1 = c
      BY <1>4
    <3> QED BY <3>1, <3>2, <3>3
  <2>2. n \in ends
    BY <1>4, <1>5, <2>1
  <2>3. e = n
    <3>0. \A k \in ends : k \in Nat
      BY <1>5
    <3>1. e \in ends /\ e <= n /\ e \in Nat
      <4> HIDE DEF e, ends
      <4> QED BY <1>7, <2>2, <3>0
    <3>2. Has(at, e)
      BY <1>5, <1>8, <3>1 DEF Has
    <3>3. e >= n
      <4> HIDE DEF e, ends
      <4> QED BY <1>6, <3>1, <3>2
    <3> QED BY <1>5, <3>1, <3>3
  <2>4. here = s
    <3> HIDE DEF e
    <3>1. lens[s] = e /\ Place(lens, s) = code[e] - FirstOf(lens, e)
      BY <1>4, <2>1, <2>3
    <3>2. here \in DOMAIN lens /\ lens[here] = e /\ Place(lens, here) = Place(lens, s)
      BY <3>1
    <3> HIDE DEF here
    <3> QED BY <2>3, <3>2, Placed
  <2> HIDE DEF e, here, ends
  <2> QED BY <1>3, <1>8, <2>2, <2>3, <2>4
<1>9. CASE ~Has(at, n)
  <2>1. ends = {} \/ ~Has(at, e)
    <3> HIDE DEF e, ends
    <3> QED BY <1>6, <1>7, <1>9
  <2> HIDE DEF e, here, ends
  <2> QED BY <1>3, <1>9, <2>1
<1> QED
  BY <1>8, <1>9

(* Two tables with the same symbols of each length are one code: those that  *)
(* differ in where their symbols without a code end.                         *)
Alike(a, b) ==
  \A n \in 1 .. MaxBits : {s \in DOMAIN a : a[s] = n} = {s \in DOMAIN b : b[s] = n}

(* Tables with the same symbols at each length count the same.              *)
LEMMA AlikeFirst ==
  ASSUME NEW a, NEW b, Alphabet(a), Alphabet(b), Alike(a, b), NEW n \in 1 .. MaxBits
  PROVE  CountOf(a, n) = CountOf(b, n) /\ FirstOf(a, n) = FirstOf(b, n)
<1>1. \A k \in 1 .. MaxBits : CountOf(a, k) = CountOf(b, k)
  BY DEF CountOf, Alike
<1> DEFINE P == {k \in 0 .. n : k = 0 \/ FirstOf(a, k) = FirstOf(b, k)}
<1>2. 0 \in P
  OBVIOUS
<1>3. ASSUME NEW k \in 1 .. n, k - 1 \in P PROVE k \in P
  <2>1. CASE k = 1
    BY <2>1, FirstIs
  <2>2. CASE k # 1
    <3>1. k - 1 \in Nat \ {0} /\ k - 1 + 1 = k /\ k - 1 \in 1 .. MaxBits /\ k - 1 # 0
      BY <2>2, FormatAssumption
    <3>2. /\ FirstOf(a, k - 1 + 1) = (FirstOf(a, k - 1) + CountOf(a, k - 1)) * 2
          /\ FirstOf(b, k - 1 + 1) = (FirstOf(b, k - 1) + CountOf(b, k - 1)) * 2
      BY <3>1, FirstIs
    <3>3. FirstOf(a, k - 1) = FirstOf(b, k - 1)
      BY <1>3, <3>1
    <3>4. FirstOf(a, k) = FirstOf(b, k)
      BY <1>1, <3>1, <3>2, <3>3
    <3> QED BY <3>4
  <2> QED BY <2>1, <2>2
<1>4. n \in P
  <2> HIDE DEF P
  <2>1. n \in Nat
    BY FormatAssumption
  <2>2. 0 .. n \subseteq P
    BY <1>2, <1>3, <2>1, Upward
  <2> QED BY <2>1, <2>2
<1>5. n # 0
  BY FormatAssumption
<1> QED
  BY <1>1, <1>4, <1>5

(* They leave the same room.                                                *)
LEMMA AlikeLeft ==
  ASSUME NEW a, NEW b, Alphabet(a), Alphabet(b), Alike(a, b)
  PROVE  LeftOver(a) = LeftOver(b)
<1>1. PICK l : Lefts(l, a)
  BY LeftIs
<1>2. PICK m : Lefts(m, b)
  BY LeftIs
<1> DEFINE P == {k \in 0 .. MaxBits : l[k] = m[k]}
<1>3. 0 \in P
  BY <1>1, <1>2, FormatAssumption DEF Lefts
<1>4. ASSUME NEW k \in 1 .. MaxBits, k - 1 \in P PROVE k \in P
  <2>1. CountOf(a, k) = CountOf(b, k) /\ l[k - 1] = m[k - 1] /\ k \in 0 .. MaxBits
    BY <1>4, AlikeFirst, FormatAssumption
  <2>2. l[k] = IF l[k - 1] < 0 THEN l[k - 1] ELSE 2 * l[k - 1] - CountOf(a, k)
    BY <1>1 DEF Lefts
  <2>3. m[k] = IF m[k - 1] < 0 THEN m[k - 1] ELSE 2 * m[k - 1] - CountOf(b, k)
    BY <1>2 DEF Lefts
  <2> QED BY <2>1, <2>2, <2>3
<1>5. MaxBits \in P
  <2> HIDE DEF P
  <2>1. MaxBits \in Nat
    BY FormatAssumption
  <2>2. 0 .. MaxBits \subseteq P
    BY <1>3, <1>4, <2>1, Upward
  <2> QED BY <2>1, <2>2
<1> QED
  BY <1>1, <1>2, <1>5 DEF Lefts

(* And they give a symbol the same code.                                    *)
LEMMA AlikeBits ==
  ASSUME NEW a, NEW b, Alphabet(a), Alphabet(b), Alike(a, b),
         NEW s \in DOMAIN a, a[s] \in 1 .. MaxBits
  PROVE  s \in DOMAIN b /\ b[s] = a[s] /\ CodeBits(b, s) = CodeBits(a, s)
<1>1. {t \in DOMAIN a : a[t] = a[s]} = {t \in DOMAIN b : b[t] = a[s]}
  BY DEF Alike
<1>2. s \in DOMAIN b /\ b[s] = a[s]
  BY <1>1
<1>3. {t \in DOMAIN a : t < s /\ a[t] = a[s]} = {t \in DOMAIN b : t < s /\ b[t] = b[s]}
  BY <1>1, <1>2
<1>4. Place(a, s) = Place(b, s)
  BY <1>3 DEF Place
<1>5. FirstOf(a, a[s]) = FirstOf(b, b[s])
  BY <1>2, AlikeFirst
<1> QED
  BY <1>2, <1>4, <1>5 DEF CodeBits

(***************************************************************************)
(* The Huffman tree.                                                         *)
(***************************************************************************)
LEMMA UsedIs ==
  ASSUME NEW freq, Alphabet(freq)
  PROVE  /\ IsFiniteSet(Used(freq)) /\ Cardinality(Used(freq)) \in Nat
         /\ Used(freq) \subseteq DOMAIN freq /\ Used(freq) \subseteq Int
         /\ \A s \in Used(freq) : freq[s] \in Nat \ {0}
         /\ \A s \in DOMAIN freq \ Used(freq) : freq[s] = 0
<1>1. Used(freq) \in SUBSET DOMAIN freq
  BY DEF Used
<1>2. IsFiniteSet(Used(freq))
  BY <1>1, FS_Subset DEF Alphabet
<1>3. DOMAIN freq \subseteq Int /\ \A s \in DOMAIN freq : freq[s] \in Nat
  BY DEF Alphabet
<1>4. \A s \in Used(freq) : freq[s] > 0
  BY DEF Used
<1>5. \A s \in DOMAIN freq \ Used(freq) : ~(freq[s] > 0)
  BY DEF Used
<1> QED
  BY <1>1, <1>2, <1>3, <1>4, <1>5, FS_CardinalityType

(* The symbols in use stand in a row, each once.                             *)
Below(freq, s) == {t \in Used(freq) : Rarer(freq, t, s)}

(* sort_by_freq lists every used symbol, once.                              *)
LEMMA OrderedIs ==
  ASSUME NEW freq, Alphabet(freq)
  PROVE  LET r == Cardinality(Used(freq))
             o == Ordered(freq)
         IN  /\ o \in [1 .. r -> Used(freq)]
             /\ \A i, j \in 1 .. r : o[i] = o[j] => i = j
             /\ \A s \in Used(freq) : \E i \in 1 .. r : o[i] = s
<1> DEFINE U == Used(freq)
           r == Cardinality(U)
           R == [s \in U |-> Cardinality(Below(freq, s)) + 1]
<1>1. /\ IsFiniteSet(U) /\ r \in Nat /\ U \subseteq Int
      /\ \A s \in U : freq[s] \in Nat
  BY UsedIs
<1>2. ASSUME NEW s \in U
      PROVE  /\ Below(freq, s) \in SUBSET U /\ IsFiniteSet(Below(freq, s)) /\ s \notin Below(freq, s)
             /\ Cardinality(Below(freq, s)) \in Nat /\ Cardinality(Below(freq, s)) < r
  <2>1. Below(freq, s) \in SUBSET U
    BY DEF Below
  <2>2. s \notin Below(freq, s)
    BY <1>1 DEF Below, Rarer
  <2> HIDE DEF U
  <2>3. /\ IsFiniteSet(Below(freq, s)) /\ Cardinality(Below(freq, s)) <= r
        /\ r = Cardinality(Below(freq, s)) => U = Below(freq, s)
    BY <1>1, <2>1, FS_Subset
  <2>4. Cardinality(Below(freq, s)) \in Nat
    BY <2>3, FS_CardinalityType
  <2> QED BY <1>1, <2>1, <2>2, <2>3, <2>4
<1>3. ASSUME NEW s \in U, NEW t \in U, Rarer(freq, s, t)
      PROVE  Cardinality(Below(freq, s)) < Cardinality(Below(freq, t))
  <2>1. ASSUME NEW u \in Below(freq, s) PROVE u \in Below(freq, t)
    <3>1. u \in U /\ Rarer(freq, u, s)
      BY DEF Below
    <3>2. Rarer(freq, u, t)
      <4>1. freq[u] \in Nat /\ freq[s] \in Nat /\ freq[t] \in Nat /\ u \in Int /\ s \in Int /\ t \in Int
        BY <1>1, <3>1
      <4> QED BY <1>3, <3>1, <4>1 DEF Rarer
    <3> QED BY <3>1, <3>2 DEF Below
  <2>2. s \in Below(freq, t)
    BY <1>3 DEF Below
  <2>3. Below(freq, s) \in SUBSET Below(freq, t) /\ Below(freq, s) # Below(freq, t)
    BY <1>2, <2>1, <2>2
  <2>4. /\ Cardinality(Below(freq, s)) <= Cardinality(Below(freq, t))
        /\ Cardinality(Below(freq, t)) = Cardinality(Below(freq, s)) => Below(freq, t) = Below(freq, s)
    BY <1>2, <2>3, FS_Subset
  <2> QED BY <1>2, <2>3, <2>4
<1>4. \A s, t \in U : s = t \/ Rarer(freq, s, t) \/ Rarer(freq, t, s)
  BY <1>1 DEF Rarer
<1>5. \A s, t \in U : Cardinality(Below(freq, s)) = Cardinality(Below(freq, t)) => s = t
  <2> HIDE DEF U
  <2>1. ASSUME NEW s \in U, NEW t \in U, Cardinality(Below(freq, s)) = Cardinality(Below(freq, t))
        PROVE  s = t
    <3>1. Cardinality(Below(freq, s)) \in Nat
      BY <1>2
    <3>2. ~Rarer(freq, s, t) /\ ~Rarer(freq, t, s)
      BY <1>3, <2>1, <3>1
    <3> QED BY <1>4, <3>2
  <2> QED BY <2>1
<1>6. R \in Injection(U, 1 .. r)
  <2>1. \A s \in U : Cardinality(Below(freq, s)) + 1 \in 1 .. r
    BY <1>1, <1>2
  <2>2. R \in [U -> 1 .. r]
    BY <2>1
  <2>3. \A s, t \in U : R[s] = R[t] => s = t
    <3>1. ASSUME NEW s \in U, NEW t \in U, R[s] = R[t] PROVE s = t
      <4>1. Cardinality(Below(freq, s)) + 1 = Cardinality(Below(freq, t)) + 1
        BY <3>1
      <4>2. Cardinality(Below(freq, s)) \in Nat /\ Cardinality(Below(freq, t)) \in Nat
        BY <1>2
      <4> QED BY <1>5, <4>1, <4>2
    <3> QED BY <3>1
  <2> HIDE DEF R, U
  <2> QED BY <2>2, <2>3 DEF Injection, IsInjective
<1>7. R \in Surjection(U, 1 .. r)
  <2>1. IsFiniteSet(1 .. r) /\ Cardinality(1 .. r) = r
    BY <1>1, FS_Interval
  <2> HIDE DEF R, U, r
  <2> QED BY <1>6, <2>1, FS_Injection DEF r
<1>8. \A i \in 1 .. r : \E s \in U : Cardinality(Below(freq, s)) = i - 1
  <2>1. ASSUME NEW i \in 1 .. r PROVE \E s \in U : Cardinality(Below(freq, s)) = i - 1
    <3>1. PICK s \in U : R[s] = i
      <4> HIDE DEF R, U, r
      <4> QED BY <1>7 DEF Surjection
    <3>2. Cardinality(Below(freq, s)) + 1 = i /\ Cardinality(Below(freq, s)) \in Nat
      BY <1>2, <3>1
    <3>3. Cardinality(Below(freq, s)) = i - 1
      BY <3>2
    <3> QED BY <3>3
  <2> QED BY <2>1
<1> DEFINE o == Ordered(freq)
<1>9. o = [i \in 1 .. r |-> CHOOSE s \in U : Cardinality(Below(freq, s)) = i - 1]
  BY DEF Ordered, Below
<1> HIDE DEF o, R, U, r
<1>10. \A i \in 1 .. r : o[i] \in U /\ Cardinality(Below(freq, o[i])) = i - 1
  <2>1. ASSUME NEW i \in 1 .. r PROVE o[i] \in U /\ Cardinality(Below(freq, o[i])) = i - 1
    <3>1. o[i] = CHOOSE s \in U : Cardinality(Below(freq, s)) = i - 1
      BY <1>9
    <3> QED BY <1>8, <3>1
  <2> QED BY <2>1
<1>11. o \in [1 .. r -> U]
  <2>1. o = [i \in 1 .. r |-> o[i]]
    BY <1>9
  <2> QED BY <1>10, <2>1
<1>12. \A i, j \in 1 .. r : o[i] = o[j] => i = j
  <2>1. ASSUME NEW i \in 1 .. r, NEW j \in 1 .. r, o[i] = o[j] PROVE i = j
    <3>1. i - 1 = j - 1
      BY <1>10, <2>1
    <3> QED BY <1>1, <3>1
  <2> QED BY <2>1
<1>13. \A s \in U : \E i \in 1 .. r : o[i] = s
  <2>1. ASSUME NEW s \in U PROVE \E i \in 1 .. r : o[i] = s
    <3> DEFINE i == Cardinality(Below(freq, s)) + 1
    <3>1. i \in 1 .. r /\ Cardinality(Below(freq, s)) = i - 1
      BY <1>1, <1>2
    <3>2. o[i] = s
      <4> HIDE DEF i
      <4> QED BY <1>5, <1>10, <3>1
    <3> QED BY <3>1, <3>2
  <2> QED BY <2>1
<1> QED
  BY <1>11, <1>12, <1>13 DEF o, U, r

(* The room that the codes of a set of symbols take among all the codes of D *)
(* bits, and a set whose codes take all of it.                               *)
Room(B, lens, D) == {p \in B \X Nat : p[2] < 2 ^ (D - lens[p[1]])}
Full(B, lens) ==
  /\ B # {} /\ \A s \in B : lens[s] \in Nat
  /\ \A D \in Nat : (\A s \in B : lens[s] <= D) =>
       IsFiniteSet(Room(B, lens, D)) /\ Cardinality(Room(B, lens, D)) = 2 ^ D

(* One symbol alone fills a code of its own.                                *)
LEMMA LeafIsFull ==
  ASSUME NEW lens, NEW s, lens[s] = 0
  PROVE  Full({s}, lens)
<1>1. ASSUME NEW D \in Nat
      PROVE  IsFiniteSet(Room({s}, lens, D)) /\ Cardinality(Room({s}, lens, D)) = 2 ^ D
  <2> DEFINE n == 2 ^ D
  <2>1. n \in Nat \ {0}
    BY Doubles
  <2>2. Room({s}, lens, D) = {p \in {s} \X Nat : p[2] < n}
    <3>1. D - lens[s] = D
      OBVIOUS
    <3> QED BY <3>1 DEF Room
  <2> HIDE DEF n
  <2>3. {p \in {s} \X Nat : p[2] < n} = {s} \X (0 .. (n - 1))
    BY <2>1
  <2>4. IsFiniteSet({s}) /\ Cardinality({s}) = 1
    BY FS_Singleton
  <2>5. IsFiniteSet(0 .. (n - 1)) /\ Cardinality(0 .. (n - 1)) = n
    <3>1. 0 \in Int /\ n - 1 \in Int /\ ~(0 > n - 1) /\ (n - 1) - 0 + 1 = n
      BY <2>1
    <3> QED BY <3>1, FS_Interval
  <2> DEFINE R == 0 .. (n - 1)
  <2>6. IsFiniteSet({s} \X R) /\ Cardinality({s} \X R) = Cardinality({s}) * Cardinality(R)
    <3> HIDE DEF R
    <3>1. IsFiniteSet(R)
      BY <2>5 DEF R
    <3> QED BY <2>4, <3>1, FS_Product
  <2>7. Cardinality({s}) * Cardinality(R) = n
    <3> HIDE DEF R
    <3>1. Cardinality(R) = n
      BY <2>5 DEF R
    <3> QED BY <2>1, <2>4, <3>1
  <2>8. Room({s}, lens, D) = {s} \X R
    BY <2>2, <2>3
  <2> HIDE DEF R
  <2> QED BY <2>6, <2>7, <2>8 DEF n
<1> QED
  BY <1>1 DEF Full

(* Whether a tree is full depends on the lengths of its own leaves.         *)
LEMMA FullAlike ==
  ASSUME NEW lens, NEW more, NEW B, Full(B, lens), \A s \in B : more[s] = lens[s]
  PROVE  Full(B, more)
<1>1. \A D \in Nat : Room(B, more, D) = Room(B, lens, D)
  BY DEF Room
<1> QED
  BY <1>1 DEF Full

(* Two trees made one: each code is a bit longer.                            *)
LEMMA JoinIsFull ==
  ASSUME NEW lens, NEW more, NEW A, NEW B, Full(A, lens), Full(B, lens), A \cap B = {},
         \A s \in A \cup B : more[s] = lens[s] + 1
  PROVE  Full(A \cup B, more)
<1>1. ASSUME NEW D \in Nat, \A s \in A \cup B : more[s] <= D
      PROVE  /\ IsFiniteSet(Room(A \cup B, more, D))
             /\ Cardinality(Room(A \cup B, more, D)) = 2 ^ D
  <2>1. \A s \in A \cup B : lens[s] \in Nat /\ lens[s] <= D - 1 /\ D - more[s] = (D - 1) - lens[s]
    BY <1>1 DEF Full
  <2>2. D - 1 \in Nat /\ 2 ^ D = 2 * 2 ^ (D - 1) /\ 2 ^ (D - 1) \in Nat
    <3>1. PICK s \in A : TRUE
      BY DEF Full
    <3>2. D > 0
      BY <2>1, <3>1
    <3> QED BY <3>2, Halves
  <2>3. Room(A, more, D) = Room(A, lens, D - 1) /\ Room(B, more, D) = Room(B, lens, D - 1)
    BY <2>1 DEF Room
  <2>4. /\ IsFiniteSet(Room(A, more, D)) /\ Cardinality(Room(A, more, D)) = 2 ^ (D - 1)
        /\ IsFiniteSet(Room(B, more, D)) /\ Cardinality(Room(B, more, D)) = 2 ^ (D - 1)
    BY <2>1, <2>2, <2>3 DEF Full
  <2>5. /\ Room(A \cup B, more, D) = Room(A, more, D) \cup Room(B, more, D)
        /\ Room(A, more, D) \cap Room(B, more, D) = {}
    BY DEF Room
  <2> DEFINE X == Room(A, more, D)
             Y == Room(B, more, D)
             p == 2 ^ (D - 1)
  <2> HIDE DEF X, Y, p
  <2>6. IsFiniteSet(X \cup Y) /\ Cardinality(X \cup Y) = p + p
    <3>1. /\ IsFiniteSet(X) /\ Cardinality(X) = p /\ IsFiniteSet(Y) /\ Cardinality(Y) = p
          /\ X \cap Y = {} /\ p \in Nat
      BY <2>2, <2>4, <2>5 DEF X, Y, p
    <3>2. /\ IsFiniteSet(X \cup Y)
          /\ Cardinality(X \cup Y) = Cardinality(X) + Cardinality(Y) - Cardinality(X \cap Y)
      BY <3>1, FS_Union
    <3>3. Cardinality(X \cap Y) = 0
      BY <3>1, FS_EmptySet
    <3> QED BY <3>1, <3>2, <3>3
  <2>7. p + p = 2 ^ D
    BY <2>2 DEF p
  <2> QED BY <2>5, <2>6, <2>7 DEF X, Y
<1>2. A \cup B # {} /\ \A s \in A \cup B : more[s] \in Nat
  BY DEF Full
<1> QED
  BY <1>1, <1>2 DEF Full

(* The trees of the two queues share no symbol, have all of them, and each   *)
(* is full.                                                                  *)
Node == [weight : Nat, below : SUBSET Int]
Forest(l, m, U, lens) ==
  /\ l \in Seq(Node) /\ m \in Seq(Node)
  /\ \A i \in 1 .. Len(l) : l[i].below \subseteq U /\ Full(l[i].below, lens)
  /\ \A j \in 1 .. Len(m) : /\ m[j].below \subseteq U /\ Full(m[j].below, lens)
                            /\ \A s \in m[j].below : lens[s] > 0
  /\ \A i, j \in 1 .. Len(l) : i # j => l[i].below \cap l[j].below = {}
  /\ \A i, j \in 1 .. Len(m) : i # j => m[i].below \cap m[j].below = {}
  /\ \A i \in 1 .. Len(l) : \A j \in 1 .. Len(m) : l[i].below \cap m[j].below = {}
  /\ \A s \in U : \/ \E i \in 1 .. Len(l) : s \in l[i].below
                  \/ \E j \in 1 .. Len(m) : s \in m[j].below

(* Taking the lightest of the leaves and the inner nodes takes one tree out *)
(* of the forest and leaves the others.                                     *)
LEMMA PickTree ==
  ASSUME NEW l, NEW m, NEW U, NEW lens, Forest(l, m, U, lens), Len(l) + Len(m) > 0
  PROVE  LET p == Pick(l, m)
         IN  /\ p.node \in Node /\ p.node.below \subseteq U /\ Full(p.node.below, lens)
             /\ Forest(p.leaves, p.made, U \ p.node.below, lens)
             /\ Len(p.leaves) + Len(p.made) = Len(l) + Len(m) - 1
<1>1. /\ l \in Seq(Node) /\ m \in Seq(Node) /\ Len(l) \in Nat /\ Len(m) \in Nat
      /\ \A i \in 1 .. Len(l) : l[i] \in Node
      /\ \A i \in 1 .. Len(m) : m[i] \in Node
  BY LenProperties, ElementOfSeq DEF Forest
<1>2. CASE LeafFirst(l, m)
  <2> DEFINE t == Tail(l)
             A == l[1].below
  <2>1. Pick(l, m) = [node |-> l[1], leaves |-> t, made |-> m]
    BY <1>2 DEF Pick
  <2>2. /\ t \in Seq(Node) /\ Len(t) = Len(l) - 1 /\ Len(l) > 0
        /\ \A i \in 1 .. Len(t) : t[i] = l[i + 1]
    BY <1>1, <1>2, HeadTailProperties, EmptySeq DEF LeafFirst
  <2> HIDE DEF t
  <2>3. 1 \in 1 .. Len(l)
    BY <1>1, <2>2
  <2>4. l[1] \in Node /\ A \subseteq U /\ Full(A, lens)
    BY <1>1, <2>3 DEF Forest
  <2>5. ASSUME NEW i \in 1 .. Len(t)
        PROVE  /\ i + 1 \in 1 .. Len(l) /\ t[i] = l[i + 1] /\ Full(t[i].below, lens)
               /\ t[i].below \subseteq U \ A
    <3>1. i + 1 \in 1 .. Len(l) /\ i + 1 # 1
      BY <1>1, <2>2
    <3>2. l[i + 1].below \subseteq U /\ Full(l[i + 1].below, lens) /\ l[i + 1].below \cap A = {}
      BY <2>3, <3>1 DEF Forest
    <3> QED BY <2>2, <3>1, <3>2
  <2>6. ASSUME NEW j \in 1 .. Len(m)
        PROVE  /\ m[j].below \subseteq U \ A /\ Full(m[j].below, lens)
               /\ \A s \in m[j].below : lens[s] > 0
    BY <2>3 DEF Forest
  <2>7. \A i, j \in 1 .. Len(t) : i # j => t[i].below \cap t[j].below = {}
    <3>1. ASSUME NEW i \in 1 .. Len(t), NEW j \in 1 .. Len(t), i # j
          PROVE  t[i].below \cap t[j].below = {}
      <4>1. i + 1 # j + 1
        BY <3>1
      <4>2. l[i + 1].below \cap l[j + 1].below = {}
        BY <2>5, <4>1 DEF Forest
      <4> QED BY <2>5, <4>2
    <3> QED BY <3>1
  <2>8. \A i \in 1 .. Len(t) : \A j \in 1 .. Len(m) : t[i].below \cap m[j].below = {}
    BY <2>5 DEF Forest
  <2>9. \A s \in U \ A : \/ \E i \in 1 .. Len(t) : s \in t[i].below
                         \/ \E j \in 1 .. Len(m) : s \in m[j].below
    <3>1. ASSUME NEW s \in U \ A, NEW i \in 1 .. Len(l), s \in l[i].below
          PROVE  \E k \in 1 .. Len(t) : s \in t[k].below
      <4>1. i # 1
        BY <3>1
      <4> DEFINE k == i - 1
      <4>2. k \in 1 .. Len(t) /\ k + 1 = i
        BY <1>1, <2>2, <4>1
      <4> HIDE DEF k
      <4>3. t[k] = l[i]
        BY <2>2, <4>2
      <4> QED BY <3>1, <4>2, <4>3
    <3> QED BY <3>1 DEF Forest
  <2>10. Forest(t, m, U \ A, lens)
    <3>1. \A i, j \in 1 .. Len(m) : i # j => m[i].below \cap m[j].below = {}
      BY DEF Forest
    <3> HIDE DEF A
    <3> QED BY <1>1, <2>2, <2>5, <2>6, <2>7, <2>8, <2>9, <3>1 DEF Forest
  <2>11. Len(t) + Len(m) = Len(l) + Len(m) - 1
    BY <1>1, <2>2
  <2> QED BY <2>1, <2>4, <2>10, <2>11
<1>3. CASE ~LeafFirst(l, m)
  <2> DEFINE t == Tail(m)
             A == m[1].below
  <2>1. Pick(l, m) = [node |-> m[1], leaves |-> l, made |-> t]
    BY <1>3 DEF Pick
  <2>2. /\ t \in Seq(Node) /\ Len(t) = Len(m) - 1 /\ Len(m) > 0
        /\ \A i \in 1 .. Len(t) : t[i] = m[i + 1]
    <3>1. m # <<>>
      <4>1. m = <<>> => l = <<>> /\ Len(m) = 0
        BY <1>3, EmptySeq DEF LeafFirst
      <4>2. l = <<>> => Len(l) = 0
        BY EmptySeq
      <4> QED BY <1>1, <4>1, <4>2
    <3> QED BY <1>1, <3>1, HeadTailProperties, EmptySeq
  <2> HIDE DEF t
  <2>3. 1 \in 1 .. Len(m)
    BY <1>1, <2>2
  <2>4. m[1] \in Node /\ A \subseteq U /\ Full(A, lens)
    BY <1>1, <2>3 DEF Forest
  <2>5. ASSUME NEW i \in 1 .. Len(t)
        PROVE  /\ i + 1 \in 1 .. Len(m) /\ t[i] = m[i + 1] /\ Full(t[i].below, lens)
               /\ t[i].below \subseteq U \ A /\ \A s \in t[i].below : lens[s] > 0
    <3>1. i + 1 \in 1 .. Len(m) /\ i + 1 # 1
      BY <1>1, <2>2
    <3>2. /\ m[i + 1].below \subseteq U /\ Full(m[i + 1].below, lens) /\ m[i + 1].below \cap A = {}
          /\ \A s \in m[i + 1].below : lens[s] > 0
      BY <2>3, <3>1 DEF Forest
    <3> QED BY <2>2, <3>1, <3>2
  <2>6. ASSUME NEW j \in 1 .. Len(l)
        PROVE  l[j].below \subseteq U \ A /\ Full(l[j].below, lens)
    BY <2>3 DEF Forest
  <2>7. \A i, j \in 1 .. Len(t) : i # j => t[i].below \cap t[j].below = {}
    <3>1. ASSUME NEW i \in 1 .. Len(t), NEW j \in 1 .. Len(t), i # j
          PROVE  t[i].below \cap t[j].below = {}
      <4>1. i + 1 # j + 1
        BY <3>1
      <4> QED BY <2>5, <4>1 DEF Forest
    <3> QED BY <3>1
  <2>8. \A i \in 1 .. Len(l) : \A j \in 1 .. Len(t) : l[i].below \cap t[j].below = {}
    BY <2>5 DEF Forest
  <2>9. \A s \in U \ A : \/ \E i \in 1 .. Len(l) : s \in l[i].below
                         \/ \E j \in 1 .. Len(t) : s \in t[j].below
    <3>1. ASSUME NEW s \in U \ A, NEW i \in 1 .. Len(m), s \in m[i].below
          PROVE  \E k \in 1 .. Len(t) : s \in t[k].below
      <4>1. i # 1
        BY <3>1
      <4> DEFINE k == i - 1
      <4>2. k \in 1 .. Len(t) /\ k + 1 = i
        BY <1>1, <2>2, <4>1
      <4> HIDE DEF k
      <4>3. t[k] = m[i]
        BY <2>2, <4>2
      <4> QED BY <3>1, <4>2, <4>3
    <3> QED BY <3>1 DEF Forest
  <2>10. Forest(l, t, U \ A, lens)
    <3>1. \A i, j \in 1 .. Len(l) : i # j => l[i].below \cap l[j].below = {}
      BY DEF Forest
    <3> HIDE DEF A
    <3> QED BY <1>1, <2>2, <2>5, <2>6, <2>7, <2>8, <2>9, <3>1 DEF Forest
  <2>11. Len(l) + Len(t) = Len(l) + Len(m) - 1
    BY <1>1, <2>2
  <2> QED BY <2>1, <2>4, <2>10, <2>11
<1> QED
  BY <1>2, <1>3

(* A tree added to the others.                                               *)
LEMMA ForestGrows ==
  ASSUME NEW l, NEW m, NEW V, NEW lens, Forest(l, m, V, lens), NEW more, NEW n \in Node,
         n.below \cap V = {}, Full(n.below, more), \A s \in n.below : more[s] > 0,
         \A s \in V : more[s] = lens[s]
  PROVE  Forest(l, Append(m, n), V \cup n.below, more)
<1> DEFINE w == Append(m, n)
           B == n.below
<1>1. /\ l \in Seq(Node) /\ m \in Seq(Node) /\ Len(l) \in Nat /\ Len(m) \in Nat
  BY LenProperties DEF Forest
<1>2. /\ w \in Seq(Node) /\ Len(w) = Len(m) + 1 /\ w[Len(m) + 1] = n
      /\ \A i \in 1 .. Len(m) : w[i] = m[i]
  BY <1>1, AppendProperties
<1> HIDE DEF w
<1>3. ASSUME NEW i \in 1 .. Len(l)
      PROVE  l[i].below \subseteq V /\ Full(l[i].below, more) /\ l[i].below \cap B = {}
  <2>1. l[i].below \subseteq V /\ Full(l[i].below, lens)
    BY DEF Forest
  <2> QED BY <2>1, FullAlike
<1>4. ASSUME NEW i \in 1 .. Len(m)
      PROVE  /\ m[i].below \subseteq V /\ Full(m[i].below, more) /\ m[i].below \cap B = {}
             /\ \A s \in m[i].below : more[s] > 0
  <2>1. m[i].below \subseteq V /\ Full(m[i].below, lens) /\ \A s \in m[i].below : lens[s] > 0
    BY DEF Forest
  <2> QED BY <2>1, FullAlike
<1>5. ASSUME NEW i \in 1 .. Len(w)
      PROVE  /\ (i \in 1 .. Len(m) /\ w[i] = m[i]) \/ (i = Len(m) + 1 /\ w[i].below = B)
             /\ w[i].below \subseteq V \cup B /\ Full(w[i].below, more)
             /\ \A s \in w[i].below : more[s] > 0
  <2>1. i \in 1 .. Len(m) \/ i = Len(m) + 1
    BY <1>1, <1>2
  <2> QED BY <1>2, <1>4, <2>1
<1>6. \A i, j \in 1 .. Len(w) : i # j => w[i].below \cap w[j].below = {}
  <2>1. \A i, j \in 1 .. Len(m) : i # j => m[i].below \cap m[j].below = {}
    BY DEF Forest
  <2> HIDE DEF B
  <2> QED BY <1>4, <1>5, <2>1
<1>7. \A i \in 1 .. Len(l) : \A j \in 1 .. Len(w) : l[i].below \cap w[j].below = {}
  <2>1. \A i \in 1 .. Len(l) : \A j \in 1 .. Len(m) : l[i].below \cap m[j].below = {}
    BY DEF Forest
  <2> HIDE DEF B
  <2> QED BY <1>3, <1>5, <2>1
<1>8. ASSUME NEW s \in V \cup B
      PROVE  (\E i \in 1 .. Len(l) : s \in l[i].below) \/ (\E j \in 1 .. Len(w) : s \in w[j].below)
  <2>1. CASE s \in V
    <3>1. CASE \E i \in 1 .. Len(l) : s \in l[i].below
      BY <3>1
    <3>2. CASE \E j \in 1 .. Len(m) : s \in m[j].below
      <4>1. PICK j \in 1 .. Len(m) : s \in m[j].below
        BY <3>2
      <4>2. j \in 1 .. Len(w) /\ w[j] = m[j]
        BY <1>1, <1>2
      <4> QED BY <4>1, <4>2
    <3> QED BY <2>1, <3>1, <3>2 DEF Forest
  <2>2. CASE s \in B
    <3>1. Len(m) + 1 \in 1 .. Len(w)
      BY <1>1, <1>2
    <3> QED BY <1>2, <2>2, <3>1
  <2> QED BY <2>1, <2>2
<1>9. \A i, j \in 1 .. Len(l) : i # j => l[i].below \cap l[j].below = {}
  BY DEF Forest
<1> HIDE DEF B
<1>10. \A i \in 1 .. Len(l) : l[i].below \subseteq V \cup B /\ Full(l[i].below, more)
  BY <1>3
<1>11. Forest(l, w, V \cup B, more)
  BY <1>1, <1>2, <1>5, <1>6, <1>7, <1>8, <1>9, <1>10 DEF Forest
<1> QED BY <1>11 DEF w, B

(* One step of huff_build: the two lightest trees become one.                *)
LEMMA MergeIs ==
  ASSUME NEW so, NEW S, NEW U, Forest(so.leaves, so.made, U, so.lens),
         so.lens \in [S -> Nat], U \subseteq S, Len(so.leaves) + Len(so.made) >= 2
  PROVE  LET t == MergeTwo(so)
         IN  /\ Forest(t.leaves, t.made, U, t.lens) /\ t.lens \in [S -> Nat]
             /\ \A s \in S \ U : t.lens[s] = so.lens[s]
             /\ Len(t.leaves) + Len(t.made) = Len(so.leaves) + Len(so.made) - 1
<1> DEFINE one  == Pick(so.leaves, so.made)
           two  == Pick(one.leaves, one.made)
           A    == one.node.below
           B    == two.node.below
           V    == (U \ A) \ B
           node == [weight |-> one.node.weight + two.node.weight, below |-> A \cup B]
           more == [s \in DOMAIN so.lens |-> so.lens[s] + (IF s \in A \cup B THEN 1 ELSE 0)]
<1>1. MergeTwo(so) = [leaves |-> two.leaves, made |-> Append(two.made, node), lens |-> more]
  BY DEF MergeTwo
<1> HIDE DEF one, two
<1>2. Len(so.leaves) \in Nat /\ Len(so.made) \in Nat
  BY LenProperties DEF Forest
<1>3. /\ one.node \in Node /\ A \subseteq U /\ Full(A, so.lens)
      /\ Forest(one.leaves, one.made, U \ A, so.lens)
      /\ Len(one.leaves) + Len(one.made) = Len(so.leaves) + Len(so.made) - 1
  <2>1. Len(so.leaves) + Len(so.made) > 0
    <3> DEFINE a == Len(so.leaves)
               b == Len(so.made)
    <3>1. a \in Nat /\ b \in Nat /\ a + b >= 2
      BY <1>2
    <3> HIDE DEF a, b
    <3>2. a + b > 0
      BY <3>1
    <3> QED BY <3>2 DEF a, b
  <2> HIDE DEF MergeTwo
  <2>2. LET p == Pick(so.leaves, so.made)
         IN  /\ p.node \in Node /\ p.node.below \subseteq U /\ Full(p.node.below, so.lens)
             /\ Forest(p.leaves, p.made, U \ p.node.below, so.lens)
             /\ Len(p.leaves) + Len(p.made) = Len(so.leaves) + Len(so.made) - 1
    BY <2>1, PickTree
  <2> QED BY <2>2 DEF one
<1>4. /\ two.node \in Node /\ B \subseteq U \ A /\ Full(B, so.lens)
      /\ Forest(two.leaves, two.made, V, so.lens)
      /\ Len(two.leaves) + Len(two.made) = Len(one.leaves) + Len(one.made) - 1
  <2> DEFINE X == U \ A
  <2>1. Forest(one.leaves, one.made, X, so.lens)
    BY <1>3
  <2>3. Len(one.leaves) + Len(one.made) > 0
    <3> DEFINE a == Len(so.leaves)
               b == Len(so.made)
               c == Len(one.leaves)
               d == Len(one.made)
    <3>1. a \in Nat /\ b \in Nat /\ a + b >= 2 /\ c + d = a + b - 1
      BY <1>2, <1>3
    <3> HIDE DEF a, b, c, d
    <3>2. c + d > 0
      BY <3>1
    <3> QED BY <3>2 DEF c, d
  <2> HIDE DEF X
  <2>2. LET p == Pick(one.leaves, one.made)
         IN  /\ p.node \in Node /\ p.node.below \subseteq X /\ Full(p.node.below, so.lens)
             /\ Forest(p.leaves, p.made, X \ p.node.below, so.lens)
             /\ Len(p.leaves) + Len(p.made) = Len(one.leaves) + Len(one.made) - 1
    BY <2>1, <2>3, PickTree
  <2> QED BY <2>2 DEF two, X
<1>5. node \in Node /\ node.below = A \cup B
  BY <1>3, <1>4 DEF Node
<1>6. DOMAIN so.lens = S /\ more \in [S -> Nat]
  OBVIOUS
<1>7. /\ \A s \in A \cup B : more[s] = so.lens[s] + 1
      /\ \A s \in S \ (A \cup B) : more[s] = so.lens[s]
  BY <1>3, <1>4, <1>6
<1> HIDE DEF more, node
<1>8. Full(A \cup B, more)
  <2>1. A \cap B = {}
    BY <1>4
  <2> QED BY <1>3, <1>4, <1>7, <2>1, JoinIsFull
<1>9. \A s \in A \cup B : more[s] > 0
  <2>1. \A s \in A \cup B : so.lens[s] \in Nat
    BY <1>3, <1>4
  <2> QED BY <1>7, <2>1
<1>10. Forest(two.leaves, Append(two.made, node), V \cup (A \cup B), more)
  <2>1. node.below \cap V = {} /\ \A s \in V : more[s] = so.lens[s]
    BY <1>5, <1>7
  <2> HIDE DEF V, A, B
  <2> QED BY <1>4, <1>5, <1>8, <1>9, <2>1, ForestGrows
<1>11. V \cup (A \cup B) = U
  BY <1>3, <1>4
<1>12. Len(two.leaves) + Len(Append(two.made, node)) = Len(so.leaves) + Len(so.made) - 1
  <2>1. two.made \in Seq(Node) /\ two.leaves \in Seq(Node)
    BY <1>4 DEF Forest
  <2>2. /\ Len(Append(two.made, node)) = Len(two.made) + 1
        /\ Len(two.made) \in Nat /\ Len(two.leaves) \in Nat
    BY <1>5, <2>1, AppendProperties, LenProperties
  <2>3. /\ Len(two.leaves) + Len(two.made) = Len(one.leaves) + Len(one.made) - 1
        /\ Len(one.leaves) + Len(one.made) = Len(so.leaves) + Len(so.made) - 1
    BY <1>3, <1>4
  <2> DEFINE a == Len(one.leaves)
             b == Len(one.made)
             c == Len(two.leaves)
             d == Len(two.made)
             e == Len(so.leaves)
             f == Len(so.made)
             g == Len(Append(two.made, node))
  <2>4. /\ c + d = a + b - 1 /\ a + b = e + f - 1 /\ g = d + 1 /\ c \in Nat /\ d \in Nat
        /\ e \in Nat /\ f \in Nat /\ a \in Nat /\ b \in Nat
    BY <1>2, <1>3, <2>2, <2>3, LenProperties DEF Forest
  <2> HIDE DEF a, b, c, d, e, f, g
  <2>5. c + g = e + f - 1
    BY <2>4
  <2> QED BY <2>5 DEF a, b, c, d, e, f, g
<1>13. \A s \in S \ U : more[s] = so.lens[s]
  BY <1>3, <1>4, <1>7
<1>14. more \in [S -> Nat]
  BY <1>6 DEF more
<1> HIDE DEF V, A, B
<1>15. Forest(two.leaves, Append(two.made, node), U, more)
  BY <1>10, <1>11
<1> DEFINE t == MergeTwo(so)
<1>16. t.leaves = two.leaves /\ t.made = Append(two.made, node) /\ t.lens = more
  BY <1>1
<1> HIDE DEF t
<1> QED
  BY <1>12, <1>13, <1>14, <1>15, <1>16 DEF t

(* A range from 1 says where it ends.                                       *)
LEMMA SameUpTo ==
  ASSUME NEW n \in Nat, NEW r \in Nat, 1 .. n = 1 .. r
  PROVE  n = r
<1>1. n < r => n + 1 \in 1 .. r /\ n + 1 \notin 1 .. n
  OBVIOUS
<1>2. r < n => r + 1 \in 1 .. n /\ r + 1 \notin 1 .. r
  OBVIOUS
<1> QED BY <1>1, <1>2

(* huff_build merges until one tree is left.                                 *)
Leaves(freq) ==
  [leaves |-> [i \in DOMAIN Ordered(freq) |-> [weight |-> freq[Ordered(freq)[i]],
                                               below |-> {Ordered(freq)[i]}]],
   made |-> <<>>, lens |-> [s \in DOMAIN freq |-> 0]]
Merged(M, freq) ==
  /\ M[1] = Leaves(freq)
  /\ \A k \in 2 .. Cardinality(Used(freq)) : M[k] = MergeTwo(M[k - 1])
  /\ TreeOf(freq) = M[Cardinality(Used(freq))].lens

(* The merging of huff_build, one node after the other.                     *)
LEMMA MergedIs ==
  ASSUME NEW freq, Alphabet(freq), Cardinality(Used(freq)) >= 2
  PROVE  \E M : Merged(M, freq)
<1> DEFINE r == Cardinality(Used(freq))
           Z == Leaves(freq)
           Is(f, n) == f = [k \in 0 .. n |-> IF k <= 1 THEN Z ELSE MergeTwo(f[k - 1])]
<1>1. r \in Nat /\ r >= 2 /\ DOMAIN Ordered(freq) = 1 .. r /\ Len(Ordered(freq)) = r
  <2>1. r \in Nat /\ Ordered(freq) \in [1 .. r -> Used(freq)]
    BY UsedIs, OrderedIs
  <2>2. Ordered(freq) \in Seq(Used(freq))
    <3> HIDE DEF r
    <3> QED BY <2>1, IsASeq
  <2>3. Len(Ordered(freq)) \in Nat /\ DOMAIN Ordered(freq) = 1 .. Len(Ordered(freq))
    BY <2>2, LenProperties
  <2> DEFINE n == Len(Ordered(freq))
  <2>4. n \in Nat /\ 1 .. n = 1 .. r
    BY <2>1, <2>3
  <2> HIDE DEF n, r
  <2>5. n = r
    BY <2>1, <2>4, SameUpTo
  <2> QED BY <2>1, <2>3, <2>5 DEF n, r
<1> DEFINE P == {n \in 0 .. r : \E f : Is(f, n)}
<1> HIDE DEF r, Z
<1>2. 0 \in P
  <2> DEFINE f == [k \in 0 .. 0 |-> Z]
  <2>1. ASSUME NEW k \in 0 .. 0 PROVE f[k] = IF k <= 1 THEN Z ELSE MergeTwo(f[k - 1])
    <3>1. k <= 1
      OBVIOUS
    <3> QED BY <3>1
  <2>2. f = [k \in 0 .. 0 |-> f[k]]
    OBVIOUS
  <2> HIDE DEF f
  <2>3. Is(f, 0)
    BY <2>1, <2>2
  <2> QED BY <1>1, <2>3
<1>3. ASSUME NEW n \in 1 .. r, n - 1 \in P PROVE n \in P
  <2>1. PICK f : Is(f, n - 1)
    BY <1>3
  <2> DEFINE g == [k \in 0 .. n |-> IF k < n THEN f[k] ELSE IF n <= 1 THEN Z ELSE MergeTwo(f[n - 1])]
  <2>2. n \in Nat /\ n - 1 \in Nat /\ 0 .. n = (0 .. (n - 1)) \cup {n} /\ n \notin 0 .. (n - 1)
    BY <1>1
  <2>3. ASSUME NEW k \in 0 .. n
        PROVE  g[k] = IF k <= 1 THEN Z ELSE MergeTwo(g[k - 1])
    <3>1. CASE k = n
      <4>1. g[k] = IF n <= 1 THEN Z ELSE MergeTwo(f[n - 1])
        BY <2>2, <3>1
      <4>2. g[n - 1] = f[n - 1]
        BY <2>2
      <4> HIDE DEF g
      <4> QED BY <3>1, <4>1, <4>2
    <3>2. CASE k # n
      <4>1. k \in 0 .. (n - 1) /\ g[k] = f[k]
        BY <2>2, <3>2
      <4>2. f[k] = IF k <= 1 THEN Z ELSE MergeTwo(f[k - 1])
        BY <2>1, <4>1
      <4>3. ~(k <= 1) => k - 1 \in 0 .. n /\ k - 1 < n
        BY <2>2, <4>1
      <4>4. ~(k <= 1) => g[k - 1] = f[k - 1]
        BY <4>3
      <4> HIDE DEF g
      <4> QED BY <4>1, <4>2, <4>4
    <3> QED BY <3>1, <3>2
  <2>4. g = [k \in 0 .. n |-> g[k]]
    OBVIOUS
  <2> HIDE DEF g
  <2>5. Is(g, n)
    BY <2>3, <2>4
  <2> QED BY <1>1, <2>5
<1>4. \E f : Is(f, r)
  <2> HIDE DEF P, Is
  <2>1. 0 .. r \subseteq P
    BY <1>1, <1>2, <1>3, Upward
  <2>2. r \in P
    BY <1>1, <2>1
  <2> QED BY <2>2 DEF P
<1> DEFINE M == CHOOSE f : Is(f, r)
<1>5. Is(M, r)
  BY <1>4
<1>6. TreeOf(freq) = M[r].lens
  <2> DEFINE order == Ordered(freq)
             leaves == [i \in DOMAIN order |-> [weight |-> freq[order[i]], below |-> {order[i]}]]
             m == CHOOSE f : f = [k \in 0 .. Len(order) |->
                     IF k <= 1 THEN [leaves |-> leaves, made |-> <<>>, lens |-> [s \in DOMAIN freq |-> 0]]
                     ELSE MergeTwo(f[k - 1])]
  <2>1. TreeOf(freq) = m[Len(order)].lens
    BY DEF TreeOf
  <2>2. Z = [leaves |-> leaves, made |-> <<>>, lens |-> [s \in DOMAIN freq |-> 0]]
    BY DEF Z, Leaves
  <2>3. m = M
    BY <1>1, <2>2
  <2> HIDE DEF m, M
  <2> QED BY <1>1, <2>1, <2>3
<1> HIDE DEF M
<1>7. M[1] = Z
  <2>1. 1 \in 0 .. r /\ 1 <= 1
    BY <1>1
  <2> QED BY <1>5, <2>1
<1>8. ASSUME NEW k \in 2 .. r PROVE M[k] = MergeTwo(M[k - 1])
  <2>1. k \in 0 .. r /\ ~(k <= 1)
    BY <1>1
  <2> QED BY <1>5, <2>1
<1> QED
  BY <1>6, <1>7, <1>8 DEF Merged, r, Z

(* A forest of leaves to start with.                                         *)
LEMMA LeavesForest ==
  ASSUME NEW freq, Alphabet(freq), Cardinality(Used(freq)) >= 2
  PROVE  LET Z == Leaves(freq)
         IN  /\ Forest(Z.leaves, Z.made, Used(freq), Z.lens)
             /\ Z.lens \in [DOMAIN freq -> Nat] /\ \A s \in DOMAIN freq : Z.lens[s] = 0
             /\ Len(Z.leaves) = Cardinality(Used(freq)) /\ Z.made = <<>> /\ Len(Z.made) = 0
             /\ \A i \in 1 .. Len(Z.leaves) : \E s \in Used(freq) :
                  Z.leaves[i] = [weight |-> freq[s], below |-> {s}]
<1> DEFINE r == Cardinality(Used(freq))
           o == Ordered(freq)
           l == [i \in 1 .. r |-> [weight |-> freq[o[i]], below |-> {o[i]}]]
           z == [s \in DOMAIN freq |-> 0]
<1>1. /\ r \in Nat /\ o \in [1 .. r -> Used(freq)] /\ Used(freq) \subseteq DOMAIN freq
      /\ Used(freq) \subseteq Int /\ \A s \in Used(freq) : freq[s] \in Nat
      /\ \A i, j \in 1 .. r : o[i] = o[j] => i = j
      /\ \A s \in Used(freq) : \E i \in 1 .. r : o[i] = s
  BY UsedIs, OrderedIs
<1>2. Leaves(freq) = [leaves |-> l, made |-> <<>>, lens |-> z]
  <2>1. DOMAIN Ordered(freq) = 1 .. r
    BY <1>1
  <2> QED BY <2>1 DEF Leaves
<1> HIDE DEF r, o
<1>3. \A i \in 1 .. r : /\ l[i] \in Node /\ l[i].below = {o[i]} /\ l[i].weight = freq[o[i]]
                        /\ o[i] \in Used(freq) /\ l[i] = [weight |-> freq[o[i]], below |-> {o[i]}]
  BY <1>1 DEF Node
<1>4. l \in Seq(Node) /\ Len(l) = r
  <2>1. l \in [1 .. r -> Node]
    BY <1>3
  <2>3. DOMAIN l = 1 .. r
    OBVIOUS
  <2> HIDE DEF l
  <2>2. l \in Seq(Node)
    BY <1>1, <2>1, IsASeq
  <2> DEFINE n == Len(l)
  <2>4. n \in Nat /\ 1 .. n = 1 .. r
    BY <2>2, <2>3, LenProperties
  <2> HIDE DEF n
  <2>5. n = r
    BY <1>1, <2>4, SameUpTo
  <2> QED BY <2>2, <2>5 DEF n
<1>5. z \in [DOMAIN freq -> Nat] /\ \A s \in DOMAIN freq : z[s] = 0
  OBVIOUS
<1> HIDE DEF l, z
<1>6. \A i \in 1 .. r : Full(l[i].below, z)
  <2>1. ASSUME NEW i \in 1 .. r PROVE Full({o[i]}, z)
    <3>1. z[o[i]] = 0
      BY <1>1, <1>3, <1>5
    <3> QED BY <3>1, LeafIsFull
  <2> QED BY <1>3, <2>1
<1>7. \A i, j \in 1 .. r : i # j => l[i].below \cap l[j].below = {}
  <2>1. ASSUME NEW i \in 1 .. r, NEW j \in 1 .. r, i # j PROVE {o[i]} \cap {o[j]} = {}
    BY <1>1, <2>1
  <2> QED BY <1>3, <2>1
<1>8. \A s \in Used(freq) : \E i \in 1 .. r : s \in l[i].below
  <2>1. ASSUME NEW s \in Used(freq) PROVE \E i \in 1 .. r : s \in l[i].below
    <3>1. PICK i \in 1 .. r : o[i] = s
      BY <1>1
    <3> QED BY <1>3, <3>1
  <2> QED BY <2>1
<1>9. <<>> \in Seq(Node) /\ Len(<<>>) = 0 /\ 1 .. 0 = {}
  BY EmptySeq
<1>10. Forest(l, <<>>, Used(freq), z)
  BY <1>3, <1>4, <1>6, <1>7, <1>8, <1>9 DEF Forest
<1>11. \A i \in 1 .. r : \E s \in Used(freq) : l[i] = [weight |-> freq[s], below |-> {s}]
  BY <1>3
<1> DEFINE Z == Leaves(freq)
<1>12. Z.leaves = l /\ Z.made = <<>> /\ Z.lens = z
  BY <1>2
<1> HIDE DEF Z
<1> QED
  BY <1>4, <1>5, <1>9, <1>10, <1>11, <1>12 DEF Z, r

(* The lengths of a Huffman code: one or more for the symbols in use, none   *)
(* for the others, and together they take up all the codes there are.        *)
HuffmanCode(lens, freq) ==
  /\ lens \in [DOMAIN freq -> Nat] /\ Full(Used(freq), lens)
  /\ \A s \in DOMAIN freq : lens[s] > 0 <=> s \in Used(freq)

Stage(so, freq, k) ==
  /\ Forest(so.leaves, so.made, Used(freq), so.lens)
  /\ so.lens \in [DOMAIN freq -> Nat]
  /\ \A s \in DOMAIN freq \ Used(freq) : so.lens[s] = 0
  /\ Len(so.leaves) + Len(so.made) = Cardinality(Used(freq)) - k + 1
  /\ k > 1 => Len(so.made) > 0

(* After each merge, what is left is a forest of full trees over all of the *)
(* used symbols.                                                            *)
LEMMA Stages ==
  ASSUME NEW freq, Alphabet(freq), Cardinality(Used(freq)) >= 2, NEW M, Merged(M, freq)
  PROVE  \A k \in 1 .. Cardinality(Used(freq)) : Stage(M[k], freq, k)
<1> DEFINE r == Cardinality(Used(freq))
           U == Used(freq)
           S == DOMAIN freq
<1>1. Merged(M, freq)
  OBVIOUS
<1> DEFINE Fine(k) == /\ Forest(M[k].leaves, M[k].made, U, M[k].lens)
                      /\ M[k].lens \in [S -> Nat]
                      /\ \A s \in S \ U : M[k].lens[s] = 0
                      /\ Len(M[k].leaves) + Len(M[k].made) = r - k + 1
                      /\ k > 1 => Len(M[k].made) > 0
           P == {k \in 0 .. r : k = 0 \/ Fine(k)}
<1>2. r \in Nat /\ r >= 2 /\ U \subseteq S
  BY UsedIs
<1>3. 0 \in P
  BY <1>2
<1>4. Fine(1)
  <2>1. M[1] = Leaves(freq)
    BY <1>1 DEF Merged
  <2> DEFINE Z == Leaves(freq)
  <2>2. /\ Forest(Z.leaves, Z.made, U, Z.lens)
        /\ Z.lens \in [S -> Nat] /\ \A s \in S : Z.lens[s] = 0
        /\ Len(Z.leaves) = r /\ Len(Z.made) = 0
    BY LeavesForest
  <2>3. r + 0 = r - 1 + 1
    BY <1>2
  <2> HIDE DEF Z, r, U, S
  <2> QED BY <2>1, <2>2, <2>3 DEF Z
<1>5. ASSUME NEW k \in 1 .. r, k - 1 \in P PROVE k \in P
  <2>1. CASE k = 1
    <3>1. k \in 0 .. r
      BY <1>2
    <3> HIDE DEF Fine
    <3> QED BY <1>4, <2>1, <3>1
  <2>2. CASE k # 1
    <3> DEFINE so == M[k - 1]
               t == MergeTwo(so)
    <3>1. k \in 2 .. r /\ k \in 0 .. r /\ k - 1 # 0
      BY <1>2, <2>2
    <3>2. Fine(k - 1) /\ M[k] = t
      BY <1>1, <1>5, <3>1 DEF Merged
    <3> HIDE DEF so, t, r, U, S
    <3>3. /\ Forest(so.leaves, so.made, U, so.lens) /\ so.lens \in [S -> Nat]
          /\ \A s \in S \ U : so.lens[s] = 0
          /\ Len(so.leaves) + Len(so.made) = r - (k - 1) + 1
      BY <3>2 DEF so
    <3>4. r - (k - 1) + 1 >= 2 /\ r - (k - 1) + 1 - 1 = r - k + 1
      BY <1>2, <3>1
    <3>5. Len(so.leaves) + Len(so.made) >= 2
      BY <3>3, <3>4
    <3>6. /\ Forest(t.leaves, t.made, U, t.lens) /\ t.lens \in [S -> Nat]
          /\ \A s \in S \ U : t.lens[s] = so.lens[s]
          /\ Len(t.leaves) + Len(t.made) = Len(so.leaves) + Len(so.made) - 1
      BY <1>2, <3>3, <3>5, MergeIs DEF t
    <3>7. Len(t.leaves) + Len(t.made) = r - k + 1
      <4> DEFINE a == Len(t.leaves) + Len(t.made)
                 b == Len(so.leaves) + Len(so.made)
      <4>1. a = b - 1 /\ b = r - (k - 1) + 1
        <5>3. /\ Len(t.leaves) \in Nat /\ Len(t.made) \in Nat
              /\ Len(so.leaves) \in Nat /\ Len(so.made) \in Nat
          BY <3>3, <3>6, LenProperties DEF Forest
        <5>4. Len(t.leaves) + Len(t.made) = Len(so.leaves) + Len(so.made) - 1
          BY <3>6
        <5>1. a = b - 1
          <6> DEFINE c == Len(t.leaves)
                     d == Len(t.made)
                     e == Len(so.leaves)
                     f == Len(so.made)
          <6>1. c \in Nat /\ d \in Nat /\ e \in Nat /\ f \in Nat /\ c + d = e + f - 1
            BY <5>3, <5>4
          <6> HIDE DEF c, d, e, f
          <6>2. c + d = (e + f) - 1
            BY <6>1
          <6> QED BY <6>2 DEF c, d, e, f
        <5>2. b = r - (k - 1) + 1
          BY <3>3
        <5> HIDE DEF a, b
        <5> QED BY <5>1, <5>2
      <4> HIDE DEF a, b
      <4>2. a = r - k + 1
        BY <1>2, <3>1, <4>1
      <4> QED BY <4>2 DEF a
    <3>8. Len(t.made) > 0
      <4>1. \E u, v : t.made = Append(u, v) /\ t.made \in Seq(Node)
        BY <3>6 DEF t, MergeTwo, Forest
      <4>2. t.made # <<>> /\ t.made \in Seq(Node)
        BY <4>1
      <4> QED BY <4>2, EmptySeq, LenProperties
    <3>9. \A s \in S \ U : t.lens[s] = 0
      BY <3>3, <3>6
    <3>10. Fine(k)
      BY <3>2, <3>6, <3>7, <3>8, <3>9
    <3> HIDE DEF Fine
    <3> QED BY <3>1, <3>10
  <2> QED BY <2>1, <2>2
<1>6. ASSUME NEW k \in 1 .. r PROVE Stage(M[k], freq, k)
  <2> HIDE DEF P, Fine, r
  <2>1. 0 .. r \subseteq P
    BY <1>2, <1>3, <1>5, Upward
  <2>2. k \in P /\ k # 0
    BY <1>2, <2>1
  <2> QED BY <2>2 DEF P, Fine, r, Stage
<1> QED
  BY <1>6

(* At the end it is one full tree: the lengths make a complete code.        *)
LEMMA TreeIs ==
  ASSUME NEW freq, Alphabet(freq), Cardinality(Used(freq)) >= 2
  PROVE  HuffmanCode(TreeOf(freq), freq)
<1> DEFINE r == Cardinality(Used(freq))
           U == Used(freq)
           S == DOMAIN freq
<1>1. PICK M : Merged(M, freq)
  BY MergedIs
<1>2. r \in Nat /\ r >= 2 /\ U \subseteq S
  BY UsedIs
<1>6. Stage(M[r], freq, r)
  <2>1. r \in 1 .. r
    BY <1>2
  <2> QED BY <1>1, <2>1, Stages
<1> DEFINE m == M[r].made
           l == M[r].leaves
           z == M[r].lens
<1>7. Len(l) = 0 /\ Len(m) = 1
  <2>1. l \in Seq(Node) /\ m \in Seq(Node)
    BY <1>6 DEF Forest, Stage
  <2> DEFINE a == Len(l)
             b == Len(m)
  <2>2. a \in Nat /\ b \in Nat /\ a + b = r - r + 1 /\ (r > 1 => b > 0)
    BY <1>6, <2>1, LenProperties DEF Stage
  <2> HIDE DEF a, b, r
  <2>3. a = 0 /\ b = 1
    BY <1>2, <2>2
  <2> QED BY <2>3 DEF a, b
<1>8. Forest(l, m, U, z) /\ z \in [S -> Nat] /\ \A s \in S \ U : z[s] = 0
  BY <1>6 DEF Stage
<1> HIDE DEF l, m, z, r
<1>9. 1 \in 1 .. Len(m)
  BY <1>7
<1>10. m[1].below \subseteq U /\ Full(m[1].below, z) /\ \A s \in m[1].below : z[s] > 0
  BY <1>8, <1>9 DEF Forest
<1>11. U \subseteq m[1].below
  <2>1. ASSUME NEW s \in U PROVE s \in m[1].below
    <3>1. (\E i \in 1 .. Len(l) : s \in l[i].below) \/ (\E j \in 1 .. Len(m) : s \in m[j].below)
      BY <1>8 DEF Forest
    <3>2. 1 .. 0 = {} /\ 1 .. 1 = {1}
      OBVIOUS
    <3> QED BY <1>7, <3>1, <3>2
  <2> QED BY <2>1
<1>12. m[1].below = U
  BY <1>10, <1>11
<1>13. TreeOf(freq) = z
  BY <1>1 DEF Merged, z, r
<1>14. \A s \in S : z[s] > 0 <=> s \in U
  <2>1. \A s \in U : z[s] > 0
    BY <1>10, <1>12
  <2>2. \A s \in S \ U : ~(z[s] > 0)
    BY <1>8
  <2> QED BY <1>2, <2>1, <2>2
<1> QED
  BY <1>8, <1>10, <1>12, <1>13, <1>14 DEF HuffmanCode

(* A product by a positive number keeps its sign.                           *)
LEMMA SignOfProduct ==
  ASSUME NEW x \in Int, NEW y \in Nat \ {0}, x * y >= 0
  PROVE  x >= 0
OBVIOUS

(* The step of the sum that inf_construct halves at each length.            *)
LEMMA SameProduct ==
  ASSUME NEW a \in Int, NEW b \in Int, NEW c \in Int, NEW p \in Int, NEW q \in Int,
         q = 2 * p, a = 2 * b - c
  PROVE  a * p = b * q - c * p
<1>1. a * p = (2 * b - c) * p
  OBVIOUS
<1>2. (2 * b - c) * p = (2 * b) * p - c * p
  OBVIOUS
<1>3. (2 * b) * p = b * q
  OBVIOUS
<1> QED BY <1>1, <1>2, <1>3

(* A Huffman code no longer than the format allows leaves no code over:      *)
(* inf_build of inflate.c takes what huff_build of deflate.c made.           *)
THEOREM HuffmanCodeIsComplete ==
  ASSUME NEW freq, Alphabet(freq), NEW lens, HuffmanCode(lens, freq),
         \A s \in DOMAIN freq : lens[s] <= MaxBits
  PROVE  Alphabet(lens) /\ LeftOver(lens) = 0
<1> DEFINE D == MaxBits
           U == Used(freq)
           R == Room(U, lens, D)
           Upto(n) == {p \in R : lens[p[1]] <= n}
           Of(n) == {s \in DOMAIN lens : lens[s] = n}
           Codes(n) == 0 .. (2 ^ (D - n) - 1)
<1>1. /\ D \in Nat /\ U \subseteq DOMAIN freq /\ DOMAIN lens = DOMAIN freq
      /\ \A s \in DOMAIN freq : lens[s] \in Nat /\ lens[s] <= D
      /\ \A s \in DOMAIN freq : lens[s] > 0 <=> s \in U
  BY FormatAssumption, UsedIs DEF HuffmanCode
<1>2. Alphabet(lens)
  BY <1>1 DEF Alphabet, HuffmanCode
<1>3. IsFiniteSet(R) /\ Cardinality(R) = 2 ^ D /\ 2 ^ D \in Nat
  <2>1. Full(U, lens) /\ \A s \in U : lens[s] <= D
    BY <1>1 DEF HuffmanCode
  <2> QED BY <1>1, <2>1, Doubles DEF Full
<1>4. ASSUME NEW n \in 0 .. D
      PROVE  /\ IsFiniteSet(Upto(n)) /\ Cardinality(Upto(n)) \in Nat /\ Cardinality(Upto(n)) <= 2 ^ D
             /\ 2 ^ (D - n) \in Nat \ {0}
  <2>1. Upto(n) \in SUBSET R
    OBVIOUS
  <2>2. D - n \in Nat
    BY <1>1
  <2> HIDE DEF Upto, R, D
  <2>3. IsFiniteSet(Upto(n)) /\ Cardinality(Upto(n)) <= 2 ^ D
    BY <1>3, <2>1, FS_Subset
  <2> QED BY <2>2, <2>3, FS_CardinalityType, Doubles
<1>5. ASSUME NEW n \in 1 .. D
      PROVE  Cardinality(Upto(n)) = Cardinality(Upto(n - 1)) + CountOf(lens, n) * 2 ^ (D - n)
  <2> DEFINE L == Of(n) \X Codes(n)
             q == 2 ^ (D - n)
  <2>1. n \in 0 .. D /\ n - 1 \in 0 .. D /\ n \in Nat /\ n - 1 \in Nat
    BY <1>1
  <2>2. q \in Nat \ {0}
    BY <1>4, <2>1
  <2>3. ASSUME NEW p PROVE p \in Upto(n) <=> p \in Upto(n - 1) \cup L
    <3>1. ASSUME NEW s \in U, NEW i \in Nat, lens[s] = n
          PROVE  i < 2 ^ (D - lens[s]) <=> i \in Codes(n)
      <4>1. i < q <=> i \in 0 .. (q - 1)
        BY <2>2
      <4> QED BY <3>1, <4>1
    <3>2. ASSUME NEW s \in U PROVE lens[s] <= n <=> lens[s] <= n - 1 \/ lens[s] = n
      BY <1>1, <2>1
    <3>3. ASSUME p \in Upto(n) PROVE p \in Upto(n - 1) \cup L
      <4>1. p \in U \X Nat /\ p[2] < 2 ^ (D - lens[p[1]]) /\ lens[p[1]] <= n /\ p \in R
        BY <3>3 DEF Room
      <4>2. CASE lens[p[1]] <= n - 1
        BY <3>3, <4>2
      <4>3. CASE lens[p[1]] = n
        <5>1. p[2] \in Codes(n) /\ p[1] \in Of(n)
          BY <1>1, <3>1, <4>1, <4>3
        <5> QED BY <4>1, <5>1
      <4> QED BY <3>2, <4>1, <4>2, <4>3
    <3>4. ASSUME p \in Upto(n - 1) PROVE p \in Upto(n)
      <4>1. p \in R /\ p[1] \in U /\ lens[p[1]] <= n - 1
        BY <3>4 DEF Room
      <4> QED BY <3>2, <4>1
    <3>5. ASSUME p \in L PROVE p \in Upto(n)
      <4>1. p = <<p[1], p[2]>> /\ p[1] \in DOMAIN lens /\ lens[p[1]] = n /\ p[2] \in 0 .. (q - 1)
        BY <3>5
      <4>2. p[1] \in U /\ p[2] \in Nat
        BY <1>1, <2>1, <2>2, <4>1
      <4>3. p[2] < 2 ^ (D - lens[p[1]])
        BY <3>1, <4>1, <4>2
      <4>4. p \in R
        BY <4>1, <4>2, <4>3 DEF Room
      <4> QED BY <2>1, <4>1, <4>4
    <3> QED BY <3>3, <3>4, <3>5
  <2>4. Upto(n - 1) \cap L = {}
    <3>1. ASSUME NEW p \in Upto(n - 1), p \in L PROVE FALSE
      <4>1. lens[p[1]] = n /\ lens[p[1]] <= n - 1
        BY <3>1
      <4> QED BY <2>1, <4>1
    <3> QED BY <3>1
  <2>5. /\ IsFiniteSet(Of(n)) /\ Cardinality(Of(n)) = CountOf(lens, n) /\ CountOf(lens, n) \in Nat
    <3>1. Of(n) \in SUBSET DOMAIN lens
      OBVIOUS
    <3>2. Cardinality(Of(n)) = CountOf(lens, n)
      BY DEF CountOf
    <3> HIDE DEF Of
    <3> QED BY <1>2, <3>1, <3>2, FS_Subset, FS_CardinalityType DEF Alphabet
  <2>6. IsFiniteSet(Codes(n)) /\ Cardinality(Codes(n)) = q
    <3>1. 0 \in Int /\ q - 1 \in Int /\ ~(0 > q - 1) /\ (q - 1) - 0 + 1 = q
      BY <2>2
    <3> HIDE DEF q
    <3>2. IsFiniteSet(0 .. (q - 1)) /\ Cardinality(0 .. (q - 1)) = q
      BY <3>1, FS_Interval
    <3> QED BY <3>2 DEF q
  <2>7. IsFiniteSet(L) /\ Cardinality(L) = CountOf(lens, n) * q
    <3> DEFINE A == Of(n)
               B == Codes(n)
    <3>1. IsFiniteSet(A) /\ IsFiniteSet(B) /\ Cardinality(A) = CountOf(lens, n) /\ Cardinality(B) = q
      BY <2>5, <2>6
    <3>2. L = A \X B
      OBVIOUS
    <3> HIDE DEF A, B, L
    <3>3. IsFiniteSet(A \X B) /\ Cardinality(A \X B) = Cardinality(A) * Cardinality(B)
      BY <3>1, FS_Product
    <3> QED BY <3>1, <3>2, <3>3
  <2>8. Upto(n) = Upto(n - 1) \cup L
    BY <2>3
  <2> DEFINE X == Upto(n - 1)
  <2>9. IsFiniteSet(X) /\ Cardinality(X) \in Nat
    BY <1>4, <2>1
  <2> HIDE DEF L, X
  <2>10. Cardinality(X \cup L) = Cardinality(X) + Cardinality(L) - Cardinality(X \cap L)
    BY <2>7, <2>9, FS_Union
  <2>11. Cardinality(X \cap L) = 0
    BY <2>4, FS_EmptySet DEF X
  <2> DEFINE c == CountOf(lens, n) * q
  <2>12. Cardinality(L) = c /\ c \in Nat
    BY <2>2, <2>5, <2>7
  <2> HIDE DEF c
  <2>13. Cardinality(X \cup L) = Cardinality(X) + c
    BY <2>9, <2>10, <2>11, <2>12
  <2> QED BY <2>8, <2>13 DEF X, c, q
<1>6. Cardinality(Upto(0)) = 0
  <2>1. ASSUME NEW p \in Upto(0) PROVE FALSE
    <3>1. p[1] \in U /\ lens[p[1]] <= 0
      BY <2>1 DEF Room
    <3> QED BY <1>1, <3>1
  <2>2. Upto(0) = {}
    BY <2>1
  <2> QED BY <2>2, FS_EmptySet
<1>7. Upto(D) = R
  <2>1. \A p \in R : p[1] \in U
    BY DEF Room
  <2> QED BY <1>1, <2>1
<1>8. PICK left : Lefts(left, lens)
  BY <1>2, LeftIs
<1> DEFINE T(n) == 2 ^ D - Cardinality(Upto(n))
           P == {n \in 0 .. D : left[n] >= 0 /\ left[n] * 2 ^ (D - n) = T(n)}
<1>9. 0 \in P
  <2>1. left[0] = 1 /\ D - 0 = D /\ T(0) = 2 ^ D
    BY <1>1, <1>3, <1>6, <1>8 DEF Lefts
  <2> HIDE DEF T
  <2> QED BY <1>1, <1>3, <2>1
<1>10. ASSUME NEW n \in 1 .. D, n - 1 \in P PROVE n \in P
  <2>1. n \in 0 .. D /\ n - 1 \in 0 .. D
    BY <1>1
  <2> DEFINE a == left[n]
             b == left[n - 1]
             c == CountOf(lens, n)
             p == 2 ^ (D - n)
             q == 2 ^ (D - (n - 1))
  <2>2. b \in Int /\ b >= 0 /\ b * q = T(n - 1) /\ a \in Int /\ c \in Nat /\ p \in Nat \ {0}
    BY <1>2, <1>4, <1>8, <1>10, <2>1, Counted DEF Lefts
  <2>3. a = 2 * b - c
    BY <1>8, <2>2 DEF Lefts
  <2>4. q = 2 * p
    <3>1. D - n \in Nat /\ D - (n - 1) = (D - n) + 1
      BY <1>1
    <3> DEFINE k == D - n
    <3>2. k \in Nat /\ D - (n - 1) = k + 1
      BY <3>1
    <3> HIDE DEF k
    <3>3. 2 ^ (k + 1) = 2 * 2 ^ k
      BY <3>2, Doubles
    <3> QED BY <3>2, <3>3 DEF k
  <2>5. T(n) = T(n - 1) - c * p
    <3> DEFINE x == Cardinality(Upto(n))
               y == Cardinality(Upto(n - 1))
               z == c * p
               w == 2 ^ D
    <3>1. x = y + z /\ x \in Nat /\ y \in Nat /\ z \in Nat /\ w \in Nat
      <4>1. z \in Nat
        <5> HIDE DEF c, p
        <5> QED BY <2>2
      <4> QED BY <1>3, <1>4, <1>5, <2>1, <4>1
    <3> HIDE DEF x, y, z, w
    <3>2. w - x = (w - y) - z
      BY <3>1
    <3> QED BY <3>2 DEF x, y, z, w
  <2>6. T(n) \in Nat /\ T(n - 1) \in Nat
    <3> DEFINE x == Cardinality(Upto(n))
               y == Cardinality(Upto(n - 1))
               w == 2 ^ D
    <3>1. x \in Nat /\ y \in Nat /\ w \in Nat /\ x <= w /\ y <= w
      BY <1>3, <1>4, <2>1
    <3> HIDE DEF x, y, w
    <3>2. w - x \in Nat /\ w - y \in Nat
      BY <3>1
    <3> QED BY <3>2 DEF x, y, w
  <2> DEFINE t == T(n)
             u == T(n - 1)
  <2>7. a * p = t /\ a >= 0
    <3>1. a \in Int /\ b \in Int /\ c \in Int /\ p \in Int /\ p \in Nat \ {0} /\ q \in Int
      BY <2>2, <2>4
    <3>2. t = u - c * p /\ t \in Nat /\ b * q = u
      BY <2>2, <2>5, <2>6
    <3> HIDE DEF a, b, c, p, q, t, u
    <3>3. a * p = b * q - c * p
      BY <2>3, <2>4, <3>1, SameProduct
    <3>4. a * p = t /\ a * p >= 0
      BY <3>2, <3>3
    <3> QED BY <3>1, <3>4, SignOfProduct
  <2> QED BY <2>1, <2>7
<1>11. D \in P
  <2> HIDE DEF P, D
  <2>1. 0 .. D \subseteq P
    BY <1>1, <1>9, <1>10, Upward
  <2> QED BY <1>1, <2>1
<1>12. left[D] * 2 ^ (D - D) = 0
  <2>1. T(D) = 0
    <3> DEFINE w == 2 ^ D
    <3>1. Cardinality(Upto(D)) = w /\ w \in Nat
      BY <1>3, <1>7
    <3> HIDE DEF w
    <3>2. w - w = 0
      BY <3>1
    <3> QED BY <3>1, <3>2 DEF w
  <2> HIDE DEF T
  <2> QED BY <1>11, <2>1
<1>13. left[D] = 0
  <2>1. D - D = 0 /\ 2 ^ 0 = 1 /\ left[D] \in Int
    BY <1>1, <1>8, Doubles DEF Lefts
  <2> DEFINE x == left[D]
  <2>2. x * 1 = 0 /\ x \in Int
    BY <1>12, <2>1
  <2> HIDE DEF x
  <2>3. x = 0
    BY <2>2
  <2> QED BY <2>3 DEF x
<1> QED
  BY <1>2, <1>8, <1>13 DEF Lefts

(* When every symbol is as frequent as the others, the trees stand in one    *)
(* row: the two at its front are merged, and what is made goes to its end.   *)
Row(l, m, i) == IF i <= Len(l) THEN l[i] ELSE m[i - Len(l)]
Flat(l, m) == /\ \A i \in 1 .. Len(l) : l[i].weight = 1
              /\ \A j \in 1 .. Len(m) : m[j].weight >= 1

(* Among symbols of one weight, the first of the row is taken.              *)
LEMMA PickFirst ==
  ASSUME NEW l \in Seq(Node), NEW m \in Seq(Node), Flat(l, m), Len(l) + Len(m) > 0
  PROVE  LET p == Pick(l, m)
         IN  /\ p.node = Row(l, m, 1) /\ p.node.weight >= 1 /\ Flat(p.leaves, p.made)
             /\ \A i \in 1 .. (Len(l) + Len(m) - 1) : Row(p.leaves, p.made, i) = Row(l, m, i + 1)
<1> DEFINE a == Len(l)
           b == Len(m)
<1>1. a \in Nat /\ b \in Nat /\ a + b > 0
  BY LenProperties
<1>2. CASE a > 0
  <2> DEFINE t == Tail(l)
  <2>1. /\ t \in Seq(Node) /\ Len(t) = a - 1 /\ l # <<>>
        /\ \A i \in 1 .. Len(t) : t[i] = l[i + 1]
    BY <1>1, <1>2, HeadTailProperties, EmptySeq
  <2>2. LeafFirst(l, m)
    <3>1. m = <<>> \/ 1 \in 1 .. b
      BY <1>1, EmptySeq
    <3>2. 1 \in 1 .. a
      BY <1>1, <1>2
    <3>3. m # <<>> => l[1].weight = 1 /\ m[1].weight >= 1
      BY <3>1, <3>2 DEF Flat
    <3>4. m # <<>> => m[1].weight \in Nat
      <4>1. m # <<>> => m[1] \in Node
        BY <3>1, ElementOfSeq
      <4> QED BY <4>1 DEF Node
    <3>5. m # <<>> => l[1].weight <= m[1].weight
      BY <3>3, <3>4
    <3> QED BY <2>1, <3>5 DEF LeafFirst
  <2>3. Pick(l, m) = [node |-> l[1], leaves |-> t, made |-> m]
    BY <2>2 DEF Pick
  <2>4. Row(l, m, 1) = l[1] /\ l[1].weight = 1
    <3>1. 1 \in 1 .. a /\ 1 <= a
      BY <1>1, <1>2
    <3> QED BY <3>1 DEF Row, Flat
  <2> HIDE DEF t
  <2>5. Flat(t, m)
    <3>1. ASSUME NEW i \in 1 .. Len(t) PROVE t[i].weight = 1
      <4>1. i + 1 \in 1 .. a
        BY <1>1, <2>1
      <4> QED BY <2>1, <4>1 DEF Flat
    <3> QED BY <3>1 DEF Flat
  <2>6. ASSUME NEW i \in 1 .. (a + b - 1) PROVE Row(t, m, i) = Row(l, m, i + 1)
    <3> DEFINE c == Len(t)
    <3>1. c = a - 1
      BY <2>1
    <3>2. CASE i <= c
      <4>1. i \in 1 .. c /\ i + 1 <= a
        BY <1>1, <3>1, <3>2
      <4>2. t[i] = l[i + 1]
        BY <2>1, <4>1
      <4> QED BY <3>2, <4>1, <4>2 DEF Row
    <3>3. CASE ~(i <= c)
      <4>1. ~(i + 1 <= a) /\ i - c = (i + 1) - a
        BY <1>1, <3>1, <3>3
      <4> QED BY <3>3, <4>1 DEF Row
    <3> QED BY <3>2, <3>3
  <2> DEFINE p == Pick(l, m)
  <2>7. p.node = l[1] /\ p.leaves = t /\ p.made = m
    BY <2>3
  <2> HIDE DEF p
  <2> QED BY <2>4, <2>5, <2>6, <2>7 DEF p
<1>3. CASE ~(a > 0)
  <2> DEFINE t == Tail(m)
  <2>1. a = 0 /\ l = <<>>
    BY <1>1, <1>3, EmptySeq
  <2>2. /\ t \in Seq(Node) /\ Len(t) = b - 1 /\ b > 0
        /\ \A i \in 1 .. Len(t) : t[i] = m[i + 1]
    <3>1. b > 0
      BY <1>1, <2>1
    <3> QED BY <1>1, <3>1, HeadTailProperties, EmptySeq
  <2>3. Pick(l, m) = [node |-> m[1], leaves |-> l, made |-> t]
    BY <2>1 DEF Pick, LeafFirst
  <2>4. Row(l, m, 1) = m[1] /\ m[1].weight >= 1
    <3>1. 1 \in 1 .. b /\ ~(1 <= a) /\ 1 - a = 1
      BY <1>1, <2>1, <2>2
    <3> QED BY <3>1 DEF Row, Flat
  <2> HIDE DEF t
  <2>5. Flat(l, t)
    <3>1. ASSUME NEW i \in 1 .. Len(t) PROVE t[i].weight >= 1
      <4>1. i + 1 \in 1 .. b
        BY <1>1, <2>2
      <4> QED BY <2>2, <4>1 DEF Flat
    <3> QED BY <3>1 DEF Flat
  <2>6. ASSUME NEW i \in 1 .. (a + b - 1) PROVE Row(l, t, i) = Row(l, m, i + 1)
    <3>1. i \in 1 .. Len(t) /\ ~(i <= a) /\ ~(i + 1 <= a) /\ i - a = i /\ (i + 1) - a = i + 1
      BY <1>1, <2>1, <2>2
    <3> QED BY <2>2, <3>1 DEF Row
  <2> DEFINE p == Pick(l, m)
  <2>7. p.node = m[1] /\ p.leaves = l /\ p.made = t
    BY <2>3
  <2> HIDE DEF p
  <2> QED BY <2>4, <2>5, <2>6, <2>7 DEF p
<1> QED
  BY <1>2, <1>3

(* What is below a node of the row belongs to the forest.                   *)
LEMMA RowBelow ==
  ASSUME NEW l, NEW m, NEW V, NEW lens, Forest(l, m, V, lens), NEW i \in 1 .. (Len(l) + Len(m))
  PROVE  Row(l, m, i).below \subseteq V
<1> DEFINE a == Len(l)
           b == Len(m)
<1>1. a \in Nat /\ b \in Nat
  BY LenProperties DEF Forest
<1>2. i \in 1 .. a \/ (~(i <= a) /\ i - a \in 1 .. b)
  <2> HIDE DEF a, b
  <2>1. i \in 1 .. (a + b)
    BY DEF a, b
  <2> QED BY <1>1, <2>1
<1>3. i \in 1 .. a => i <= a
  BY <1>1
<1> QED
  BY <1>2, <1>3 DEF Row, Forest

(* A new node is the last of the row.                                       *)
LEMMA RowGrows ==
  ASSUME NEW l \in Seq(Node), NEW m \in Seq(Node), NEW n \in Node, Flat(l, m), n.weight >= 1
  PROVE  LET w == Append(m, n)
         IN  /\ Flat(l, w) /\ Row(l, w, Len(l) + Len(m) + 1) = n
             /\ \A i \in 1 .. (Len(l) + Len(m)) : Row(l, w, i) = Row(l, m, i)
<1> DEFINE a == Len(l)
           b == Len(m)
           w == Append(m, n)
<1>1. a \in Nat /\ b \in Nat
  BY LenProperties
<1>2. Len(w) = b + 1 /\ w[b + 1] = n /\ \A i \in 1 .. b : w[i] = m[i]
  BY AppendProperties
<1> HIDE DEF w
<1>3. Flat(l, w)
  <2>1. ASSUME NEW i \in 1 .. Len(w) PROVE w[i].weight >= 1
    <3>1. i \in 1 .. b \/ i = b + 1
      BY <1>1, <1>2
    <3> QED BY <1>2, <3>1 DEF Flat
  <2> QED BY <2>1 DEF Flat
<1>4. Row(l, w, a + b + 1) = n
  <2>1. ~(a + b + 1 <= a) /\ a + b + 1 - a = b + 1
    BY <1>1
  <2> QED BY <1>2, <2>1 DEF Row
<1>5. ASSUME NEW i \in 1 .. (a + b) PROVE Row(l, w, i) = Row(l, m, i)
  <2>1. i <= a \/ i - a \in 1 .. b
    BY <1>1
  <2> QED BY <1>2, <2>1 DEF Row
<1> QED
  BY <1>3, <1>4, <1>5 DEF w

(* Of the trees in the row, the first x are no higher than j and the others  *)
(* no higher than one more; together they do not need more than max bits.    *)
Level(r, x, j, max) == j \in 0 .. max /\ x \in 0 .. r /\ x + 2 * (r - x) <= 2 ^ (max - j)

Lowered(r, x, j, y, k) ==
  \A i \in 1 .. (r - 1) : \A h \in Nat :
    /\ i < r - 1 /\ h <= (IF i + 2 <= x THEN j ELSE j + 1) => h <= (IF i <= y THEN k ELSE k + 1)
    /\ i = r - 1 /\ h <= (IF 2 <= x THEN j ELSE j + 1) => h + 1 <= (IF i <= y THEN k ELSE k + 1)

(* Merging the first two of a row whose depths differ by one at most leaves *)
(* such a row, and never makes it deeper than it may be.                    *)
LEMMA LevelDown ==
  ASSUME NEW r \in Nat, r >= 2, NEW max \in Nat, NEW x \in Nat, NEW j \in Nat, Level(r, x, j, max)
  PROVE  \E y, k \in Nat :
           Level(r - 1, y, k, max) /\ Lowered(r, x, j, y, k)
<1>1. j \in 0 .. max /\ x \in 0 .. r /\ x + 2 * (r - x) <= 2 ^ (max - j) /\ max - j \in Nat
  BY DEF Level
<1>2. CASE x >= 2
  <2> DEFINE y == x - 2
  <2>1. y \in Nat /\ y \in 0 .. (r - 1) /\ y + 2 * ((r - 1) - y) = x + 2 * (r - x)
    BY <1>1, <1>2
  <2>2. Level(r - 1, y, j, max)
    BY <1>1, <2>1 DEF Level
  <2>3. ASSUME NEW i \in 1 .. (r - 1), NEW h \in Nat
        PROVE  /\ i < r - 1 /\ h <= (IF i + 2 <= x THEN j ELSE j + 1)
                     => h <= (IF i <= y THEN j ELSE j + 1)
               /\ i = r - 1 /\ h <= (IF 2 <= x THEN j ELSE j + 1)
                     => h + 1 <= (IF i <= y THEN j ELSE j + 1)
    BY <1>1, <1>2
  <2>4. Lowered(r, x, j, y, j)
    <3> HIDE DEF y
    <3> QED BY <2>3 DEF Lowered
  <2> HIDE DEF y
  <2> QED BY <2>1, <2>2, <2>4
<1>3. CASE x < 2
  <2> DEFINE q == 2 ^ (max - j)
             p == 2 ^ (max - j - 1)
             k == j + 1
  <2>1. q \in Nat \ {0} /\ q >= 3 /\ 2 * r - x <= q
    <3>1. q \in Nat \ {0} /\ x + 2 * (r - x) <= q
      BY <1>1, Doubles
    <3> HIDE DEF q
    <3> QED BY <1>1, <1>3, <3>1
  <2>2. max - j > 0
    <3>1. CASE max - j = 0
      <4>1. q = 1
        BY <3>1, Doubles
      <4> HIDE DEF q
      <4> QED BY <2>1, <4>1
    <3> QED BY <1>1, <3>1
  <2>3. q = 2 * p /\ p \in Nat
    <3> DEFINE n == max - j
    <3>1. n \in Nat /\ n > 0 /\ max - j - 1 = n - 1
      BY <1>1, <2>2
    <3> HIDE DEF n
    <3>2. 2 ^ n = 2 * 2 ^ (n - 1) /\ 2 ^ (n - 1) \in Nat
      BY <3>1, Halves
    <3> QED BY <3>1, <3>2 DEF n
  <2>4. r <= p
    <3> HIDE DEF q, p
    <3> QED BY <1>1, <1>3, <2>1, <2>3
  <2>5. k \in 0 .. max /\ 2 ^ (max - k) = p
    <3>1. max - k = max - j - 1
      BY <1>1
    <3> QED BY <1>1, <2>2, <3>1
  <2> HIDE DEF p, q
  <2>6. Level(r - 1, r - 2, k, max)
    <3>1. r - 2 \in 0 .. (r - 1) /\ (r - 2) + 2 * ((r - 1) - (r - 2)) = r
      OBVIOUS
    <3> HIDE DEF k
    <3> QED BY <2>3, <2>4, <2>5, <3>1 DEF Level
  <2>7. ASSUME NEW i \in 1 .. (r - 1), NEW h \in Nat
        PROVE  /\ i < r - 1 /\ h <= (IF i + 2 <= x THEN j ELSE j + 1)
                   => h <= (IF i <= r - 2 THEN k ELSE k + 1)
               /\ i = r - 1 /\ h <= (IF 2 <= x THEN j ELSE j + 1)
                   => h + 1 <= (IF i <= r - 2 THEN k ELSE k + 1)
    BY <1>1, <1>3
  <2>8. r - 2 \in Nat /\ k \in Nat
    BY <1>1
  <2> HIDE DEF k
  <2>9. Lowered(r, x, j, r - 2, k)
    BY <2>7 DEF Lowered
  <2> QED BY <2>6, <2>8, <2>9
<1> QED
  BY <1>2, <1>3

Even(l, m, lens, r, max) ==
  /\ Flat(l, m)
  /\ \E x, j \in Nat :
       /\ Level(r, x, j, max)
       /\ \A i \in 1 .. r : \A s \in Row(l, m, i).below : lens[s] <= (IF i <= x THEN j ELSE j + 1)

(* One merge among symbols of one weight keeps the row even.                *)
LEMMA MergeEven ==
  ASSUME NEW so, NEW S, NEW U, Forest(so.leaves, so.made, U, so.lens),
         so.lens \in [S -> Nat], U \subseteq S, NEW r \in Nat, r >= 2,
         Len(so.leaves) + Len(so.made) = r,
         NEW max \in Nat, Even(so.leaves, so.made, so.lens, r, max)
  PROVE  LET t == MergeTwo(so) IN Even(t.leaves, t.made, t.lens, r - 1, max)
<1> DEFINE one  == Pick(so.leaves, so.made)
           two  == Pick(one.leaves, one.made)
           A    == one.node.below
           B    == two.node.below
           V    == (U \ A) \ B
           node == [weight |-> one.node.weight + two.node.weight, below |-> A \cup B]
           more == [s \in DOMAIN so.lens |-> so.lens[s] + (IF s \in A \cup B THEN 1 ELSE 0)]
           q(i) == Row(so.leaves, so.made, i)
           w    == Append(two.made, node)
<1>1. MergeTwo(so) = [leaves |-> two.leaves, made |-> w, lens |-> more]
  BY DEF MergeTwo
<1> HIDE DEF one, two
<1>2. Len(so.leaves) + Len(so.made) > 0 /\ Flat(so.leaves, so.made)
      /\ so.leaves \in Seq(Node) /\ so.made \in Seq(Node)
  <2>1. so.leaves \in Seq(Node) /\ so.made \in Seq(Node) /\ Flat(so.leaves, so.made)
    BY DEF Forest, Even
  <2> DEFINE a == Len(so.leaves) + Len(so.made)
  <2>2. a = r
    OBVIOUS
  <2> HIDE DEF a
  <2>3. a > 0
    BY <2>2
  <2> QED BY <2>1, <2>3 DEF a
<1>3. /\ one.node \in Node /\ A \subseteq U /\ Forest(one.leaves, one.made, U \ A, so.lens)
      /\ Len(one.leaves) + Len(one.made) = r - 1
  <2>1. LET p == Pick(so.leaves, so.made)
         IN  /\ p.node \in Node /\ p.node.below \subseteq U
             /\ Forest(p.leaves, p.made, U \ p.node.below, so.lens)
             /\ Len(p.leaves) + Len(p.made) = Len(so.leaves) + Len(so.made) - 1
    BY <1>2, PickTree
  <2>2. Len(so.leaves) + Len(so.made) - 1 = r - 1
    <3> DEFINE a == Len(so.leaves)
               b == Len(so.made)
    <3>1. a \in Nat /\ b \in Nat /\ a + b = r
      BY <1>2, LenProperties
    <3> HIDE DEF a, b
    <3>2. a + b - 1 = r - 1
      BY <3>1
    <3> QED BY <3>2 DEF a, b
  <2> QED BY <2>1, <2>2 DEF one
<1>4. /\ one.node = q(1) /\ one.node.weight >= 1 /\ Flat(one.leaves, one.made)
      /\ \A i \in 1 .. (r - 1) : Row(one.leaves, one.made, i) = q(i + 1)
  <2>1. LET p == Pick(so.leaves, so.made)
         IN  /\ p.node = Row(so.leaves, so.made, 1) /\ p.node.weight >= 1 /\ Flat(p.leaves, p.made)
             /\ \A i \in 1 .. (Len(so.leaves) + Len(so.made) - 1) :
                  Row(p.leaves, p.made, i) = Row(so.leaves, so.made, i + 1)
    BY <1>2, PickFirst
  <2>2. Len(so.leaves) + Len(so.made) - 1 = r - 1
    <3> DEFINE a == Len(so.leaves)
               b == Len(so.made)
    <3>1. a \in Nat /\ b \in Nat /\ a + b = r
      BY <1>2, LenProperties
    <3> HIDE DEF a, b
    <3>2. a + b - 1 = r - 1
      BY <3>1
    <3> QED BY <3>2 DEF a, b
  <2> QED BY <2>1, <2>2 DEF one
<1>5. Len(one.leaves) + Len(one.made) > 0 /\ one.leaves \in Seq(Node) /\ one.made \in Seq(Node)
  <2>1. one.leaves \in Seq(Node) /\ one.made \in Seq(Node)
    BY <1>3 DEF Forest
  <2> DEFINE a == Len(one.leaves) + Len(one.made)
  <2>2. a = r - 1
    BY <1>3
  <2> HIDE DEF a
  <2>3. a > 0
    BY <2>2
  <2> QED BY <2>1, <2>3 DEF a
<1>6. Len(one.leaves) + Len(one.made) - 1 = r - 2
  <2> DEFINE a == Len(one.leaves)
             b == Len(one.made)
  <2>1. a \in Nat /\ b \in Nat /\ a + b = r - 1
    BY <1>3, <1>5, LenProperties
  <2> HIDE DEF a, b
  <2>2. a + b - 1 = r - 2
    BY <2>1
  <2> QED BY <2>2 DEF a, b
<1>7. /\ two.node \in Node /\ B \subseteq U \ A /\ Forest(two.leaves, two.made, V, so.lens)
      /\ Len(two.leaves) + Len(two.made) = r - 2
  <2> DEFINE X == U \ A
  <2>1. Forest(one.leaves, one.made, X, so.lens)
    BY <1>3
  <2> HIDE DEF X
  <2>2. LET p == Pick(one.leaves, one.made)
         IN  /\ p.node \in Node /\ p.node.below \subseteq X
             /\ Forest(p.leaves, p.made, X \ p.node.below, so.lens)
             /\ Len(p.leaves) + Len(p.made) = Len(one.leaves) + Len(one.made) - 1
    BY <1>5, <2>1, PickTree
  <2> QED BY <1>6, <2>2 DEF two, X
<1>8. /\ two.node = q(2) /\ two.node.weight >= 1 /\ Flat(two.leaves, two.made)
      /\ \A i \in 1 .. (r - 2) : Row(two.leaves, two.made, i) = q(i + 2)
  <2>1. LET p == Pick(one.leaves, one.made)
         IN  /\ p.node = Row(one.leaves, one.made, 1) /\ p.node.weight >= 1 /\ Flat(p.leaves, p.made)
             /\ \A i \in 1 .. (Len(one.leaves) + Len(one.made) - 1) :
                  Row(p.leaves, p.made, i) = Row(one.leaves, one.made, i + 1)
    BY <1>4, <1>5, PickFirst
  <2>2. /\ two.node = Row(one.leaves, one.made, 1) /\ two.node.weight >= 1
        /\ Flat(two.leaves, two.made)
        /\ \A i \in 1 .. (r - 2) : Row(two.leaves, two.made, i) = Row(one.leaves, one.made, i + 1)
    BY <1>6, <2>1 DEF two
  <2> HIDE DEF q
  <2>3. Row(one.leaves, one.made, 1) = q(2)
    <3>1. 1 \in 1 .. (r - 1) /\ 1 + 1 = 2
      OBVIOUS
    <3> QED BY <1>4, <3>1
  <2>4. ASSUME NEW i \in 1 .. (r - 2) PROVE Row(two.leaves, two.made, i) = q(i + 2)
    <3>1. i + 1 \in 1 .. (r - 1) /\ (i + 1) + 1 = i + 2
      OBVIOUS
    <3> QED BY <1>4, <2>2, <3>1
  <2> QED BY <2>2, <2>3, <2>4
<1>9. node \in Node /\ node.weight >= 1 /\ node.below = A \cup B
  <2>1. one.node.weight \in Nat /\ two.node.weight \in Nat
    BY <1>3, <1>7 DEF Node
  <2>2. one.node.weight + two.node.weight \in Nat /\ one.node.weight + two.node.weight >= 1
    BY <1>4, <1>8, <2>1
  <2> QED BY <1>3, <1>7, <2>2 DEF Node
<1>10. DOMAIN so.lens = S /\ more \in [S -> Nat]
  OBVIOUS
<1>11. /\ \A s \in A \cup B : more[s] = so.lens[s] + 1
       /\ \A s \in V : more[s] = so.lens[s]
  BY <1>3, <1>7, <1>10
<1> HIDE DEF more, node
<1>12. /\ Flat(two.leaves, w) /\ Row(two.leaves, w, r - 1) = node
       /\ \A i \in 1 .. (r - 2) : Row(two.leaves, w, i) = q(i + 2)
  <2>1. two.leaves \in Seq(Node) /\ two.made \in Seq(Node)
    BY <1>7 DEF Forest
  <2>2. /\ Flat(two.leaves, w) /\ Row(two.leaves, w, Len(two.leaves) + Len(two.made) + 1) = node
        /\ \A i \in 1 .. (Len(two.leaves) + Len(two.made)) :
             Row(two.leaves, w, i) = Row(two.leaves, two.made, i)
    BY <1>8, <1>9, <2>1, RowGrows
  <2>3. Len(two.leaves) + Len(two.made) + 1 = r - 1
    <3> DEFINE a == Len(two.leaves)
               b == Len(two.made)
    <3>1. a \in Nat /\ b \in Nat /\ a + b = r - 2
      BY <1>7, <2>1, LenProperties
    <3> HIDE DEF a, b
    <3>2. a + b + 1 = r - 1
      BY <3>1
    <3> QED BY <3>2 DEF a, b
  <2> HIDE DEF w, q
  <2>4. /\ Flat(two.leaves, w) /\ Row(two.leaves, w, r - 1) = node
        /\ \A i \in 1 .. (r - 2) : Row(two.leaves, w, i) = Row(two.leaves, two.made, i)
    BY <1>7, <2>2, <2>3
  <2> QED BY <1>8, <2>4
<1>13. PICK x, j \in Nat :
         /\ Level(r, x, j, max)
         /\ \A i \in 1 .. r : \A s \in q(i).below : so.lens[s] <= (IF i <= x THEN j ELSE j + 1)
  BY DEF Even
<1>14. PICK y, k \in Nat : Level(r - 1, y, k, max) /\ Lowered(r, x, j, y, k)
  BY <1>13, LevelDown
<1>15. ASSUME NEW i \in 1 .. (r - 1), NEW s \in Row(two.leaves, w, i).below
       PROVE  more[s] <= (IF i <= y THEN k ELSE k + 1)
  <2>1. CASE i < r - 1
    <3>1. i \in 1 .. (r - 2) /\ i + 2 \in 1 .. r
      BY <2>1
    <3>2. s \in q(i + 2).below /\ s \in Row(two.leaves, two.made, i).below
      BY <1>8, <1>12, <1>15, <3>1
    <3>3. s \in V
      BY <1>7, <3>1, <3>2, RowBelow
    <3>4. more[s] = so.lens[s] /\ so.lens[s] \in Nat
      BY <1>11, <3>3
    <3>5. so.lens[s] <= (IF i + 2 <= x THEN j ELSE j + 1)
      BY <1>13, <3>1, <3>2
    <3> HIDE DEF A, B, V, w, q
    <3> QED BY <1>14, <2>1, <3>4, <3>5 DEF Lowered
  <2>2. CASE i = r - 1
    <3>1. s \in A \cup B
      BY <1>9, <1>12, <1>15, <2>2
    <3>2. so.lens[s] \in Nat /\ more[s] = so.lens[s] + 1
      BY <1>3, <1>7, <1>11, <3>1
    <3>3. so.lens[s] <= (IF 2 <= x THEN j ELSE j + 1)
      <4>1. CASE s \in A
        <5>1. 1 \in 1 .. r /\ s \in q(1).below
          BY <1>4, <4>1
        <5>2. so.lens[s] <= (IF 1 <= x THEN j ELSE j + 1)
          BY <1>13, <5>1
        <5>3. 2 <= x \/ so.lens[s] <= j + 1
          BY <3>2, <5>2
        <5> QED BY <3>2, <5>2
      <4>2. CASE s \in B
        <5>1. 2 \in 1 .. r /\ s \in q(2).below
          BY <1>8, <4>2
        <5> QED BY <1>13, <5>1
      <4> QED BY <3>1, <4>1, <4>2
    <3> HIDE DEF A, B, V, w, q
    <3> QED BY <1>14, <2>2, <3>2, <3>3 DEF Lowered
  <2> QED BY <2>1, <2>2
<1> DEFINE t == MergeTwo(so)
<1>16. t.leaves = two.leaves /\ t.made = w /\ t.lens = more
  BY <1>1
<1>17. Even(two.leaves, w, more, r - 1, max)
  <2> HIDE DEF w, q, A, B, V
  <2> QED BY <1>12, <1>14, <1>15 DEF Even
<1> HIDE DEF t, w
<1> QED
  BY <1>16, <1>17 DEF t

(* With every symbol in use as frequent as the others, the tree is no deeper *)
(* than it has to be.                                                        *)
LEMMA EvenTree ==
  ASSUME NEW freq, Alphabet(freq), Cardinality(Used(freq)) >= 2,
         \A s \in Used(freq) : freq[s] = 1,
         NEW max \in Nat, Cardinality(Used(freq)) <= 2 ^ max
  PROVE  \A s \in DOMAIN freq : TreeOf(freq)[s] <= max
<1> DEFINE r == Cardinality(Used(freq))
           U == Used(freq)
           S == DOMAIN freq
<1>1. PICK M : Merged(M, freq)
  BY MergedIs
<1>2. r \in Nat /\ r >= 2 /\ U \subseteq S
  BY UsedIs
<1> DEFINE Fit(k) == Even(M[k].leaves, M[k].made, M[k].lens, r - k + 1, max)
           P == {k \in 0 .. r : k = 0 \/ Fit(k)}
<1>3. 0 \in P
  BY <1>2
<1>4. Fit(1)
  <2> DEFINE Z == Leaves(freq)
             l == Z.leaves
  <2>1. M[1] = Z
    BY <1>1 DEF Merged
  <2>2. /\ Z.made = <<>> /\ Len(l) = r /\ Forest(l, Z.made, U, Z.lens)
        /\ \A s \in S : Z.lens[s] = 0
        /\ \A i \in 1 .. Len(l) : \E s \in U : l[i] = [weight |-> freq[s], below |-> {s}]
    BY LeavesForest
  <2> HIDE DEF Z
  <2>3. Flat(l, Z.made)
    <3>1. ASSUME NEW i \in 1 .. Len(l) PROVE l[i].weight = 1
      <4>1. PICK s \in U : l[i] = [weight |-> freq[s], below |-> {s}]
        BY <2>2
      <4>2. l[i].weight = freq[s] /\ freq[s] = 1
        BY <4>1
      <4> QED BY <4>2
    <3>2. 1 .. Len(Z.made) = {}
      BY <2>2, EmptySeq
    <3> QED BY <3>1, <3>2 DEF Flat
  <2>4. Level(r, r, 0, max)
    <3>1. r + 2 * (r - r) = r /\ max - 0 = max /\ 0 \in 0 .. max
      BY <1>2
    <3> QED BY <1>2, <3>1 DEF Level
  <2>5. ASSUME NEW i \in 1 .. r, NEW s \in Row(l, Z.made, i).below
        PROVE  Z.lens[s] <= (IF i <= r THEN 0 ELSE 0 + 1)
    <3>1. i <= r /\ Row(l, Z.made, i) = l[i]
      BY <1>2, <2>2 DEF Row
    <3>2. s \in U
      BY <2>2, <2>5, <3>1 DEF Forest
    <3>3. Z.lens[s] = 0
      BY <1>2, <2>2, <3>2
    <3> QED BY <3>1, <3>3
  <2>6. r - 1 + 1 = r /\ 0 \in Nat
    BY <1>2
  <2> HIDE DEF r
  <2>7. Even(l, Z.made, Z.lens, r, max)
    BY <1>2, <2>3, <2>4, <2>5, <2>6 DEF Even
  <2> QED BY <2>1, <2>6, <2>7
<1>5. ASSUME NEW k \in 1 .. r, k - 1 \in P PROVE k \in P
  <2>1. CASE k = 1
    <3>1. k \in 0 .. r
      BY <1>2
    <3> HIDE DEF Fit
    <3> QED BY <1>4, <2>1, <3>1
  <2>2. CASE k # 1
    <3> DEFINE so == M[k - 1]
               n  == r - (k - 1) + 1
    <3>1. k \in 2 .. r /\ k \in 0 .. r /\ k - 1 # 0 /\ k - 1 \in 1 .. r
      BY <1>2, <2>2
    <3>2. Fit(k - 1) /\ M[k] = MergeTwo(so)
      BY <1>1, <1>5, <3>1 DEF Merged
    <3>3. Stage(so, freq, k - 1)
      BY <1>1, <3>1, Stages
    <3>4. n \in Nat /\ n >= 2 /\ n - 1 = r - k + 1
      BY <1>2, <3>1
    <3>5. Even(so.leaves, so.made, so.lens, n, max)
      BY <3>2
    <3>6. /\ Forest(so.leaves, so.made, U, so.lens) /\ so.lens \in [S -> Nat]
          /\ Len(so.leaves) + Len(so.made) = n
      BY <3>3 DEF Stage
    <3> HIDE DEF so, n
    <3>7. LET t == MergeTwo(so) IN Even(t.leaves, t.made, t.lens, n - 1, max)
      BY <1>2, <3>4, <3>5, <3>6, MergeEven
    <3>8. Fit(k)
      BY <3>2, <3>4, <3>7
    <3> HIDE DEF Fit
    <3> QED BY <3>1, <3>8
  <2> QED BY <2>1, <2>2
<1>6. Fit(r)
  <2> HIDE DEF P, Fit, r
  <2>1. 0 .. r \subseteq P
    BY <1>2, <1>3, <1>5, Upward
  <2>2. r \in P /\ r # 0
    BY <1>2, <2>1
  <2> QED BY <2>2 DEF P
<1>7. Stage(M[r], freq, r)
  <2>1. r \in 1 .. r
    BY <1>2
  <2> QED BY <1>1, <2>1, Stages
<1> DEFINE m == M[r].made
           l == M[r].leaves
           z == M[r].lens
<1>8. TreeOf(freq) = z
  BY <1>1 DEF Merged
<1>9. r - r + 1 = 1
  BY <1>2
<1>10. Forest(l, m, U, z) /\ Len(l) + Len(m) = 1 /\ \A s \in S \ U : z[s] = 0
  BY <1>7, <1>9 DEF Stage
<1>11. PICK x, j \in Nat :
         Level(1, x, j, max) /\ \A s \in Row(l, m, 1).below : z[s] <= (IF 1 <= x THEN j ELSE j + 1)
  <2>1. Even(l, m, z, 1, max)
    BY <1>6, <1>9
  <2> HIDE DEF l, m, z
  <2> QED BY <2>1 DEF Even
<1>12. (IF 1 <= x THEN j ELSE j + 1) <= max
  <2>1. j \in 0 .. max /\ x \in 0 .. 1 /\ x + 2 * (1 - x) <= 2 ^ (max - j)
    BY <1>11 DEF Level
  <2>2. CASE x = 1
    BY <2>1, <2>2
  <2>3. CASE x = 0
    <3>1. max - j # 0
      <4>1. max - j = 0 => 2 ^ (max - j) = 1
        BY Doubles
      <4> DEFINE q == 2 ^ (max - j)
      <4>2. 2 <= q
        BY <2>1, <2>3
      <4> HIDE DEF q
      <4>3. q # 1
        BY <4>2
      <4> QED BY <4>1, <4>3 DEF q
    <3> QED BY <2>1, <2>3, <3>1
  <2> QED BY <2>1, <2>2, <2>3
<1> HIDE DEF l, m, z, r
<1>13. ASSUME NEW s \in U PROVE s \in Row(l, m, 1).below
  <2> DEFINE a == Len(l)
             b == Len(m)
  <2>1. a \in Nat /\ b \in Nat /\ a + b = 1
    BY <1>10, LenProperties DEF Forest
  <2>2. (\E i \in 1 .. a : s \in l[i].below) \/ (\E i \in 1 .. b : s \in m[i].below)
    BY <1>10 DEF Forest
  <2> HIDE DEF a, b
  <2>3. CASE a = 1
    <3>1. b = 0 /\ 1 .. a = {1} /\ 1 .. b = {} /\ 1 <= a
      BY <2>1, <2>3
    <3> QED BY <2>2, <3>1 DEF Row, a
  <2>4. CASE a = 0
    <3>1. b = 1 /\ 1 .. a = {} /\ 1 .. b = {1} /\ ~(1 <= a) /\ 1 - a = 1
      BY <2>1, <2>4
    <3> QED BY <2>2, <3>1 DEF Row, a
  <2> QED BY <2>1, <2>3, <2>4
<1>14. ASSUME NEW s \in S PROVE z[s] <= max
  <2>1. CASE s \in U
    <3>1. z[s] <= (IF 1 <= x THEN j ELSE j + 1) /\ z[s] \in Nat
      BY <1>7, <1>11, <1>13, <2>1 DEF Stage, z
    <3> QED BY <1>11, <1>12, <3>1
  <2>2. CASE s \notin U
    BY <1>10, <2>2
  <2> QED BY <2>1, <2>2
<1> QED
  BY <1>8, <1>14

(***************************************************************************)
(* huff_build: halving the frequencies until the tree is not too deep.       *)
(***************************************************************************)
LEMMA QuotientIs ==
  ASSUME NEW b \in Nat, NEW q \in Nat \ {0}, NEW d \in Int, d * q <= b, b < d * q + q
  PROVE  b \div q = d
<1> DEFINE e == b \div q
<1>1. e \in Int /\ e * q <= b /\ b < e * q + q
  OBVIOUS
<1> HIDE DEF e
<1>2. ~(e < d)
  <2>1. ASSUME e < d PROVE FALSE
    <3>1. (e + 1) * q <= d * q
      BY <1>1, <2>1
    <3>2. (e + 1) * q = e * q + q
      BY <1>1
    <3> QED BY <1>1, <3>1, <3>2
  <2> QED BY <2>1
<1>3. ~(d < e)
  <2>1. ASSUME d < e PROVE FALSE
    <3>1. (d + 1) * q <= e * q
      BY <1>1, <2>1
    <3>2. (d + 1) * q = d * q + q
      BY <1>1
    <3> QED BY <1>1, <3>1, <3>2
  <2> QED BY <2>1
<1> QED BY <1>1, <1>2, <1>3 DEF e

(* What is left of a number halved, rounding up, k times.                    *)
HalfOf(a, k) == (a + (2 ^ k - 1)) \div 2 ^ k

(* Halving once more, as huff_build does it, is halving that often.         *)
LEMMA HalfAgain ==
  ASSUME NEW a \in Nat, NEW k \in Nat
  PROVE  HalfOf((a + 1) \div 2, k) = HalfOf(a, k + 1)
<1> DEFINE q == 2 ^ k
           b == (a + 1) \div 2
           c == b + (q - 1)
           d == c \div q
<1>1. q \in Nat \ {0} /\ 2 ^ (k + 1) = 2 * q
  BY Doubles
<1>2. b \in Nat /\ a <= 2 * b /\ 2 * b <= a + 1
  OBVIOUS
<1> HIDE DEF q, b
<1>3. c \in Nat
  BY <1>1, <1>2
<1> HIDE DEF c
<1>4. d \in Int /\ d * q <= c /\ c < d * q + q
  BY <1>1, <1>3
<1> HIDE DEF d
<1> DEFINE e == a + (2 * q - 1)
<1>5. e \in Nat /\ 2 * q \in Nat \ {0}
  BY <1>1
<1>6. d * (2 * q) <= e /\ e < d * (2 * q) + 2 * q
  <2> DEFINE m == d * q
  <2>1. m \in Int /\ d * (2 * q) = 2 * m
    BY <1>1, <1>4
  <2>2. m <= b + (q - 1) /\ b + (q - 1) < m + q
    BY <1>4 DEF c
  <2> HIDE DEF m
  <2>3. 2 * m <= a + (2 * q - 1) /\ a + (2 * q - 1) < 2 * m + 2 * q
    BY <1>1, <1>2, <2>1, <2>2
  <2> QED BY <2>1, <2>3
<1>7. e \div (2 * q) = d
  <2> DEFINE p == 2 * q
  <2>1. p \in Nat \ {0} /\ d * p <= e /\ e < d * p + p
    BY <1>5, <1>6
  <2> HIDE DEF p, e
  <2>2. e \div p = d
    BY <1>4, <1>5, <2>1, QuotientIs
  <2> QED BY <2>2 DEF p
<1> QED
  BY <1>1, <1>7 DEF HalfOf, q, b, c, d

(* What halving upwards does: a number that is used stays used, and comes   *)
(* to 1.                                                                    *)
LEMMA HalfOfIs ==
  ASSUME NEW a \in Nat, NEW k \in Nat
  PROVE  /\ HalfOf(a, k) \in Nat /\ HalfOf(a, 0) = a
         /\ HalfOf(a, k) = 0 <=> a = 0
         /\ a > 0 /\ a <= 2 ^ k => HalfOf(a, k) = 1
<1> DEFINE q == 2 ^ k
           c == a + (q - 1)
<1>1. q \in Nat \ {0} /\ 2 ^ 0 = 1
  BY Doubles
<1> HIDE DEF q
<1>2. c \in Nat
  BY <1>1
<1>3. HalfOf(a, k) = c \div q
  BY DEF HalfOf, q
<1>4. a = 0 => c \div q = 0
  <2>1. a = 0 => 0 * q <= c /\ c < 0 * q + q
    BY <1>1
  <2> HIDE DEF c
  <2> QED BY <1>1, <1>2, <2>1, QuotientIs
<1>5. a > 0 => c \div q >= 1
  <2> DEFINE d == c \div q
  <2>1. d \in Int /\ c < d * q + q
    BY <1>1, <1>2
  <2> HIDE DEF d
  <2>2. ASSUME a > 0, d <= 0 PROVE FALSE
    <3>1. d * q <= 0
      BY <1>1, <2>1, <2>2
    <3> DEFINE m == d * q
    <3>2. m \in Int /\ m <= 0 /\ a + (q - 1) < m + q
      BY <1>1, <2>1, <3>1
    <3> HIDE DEF m
    <3> QED BY <1>1, <2>2, <3>2
  <2>3. a > 0 => d >= 1
    BY <2>1, <2>2
  <2> QED BY <2>3 DEF d
<1>6. a > 0 /\ a <= q => c \div q = 1
  <2>1. a > 0 /\ a <= q => 1 * q <= c /\ c < 1 * q + q
    BY <1>1
  <2> HIDE DEF c
  <2> QED BY <1>1, <1>2, <2>1, QuotientIs
<1>7. HalfOf(a, 0) = a
  <2>1. (a + (1 - 1)) \div 1 = a
    OBVIOUS
  <2> QED BY <1>1, <2>1 DEF HalfOf
<1>8. c \div q \in Nat
  BY <1>1, <1>2
<1> HIDE DEF c
<1> DEFINE d == c \div q
<1>9. (d = 0 <=> a = 0) /\ d \in Nat
  <2>1. (a > 0 => d >= 1) /\ (a = 0 => d = 0)
    BY <1>4, <1>5
  <2> HIDE DEF d
  <2> QED BY <1>8, <2>1 DEF d
<1> QED
  BY <1>3, <1>6, <1>7, <1>9 DEF q

(* A set of numbers that is not empty has a least one.                      *)
LEMMA Smallest ==
  ASSUME NEW S \in SUBSET Nat, S # {}
  PROVE  \E m \in S : \A j \in S : m <= j
<1>1. PICK n \in S : TRUE
  OBVIOUS
<1> DEFINE T == {i \in 0 .. n : n - i \in S}
<1>2. T \in SUBSET (0 .. n) /\ n \in Nat /\ 0 \in T
  BY <1>1
<1> HIDE DEF T
<1>3. PICK t \in T : \A j \in T : j <= t
  BY <1>2, Greatest
<1>4. n - t \in S /\ t \in 0 .. n
  BY <1>2 DEF T
<1>5. ASSUME NEW j \in S PROVE n - t <= j
  <2>1. CASE j <= n
    <3>1. j \in Nat /\ n - j \in 0 .. n /\ n - (n - j) = j
      BY <1>2, <2>1
    <3>2. n - j \in T
      BY <3>1 DEF T
    <3>3. n - j <= t
      BY <1>3, <3>2
    <3> QED BY <1>2, <1>4, <3>1, <3>3
  <2>2. CASE ~(j <= n)
    <3>1. j \in Nat
      OBVIOUS
    <3> QED BY <1>2, <1>4, <2>2, <3>1
  <2> QED BY <2>1, <2>2
<1> QED
  BY <1>4, <1>5

Halved(f) == [s \in DOMAIN f |-> (f[s] + 1) \div 2]
Times(f, k) == [s \in DOMAIN f |-> HalfOf(f[s], k)]
Fits(f, max) == \A s \in DOMAIN TreeOf(f) : TreeOf(f)[s] <= max

(* Halving all the frequencies, once or often: the same symbols stay used.  *)
LEMMA HalvedTimes ==
  ASSUME NEW S, NEW f \in [S -> Nat]
  PROVE  /\ Halved(f) \in [S -> Nat] /\ Times(f, 0) = f
         /\ \A k \in Nat : Times(Halved(f), k) = Times(f, k + 1) /\ Times(f, k) \in [S -> Nat]
         /\ Used(Halved(f)) = Used(f) /\ \A k \in Nat : Used(Times(f, k)) = Used(f)
<1>1. DOMAIN f = S /\ \A s \in S : f[s] \in Nat
  OBVIOUS
<1>2. Halved(f) \in [S -> Nat]
  BY <1>1 DEF Halved
<1>3. Times(f, 0) = f
  <2>1. Times(f, 0) = [s \in S |-> f[s]]
    BY <1>1, HalfOfIs DEF Times
  <2> QED BY <2>1
<1>4. ASSUME NEW k \in Nat
      PROVE  /\ Times(Halved(f), k) = Times(f, k + 1) /\ Times(f, k) \in [S -> Nat]
             /\ Used(Times(f, k)) = Used(f)
  <2>1. \A s \in S : HalfOf((f[s] + 1) \div 2, k) = HalfOf(f[s], k + 1)
    BY <1>1, HalfAgain
  <2>2. Times(Halved(f), k) = Times(f, k + 1)
    BY <1>1, <2>1 DEF Times, Halved
  <2>3. \A s \in S : HalfOf(f[s], k) \in Nat /\ (HalfOf(f[s], k) > 0 <=> f[s] > 0)
    <3>1. ASSUME NEW s \in S PROVE HalfOf(f[s], k) \in Nat /\ (HalfOf(f[s], k) > 0 <=> f[s] > 0)
      <4>1. f[s] \in Nat /\ HalfOf(f[s], k) \in Nat /\ (HalfOf(f[s], k) = 0 <=> f[s] = 0)
        BY <1>1, HalfOfIs
      <4> QED BY <4>1
    <3> QED BY <3>1
  <2>4. Times(f, k) \in [S -> Nat] /\ Used(Times(f, k)) = Used(f)
    BY <1>1, <2>3 DEF Times, Used
  <2> QED BY <2>2, <2>4
<1>5. Used(Halved(f)) = Used(f)
  <2>1. \A s \in S : (f[s] + 1) \div 2 > 0 <=> f[s] > 0
    BY <1>1
  <2> QED BY <1>1, <2>1 DEF Used, Halved
<1> QED
  BY <1>2, <1>3, <1>4, <1>5

(* The halvings huff_build may go through end, or the code does not ask what *)
(* comes of them.                                                            *)
Builds(b, S, max) ==
  b = [f \in [S -> Nat] |-> IF Fits(f, max) THEN TreeOf(f) ELSE b[Halved(f)]]

(* The loop of huff_build that halves until the lengths fit.                *)
LEMMA BuiltIsThere ==
  ASSUME NEW S, NEW max
  PROVE  \E b : Builds(b, S, max)
<1> DEFINE K(f) == {k \in Nat : Fits(Times(f, k), max)}
           L(f) == CHOOSE k \in K(f) : \A j \in K(f) : k <= j
           V(f) == IF K(f) = {} THEN <<>> ELSE TreeOf(Times(f, L(f)))
           b    == [f \in [S -> Nat] |-> V(f)]
<1>1. ASSUME NEW f \in [S -> Nat], K(f) # {}
      PROVE  L(f) \in K(f) /\ \A j \in K(f) : L(f) <= j
  <2>1. K(f) \in SUBSET Nat
    OBVIOUS
  <2> HIDE DEF K
  <2>2. \E m \in K(f) : \A j \in K(f) : m <= j
    BY <1>1, <2>1, Smallest
  <2> QED BY <2>2
<1>2. ASSUME NEW f \in [S -> Nat], Fits(f, max) PROVE V(f) = TreeOf(f)
  <2>1. Times(f, 0) = f
    BY HalvedTimes
  <2>2. 0 \in K(f)
    BY <1>2, <2>1
  <2>3. L(f) = 0
    <3>1. L(f) \in Nat /\ L(f) <= 0
      BY <1>1, <2>2
    <3> HIDE DEF L
    <3> QED BY <3>1
  <2> HIDE DEF K, L
  <2> QED BY <2>1, <2>2, <2>3
<1>3. ASSUME NEW f \in [S -> Nat], ~Fits(f, max)
      PROVE  Halved(f) \in [S -> Nat] /\ V(f) = V(Halved(f))
  <2> DEFINE g == Halved(f)
  <2>1. /\ g \in [S -> Nat] /\ Times(f, 0) = f
        /\ \A k \in Nat : Times(g, k) = Times(f, k + 1)
    BY HalvedTimes
  <2> HIDE DEF g
  <2>2. \A k \in Nat : k \in K(g) <=> k + 1 \in K(f)
    BY <2>1
  <2>3. 0 \notin K(f)
    BY <1>3, <2>1
  <2>4. \A k \in K(f) : k \in Nat /\ k - 1 \in Nat /\ k - 1 \in K(g) /\ (k - 1) + 1 = k
    <3>1. ASSUME NEW k \in K(f) PROVE k \in Nat /\ k - 1 \in Nat /\ (k - 1) + 1 = k
      <4>1. k \in Nat
        OBVIOUS
      <4> HIDE DEF K
      <4> QED BY <2>3, <4>1
    <3> HIDE DEF K
    <3> QED BY <2>2, <3>1
  <2>5. \A k \in K(g) : k \in Nat
    OBVIOUS
  <2> HIDE DEF K
  <2>6. CASE K(g) = {}
    <3>1. K(f) = {}
      BY <2>4, <2>6
    <3> QED BY <2>1, <2>6, <3>1 DEF g
  <2>7. CASE K(g) # {}
    <3>1. K(f) # {}
      BY <2>2, <2>5, <2>7
    <3>2. /\ L(f) \in K(f) /\ \A j \in K(f) : L(f) <= j
          /\ L(g) \in K(g) /\ \A j \in K(g) : L(g) <= j
      BY <1>1, <2>1, <2>7, <3>1
    <3> HIDE DEF L
    <3>3. L(g) \in Nat /\ L(g) + 1 \in K(f) /\ L(f) - 1 \in K(g) /\ L(f) \in Nat /\ L(f) - 1 \in Nat
      BY <2>2, <2>4, <2>5, <3>2
    <3>4. L(f) <= L(g) + 1 /\ L(g) <= L(f) - 1
      BY <3>2, <3>3
    <3> DEFINE x == L(f)
               y == L(g)
    <3>5. x \in Nat /\ y \in Nat /\ x <= y + 1 /\ y <= x - 1
      BY <3>3, <3>4
    <3> HIDE DEF x, y
    <3>6. x = y + 1
      BY <3>5
    <3>7. Times(f, L(f)) = Times(g, L(g))
      BY <2>1, <3>3, <3>6 DEF x, y
    <3> QED BY <2>1, <2>7, <3>1, <3>7 DEF g
  <2> QED BY <2>6, <2>7
<1>4. ASSUME NEW f \in [S -> Nat]
      PROVE  b[f] = IF Fits(f, max) THEN TreeOf(f) ELSE b[Halved(f)]
  <2>1. \A g \in [S -> Nat] : b[g] = V(g)
    OBVIOUS
  <2> HIDE DEF b, V
  <2> QED BY <1>2, <1>3, <2>1
<1>5. b = [f \in [S -> Nat] |-> b[f]]
  <2> HIDE DEF V
  <2> QED OBVIOUS
<1> HIDE DEF b
<1>6. b = [f \in [S -> Nat] |-> IF Fits(f, max) THEN TreeOf(f) ELSE b[Halved(f)]]
  BY <1>4, <1>5
<1> QED
  BY <1>6 DEF Builds

(* When halving often enough makes the lengths fit, the loop ends with them *)
(* fitting.                                                                 *)
LEMMA BuiltFits ==
  ASSUME NEW S, NEW max, NEW b, Builds(b, S, max), NEW n \in Nat
  PROVE  \A f \in [S -> Nat] : Fits(Times(f, n), max) =>
           \E h \in [S -> Nat] : Used(h) = Used(f) /\ b[f] = TreeOf(h) /\ Fits(h, max)
<1> DEFINE Ends(f) == \E h \in [S -> Nat] : Used(h) = Used(f) /\ b[f] = TreeOf(h) /\ Fits(h, max)
           P == {k \in 0 .. n : \A f \in [S -> Nat] : Fits(Times(f, k), max) => Ends(f)}
<1>1. \A f \in [S -> Nat] : b[f] = IF Fits(f, max) THEN TreeOf(f) ELSE b[Halved(f)]
  BY DEF Builds
<1>2. 0 \in P
  <2>1. ASSUME NEW f \in [S -> Nat], Fits(Times(f, 0), max) PROVE Ends(f)
    <3>1. Times(f, 0) = f
      BY HalvedTimes
    <3> QED BY <1>1, <2>1, <3>1
  <2> QED BY <2>1
<1>3. ASSUME NEW k \in 1 .. n, k - 1 \in P PROVE k \in P
  <2>1. k \in 0 .. n /\ k - 1 \in Nat /\ (k - 1) + 1 = k
    OBVIOUS
  <2>2. ASSUME NEW f \in [S -> Nat], Fits(Times(f, k), max) PROVE Ends(f)
    <3>1. CASE Fits(f, max)
      BY <1>1, <3>1
    <3>2. CASE ~Fits(f, max)
      <4>1. /\ Halved(f) \in [S -> Nat] /\ Used(Halved(f)) = Used(f)
            /\ Times(Halved(f), k - 1) = Times(f, (k - 1) + 1)
        BY <2>1, HalvedTimes
      <4>2. Ends(Halved(f))
        BY <1>3, <2>1, <2>2, <4>1
      <4>3. b[f] = b[Halved(f)]
        BY <1>1, <3>2
      <4> QED BY <4>1, <4>2, <4>3
    <3> QED BY <3>1, <3>2
  <2> HIDE DEF Ends
  <2> QED BY <2>1, <2>2
<1>4. n \in P
  <2> HIDE DEF P
  <2>1. 0 .. n \subseteq P
    BY <1>2, <1>3, Upward
  <2> QED BY <2>1
<1> QED
  BY <1>4

(* A power of two exceeds its exponent.                                     *)
LEMMA Exceeds ==
  ASSUME NEW n \in Nat
  PROVE  n <= 2 ^ n
<1> DEFINE P == {k \in 0 .. n : k <= 2 ^ k}
<1>1. 0 \in P
  BY Doubles
<1>2. ASSUME NEW k \in 1 .. n, k - 1 \in P PROVE k \in P
  <2> DEFINE j == k - 1
             q == 2 ^ j
  <2>1. j \in Nat /\ j + 1 = k /\ j <= q
    BY <1>2
  <2> HIDE DEF j
  <2>2. q \in Nat \ {0} /\ 2 ^ (j + 1) = 2 * q
    BY <2>1, Doubles
  <2> HIDE DEF q
  <2>3. j + 1 <= 2 * q
    BY <2>1, <2>2
  <2> QED BY <2>1, <2>2, <2>3
<1>3. n \in P
  <2> HIDE DEF P
  <2>1. 0 .. n \subseteq P
    BY <1>1, <1>2, Upward
  <2> QED BY <2>1
<1> QED
  BY <1>3

(* The frequencies of a finite alphabet are bounded.                        *)
LEMMA Bounded ==
  ASSUME NEW freq, Alphabet(freq)
  PROVE  \E n \in Nat : \A s \in Used(freq) : freq[s] <= n
<1> DEFINE r == Cardinality(Used(freq))
           o == Ordered(freq)
           P == {i \in 0 .. r : \E n \in Nat : \A j \in 1 .. i : freq[o[j]] <= n}
<1>1. /\ r \in Nat /\ o \in [1 .. r -> Used(freq)] /\ \A s \in Used(freq) : freq[s] \in Nat
      /\ \A s \in Used(freq) : \E i \in 1 .. r : o[i] = s
  BY UsedIs, OrderedIs
<1> HIDE DEF r, o
<1>2. 0 \in P
  <2>1. 0 \in 0 .. r /\ 1 .. 0 = {} /\ 0 \in Nat
    BY <1>1
  <2> QED BY <2>1
<1>3. ASSUME NEW i \in 1 .. r, i - 1 \in P PROVE i \in P
  <2>1. PICK n \in Nat : \A j \in 1 .. (i - 1) : freq[o[j]] <= n
    BY <1>3
  <2> DEFINE v == freq[o[i]]
             w == n + v
  <2>2. v \in Nat /\ i \in 0 .. r
    BY <1>1
  <2>3. ASSUME NEW j \in 1 .. i PROVE freq[o[j]] <= w
    <3>1. freq[o[j]] \in Nat
      BY <1>1
    <3>2. CASE j = i
      <4>1. freq[o[j]] = v
        BY <3>2
      <4> HIDE DEF v
      <4> QED BY <2>2, <4>1
    <3>3. CASE j # i
      <4>1. j \in 1 .. (i - 1)
        BY <1>1, <3>3
      <4>2. freq[o[j]] <= n
        BY <2>1, <4>1
      <4> HIDE DEF v
      <4> QED BY <2>2, <3>1, <4>2
    <3> QED BY <3>2, <3>3
  <2>4. w \in Nat
    <3> HIDE DEF v
    <3> QED BY <2>2
  <2> HIDE DEF w, v
  <2> QED BY <2>2, <2>3, <2>4
<1>4. r \in P
  <2> HIDE DEF P
  <2>1. 0 .. r \subseteq P
    BY <1>1, <1>2, <1>3, Upward
  <2> QED BY <1>1, <2>1
<1>5. PICK n \in Nat : \A j \in 1 .. r : freq[o[j]] <= n
  BY <1>4
<1> QED
  BY <1>1, <1>5

(* huff_build comes to an end, with a code of the length allowed.            *)
THEOREM HuffmanCodeFits ==
  ASSUME NEW freq, Alphabet(freq), NEW max \in Nat,
         Cardinality(Used(freq)) >= 2, Cardinality(Used(freq)) <= 2 ^ max
  PROVE  /\ HuffmanCode(HuffBuild(freq, max), freq)
         /\ \A s \in DOMAIN freq : HuffBuild(freq, max)[s] <= max
<1> DEFINE S == DOMAIN freq
           Is(g) == g = [f \in [S -> Nat] |->
                  IF \A s \in DOMAIN TreeOf(f) : TreeOf(f)[s] <= max THEN TreeOf(f)
                  ELSE g[[s \in DOMAIN f |-> (f[s] + 1) \div 2]]]
           b == CHOOSE g : Is(g)
<1>1. HuffBuild(freq, max) = b[freq]
  BY DEF HuffBuild
<1>2. Builds(b, S, max)
  <2>1. \A g : Builds(g, S, max) <=> Is(g)
    BY DEF Builds, Fits, Halved
  <2>2. \E g : Builds(g, S, max)
    BY BuiltIsThere
  <2> HIDE DEF Is
  <2>3. \E g : Is(g)
    BY <2>1, <2>2
  <2> QED BY <2>1, <2>3
<1> HIDE DEF b
<1>3. freq \in [S -> Nat] /\ IsFiniteSet(S) /\ S \subseteq Int
  BY DEF Alphabet
<1>4. PICK n \in Nat : \A s \in Used(freq) : freq[s] <= n
  BY Bounded
<1> DEFINE h == Times(freq, n)
<1>5. h \in [S -> Nat] /\ Used(h) = Used(freq)
  BY <1>3, <1>4, HalvedTimes
<1>6. Alphabet(h)
  <2> HIDE DEF h
  <2>1. DOMAIN h = S
    BY <1>5
  <2> QED BY <1>3, <1>5, <2>1 DEF Alphabet
<1>7. \A s \in Used(h) : h[s] = 1
  <2>1. ASSUME NEW s \in Used(freq) PROVE h[s] = 1
    <3>1. freq[s] \in Nat /\ freq[s] > 0 /\ freq[s] <= n /\ s \in S
      BY <1>3, <1>4 DEF Used
    <3> DEFINE a == freq[s]
    <3>2. a \in Nat /\ a > 0 /\ a <= 2 ^ n
      <4>1. n <= 2 ^ n /\ 2 ^ n \in Nat
        BY <1>4, Exceeds, Doubles
      <4> DEFINE q == 2 ^ n
      <4> HIDE DEF q
      <4>2. n <= q /\ q \in Nat
        BY <4>1 DEF q
      <4>3. a <= q
        BY <1>4, <3>1, <4>2
      <4> QED BY <3>1, <4>3 DEF q
    <3> HIDE DEF a
    <3>3. HalfOf(a, n) = 1
      BY <1>4, <3>2, HalfOfIs
    <3> QED BY <1>3, <3>1, <3>3 DEF Times, a
  <2> QED BY <1>5, <2>1
<1> HIDE DEF h
<1>8. Fits(h, max)
  <2>1. \A s \in DOMAIN h : TreeOf(h)[s] <= max
    BY <1>5, <1>6, <1>7, EvenTree
  <2>2. DOMAIN TreeOf(h) = DOMAIN h
    BY <1>5, <1>6, TreeIs DEF HuffmanCode
  <2> QED BY <2>1, <2>2 DEF Fits
<1>9. PICK g \in [S -> Nat] : Used(g) = Used(freq) /\ b[freq] = TreeOf(g) /\ Fits(g, max)
  BY <1>2, <1>3, <1>4, <1>8, BuiltFits DEF h
<1>10. DOMAIN g = S /\ Alphabet(g)
  BY <1>3, <1>9 DEF Alphabet
<1>11. HuffmanCode(TreeOf(g), g)
  BY <1>9, <1>10, TreeIs
<1>12. HuffmanCode(TreeOf(g), freq)
  BY <1>9, <1>10, <1>11 DEF HuffmanCode
<1>13. \A s \in S : TreeOf(g)[s] <= max
  BY <1>9, <1>10, <1>11 DEF HuffmanCode, Fits
<1> QED
  BY <1>1, <1>9, <1>12, <1>13

(* build_table: whatever was counted, the code is complete, no longer than   *)
(* allowed, and has every symbol that occurs.                                *)
THEOREM TablesAreComplete ==
  ASSUME NEW freq, Alphabet(freq), {0, 1} \subseteq DOMAIN freq, NEW max \in 2 .. MaxBits,
         Cardinality(Used(freq)) <= 2 ^ max
  PROVE  LET lens == TableOf(freq, max)
         IN  /\ Alphabet(lens) /\ DOMAIN lens = DOMAIN freq /\ LeftOver(lens) = 0
             /\ \A s \in DOMAIN freq : lens[s] \in 0 .. max
             /\ \A s \in Used(freq) : lens[s] > 0
             /\ Cardinality(Used(freq)) >= 2 => \A s \in DOMAIN freq \ Used(freq) : lens[s] = 0
<1> DEFINE more == [s \in DOMAIN freq |-> IF s \in {0, 1} /\ freq[s] = 0 THEN 1 ELSE freq[s]]
           f == IF Cardinality(Used(freq)) >= 2 THEN freq ELSE more
           lens == HuffBuild(f, max)
<1>1. TableOf(freq, max) = lens
  BY DEF TableOf
<1>2. max \in Nat /\ max <= MaxBits /\ MaxBits \in Nat
  BY FormatAssumption
<1>3. /\ Alphabet(f) /\ DOMAIN f = DOMAIN freq /\ Used(freq) \subseteq Used(f)
      /\ Cardinality(Used(f)) >= 2 /\ Cardinality(Used(f)) <= 2 ^ max
      /\ Cardinality(Used(freq)) >= 2 => f = freq
  <2>1. CASE Cardinality(Used(freq)) >= 2
    BY <2>1
  <2>2. CASE ~(Cardinality(Used(freq)) >= 2)
    <3>1. f = more
      BY <2>2
    <3>2. DOMAIN more = DOMAIN freq /\ \A s \in DOMAIN freq : more[s] \in Nat
      BY DEF Alphabet
    <3>3. Alphabet(more)
      BY <3>2 DEF Alphabet
    <3>4. Used(more) = Used(freq) \cup {0, 1}
      <4>1. \A s \in DOMAIN freq : freq[s] \in Nat
        BY DEF Alphabet
      <4>2. \A s \in DOMAIN freq : more[s] > 0 <=> s \in {0, 1} \/ freq[s] > 0
        BY <4>1
      <4> HIDE DEF more
      <4> QED BY <3>2, <4>2 DEF Used
    <3> HIDE DEF more
    <3> DEFINE A == Used(freq)
               B == {0, 1}
    <3>5. IsFiniteSet(A) /\ Cardinality(A) \in Nat /\ Cardinality(A) < 2
      BY <2>2, UsedIs
    <3>6. IsFiniteSet(B) /\ Cardinality(B) = 2
      <4>1. IsFiniteSet(0 .. 1) /\ Cardinality(0 .. 1) = 2
        <5>1. 0 \in Int /\ 1 \in Int /\ ~(0 > 1) /\ 1 - 0 + 1 = 2
          OBVIOUS
        <5> QED BY <5>1, FS_Interval
      <4>2. B = 0 .. 1
        OBVIOUS
      <4> QED BY <4>1, <4>2
    <3> HIDE DEF A, B
    <3>7. /\ IsFiniteSet(A \cup B) /\ IsFiniteSet(A \cap B) /\ Cardinality(A \cap B) \in Nat
          /\ Cardinality(A \cup B) = Cardinality(A) + Cardinality(B) - Cardinality(A \cap B)
          /\ Cardinality(B) <= Cardinality(A \cup B)
      <4>1. /\ IsFiniteSet(A \cup B)
            /\ Cardinality(A \cup B) = Cardinality(A) + Cardinality(B) - Cardinality(A \cap B)
        BY <3>5, <3>6, FS_Union
      <4>2. A \cap B \in SUBSET A /\ B \in SUBSET (A \cup B)
        OBVIOUS
      <4>3. IsFiniteSet(A \cap B)
        BY <3>5, <4>2, FS_Subset
      <4>4. Cardinality(B) <= Cardinality(A \cup B)
        BY <4>1, <4>2, FS_Subset
      <4> QED BY <4>1, <4>3, <4>4, FS_CardinalityType
    <3>8. Cardinality(A \cap B) = 0 => A \cap B = {}
      BY <3>7, FS_EmptySet
    <3> DEFINE a == Cardinality(A)
               c == Cardinality(A \cap B)
               d == Cardinality(A \cup B)
    <3>9. a \in Nat /\ a < 2 /\ c \in Nat /\ d = a + 2 - c
      BY <3>5, <3>6, <3>7
    <3>10. Cardinality(Used(f)) = d
      BY <3>1, <3>4 DEF A, B
    <3>11. 2 <= d
      BY <3>6, <3>7
    <3>12. d <= 2 ^ max
      <4> HIDE DEF a, c, d
      <4>1. d <= 3
        BY <3>9
      <4> DEFINE j == max - 1
                 k == max - 2
                 q == 2 ^ k
      <4>2. j \in Nat /\ k \in Nat /\ max = j + 1 /\ j = k + 1
        BY <1>2
      <4> HIDE DEF j, k
      <4>3. 2 ^ max = 2 * (2 * q) /\ q \in Nat \ {0}
        BY <4>2, Doubles
      <4> HIDE DEF q
      <4>4. 4 <= 2 * (2 * q) /\ 2 * (2 * q) \in Nat
        BY <4>3
      <4> DEFINE w == 2 * (2 * q)
      <4> HIDE DEF w
      <4>5. d \in Int /\ d <= w
        BY <3>9, <4>1, <4>4 DEF w
      <4> QED BY <4>3, <4>5 DEF w
    <3> QED BY <3>1, <3>2, <3>3, <3>4, <3>10, <3>11, <3>12
  <2> QED BY <2>1, <2>2
<1>4. /\ HuffmanCode(lens, f) /\ \A s \in DOMAIN f : lens[s] <= max
  <2> HIDE DEF f
  <2> QED BY <1>2, <1>3, HuffmanCodeFits
<1> HIDE DEF f, lens
<1>5. \A s \in DOMAIN f : lens[s] <= MaxBits
  <2>1. \A s \in DOMAIN f : lens[s] \in Nat
    BY <1>4 DEF HuffmanCode
  <2> QED BY <1>2, <1>4, <2>1
<1>6. Alphabet(lens) /\ LeftOver(lens) = 0
  BY <1>3, <1>4, <1>5, HuffmanCodeIsComplete
<1>7. DOMAIN lens = DOMAIN freq /\ \A s \in DOMAIN freq : lens[s] \in Nat
  BY <1>3, <1>4 DEF HuffmanCode
<1>8. \A s \in DOMAIN freq : lens[s] \in 0 .. max
  BY <1>2, <1>3, <1>4, <1>7
<1>9. \A s \in DOMAIN freq : lens[s] > 0 <=> s \in Used(f)
  BY <1>3, <1>4 DEF HuffmanCode
<1>10. \A s \in Used(freq) : lens[s] > 0
  BY <1>3, <1>9, UsedIs
<1>11. Cardinality(Used(freq)) >= 2 => \A s \in DOMAIN freq \ Used(freq) : lens[s] = 0
  <2>1. ASSUME Cardinality(Used(freq)) >= 2, NEW s \in DOMAIN freq \ Used(freq) PROVE lens[s] = 0
    <3>1. ~(lens[s] > 0) /\ lens[s] \in Nat
      BY <1>3, <1>7, <1>9, <2>1
    <3> QED BY <3>1
  <2> QED BY <2>1
<1> QED
  BY <1>1, <1>6, <1>7, <1>8, <1>10, <1>11
=============================================================================
