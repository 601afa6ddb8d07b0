------------------------------ MODULE Deflate ------------------------------
(***************************************************************************)
(* deflate_raw (src/src/deflate.c), then inflate_raw (src/src/inflate.c) on *)
(* what it wrote: matches found through the hash chains, blocks written     *)
(* stored, with the fixed code or with a code of their own, and read back   *)
(* bit by bit.  The alphabets, the window and the limits are parameters, so *)
(* that all of them are met by short inputs; the layout of a block, the     *)
(* construction of the codes and the transmission of their lengths are the  *)
(* code's.  Which of the three forms is smallest depends on the sizes that  *)
(* are scaled down here, so any form the code allows may be taken.          *)
(***************************************************************************)
EXTENDS Integers, Sequences, FiniteSets, SequencesExt

CONSTANTS
  Inputs,      \* the inputs to compress: sequences of 0 .. Literals-1
  CutUpTo,     \* bound: only inputs no longer than this are also cut short
  LengthLists, \* lists of code lengths, to be sent on their own
  Literals,    \* how many byte values there are
  Window, MinMatch, MaxMatch, MaxChain, NiceMatch,
  BlockSyms, BlockBytes,
  LengthCodes, \* <<base, extra bits>> of each length code
  DistCodes,   \* likewise of each distance code
  MaxBits,     \* the longest code the format allows
  ClMaxBits,   \* likewise for the code the lengths are sent in
  FixedLens,   \* the code lengths of the fixed literal and length code
  FixedDistLen, \* the code length of every distance in a fixed block (5)
  Hash(_),     \* of the MinMatch bytes at a position
  ByteBits, SpanBits,  \* width of a byte, and of a stored block's length
  None

ClSyms    == 0 .. 18
ClOrder   == <<16, 17, 18, 0, 8, 7, 9, 6, 10, 5, 11, 4, 12, 3, 13, 2, 14, 1, 15>>
EndBlock  == Literals
LitSyms   == 0 .. (Literals + Len(LengthCodes))
DistSyms  == 0 .. (Len(DistCodes) - 1)
Types     == {"stored", "fixed", "dynamic"}

ASSUME FormatAssumption ==
  /\ BlockBytes < 2 ^ SpanBits /\ MaxMatch <= BlockBytes /\ MinMatch <= MaxMatch
  /\ MaxBits \in 1 .. 15 /\ ClMaxBits \in 1 .. 7 /\ ClMaxBits <= MaxBits
  /\ Window \in Nat \ {0} /\ MinMatch \in Nat /\ MinMatch > 1
  /\ {Literals, MaxMatch, MaxChain, BlockBytes} \subseteq Nat
  /\ Inputs \subseteq Seq(0 .. Literals - 1)
  /\ None \notin Int /\ None \notin Seq(Nat)
  /\ ByteBits \in Nat \ {0} /\ SpanBits \in Nat
  /\ Literals \in 1 .. 2 ^ ByteBits

(* An alphabet has a code of the length allowed, and a number of its symbols *)
(* can be sent in the bits there are for it.                                 *)
ASSUME AlphabetAssumption ==
  /\ LengthCodes \in Seq(Nat \X Nat) /\ Len(LengthCodes) \in 1 .. 31
  /\ DistCodes \in Seq(Nat \X Nat) /\ Len(DistCodes) \in 2 .. 32
  /\ Literals + Len(LengthCodes) < 2 ^ MaxBits /\ Len(DistCodes) <= 2 ^ MaxBits
  /\ MaxBits + 4 <= 2 ^ ClMaxBits
  /\ FixedLens \in [LitSyms -> 1 .. MaxBits] /\ FixedDistLen \in 1 .. MaxBits
  /\ \A lens \in LengthLists :
       /\ lens \in Seq(0 .. 15) /\ lens # <<>>
       /\ Cardinality({lens[i] : i \in DOMAIN lens}) + 3 <= 2 ^ ClMaxBits

VARIABLES
  phase,   \* "gather" and "emit" of the compressor; "cut"; "header", "symbols"
           \* of the decompressor; "done" or "refused"
  data,    \* the input, or a list of code lengths
  pos,     \* the next byte to code
  start,   \* where the block began
  chains,  \* head: hash -> latest position; prev: slot -> the one before it
  syms,    \* the block's literals and matches
  bits,    \* what was written
  cursor,  \* the bits read so far
  out,     \* what was read back
  tables,  \* the codes of the block being read
  last,    \* whether it is the last
  cut      \* whether the end of the stream was taken away
stream == <<phase, data, pos, start, chains, syms, bits, cursor, out, tables, last, cut>>

encoder == <<data, pos, start, chains, syms>>

(* -------------------------- matches ------------------------------------- *)
Byte(i) == data[i + 1]
HashAt(i) == Hash([k \in 1 .. MinMatch |-> Byte(i + k - 1)])

(* insert_pos, for every position of a stretch of the input. *)
Insert(c, p) ==
  IF p + MinMatch > Len(data) THEN c
  ELSE [head |-> [c.head EXCEPT ![HashAt(p)] = p],
        prev |-> [c.prev EXCEPT ![p % Window] = c.head[HashAt(p)]]]
Inserted(from, n) ==
  LET with[k \in 0 .. n] == IF k = 0 THEN chains ELSE Insert(with[k - 1], from + k - 1)
  IN with[n]

(* How far the bytes at two positions agree, up to a limit. *)
Agree(i, j, limit) ==
  CHOOSE n \in 0 .. limit :
    /\ \A k \in 0 .. (n - 1) : Byte(i + k) = Byte(j + k)
    /\ n < limit => Byte(i + n) # Byte(j + n)

(* find_match: one candidate of the chain after the other, and the longest    *)
(* match among them; the search is over at the chain's end, when it leaves    *)
(* the window, and once a match is long enough.                               *)
NoMatch == [length |-> 0, dist |-> 0]
Try(so, limit) ==
  LET n      == Agree(so.cand, pos, limit)
      better == n > so.best.length
  IN IF so.over \/ so.cand = None THEN so
     ELSE IF pos - so.cand > Window - 1 THEN [so EXCEPT !.over = TRUE]
     ELSE [cand |-> chains.prev[so.cand % Window],
           best |-> IF better THEN [length |-> n, dist |-> pos - so.cand] ELSE so.best,
           over |-> better /\ (n >= NiceMatch \/ n >= limit)]
Follow(first, limit) ==
  LET after[k \in 0 .. MaxChain] ==
        IF k = 0 THEN [cand |-> first, best |-> NoMatch, over |-> FALSE]
        ELSE Try(after[k - 1], limit)
  IN after[MaxChain].best

FindMatch ==
  LET left  == Len(data) - pos
      limit == IF left > MaxMatch THEN MaxMatch ELSE left
      found == Follow(chains.head[HashAt(pos)], limit)
  IN IF limit < MinMatch \/ found.length < MinMatch THEN NoMatch ELSE found

(* The code that covers a length or a distance: the last one not above it. *)
CodeOf(codes, value) ==
  CHOOSE i \in DOMAIN codes :
    /\ codes[i][1] <= value \/ i = 1
    /\ \A j \in DOMAIN codes : j > i => codes[j][1] > value

(* ----------------------- Huffman codes ----------------------------------- *)
Used(freq) == {s \in DOMAIN freq : freq[s] > 0}

(* The two queues of huff_build: leaves not yet used and nodes already made, *)
(* each in order; a node is its weight and the symbols below it.             *)
LeafFirst(l, m) == l # <<>> /\ (m = <<>> \/ l[1].weight <= m[1].weight)
Pick(l, m) ==
  IF LeafFirst(l, m) THEN [node |-> l[1], leaves |-> Tail(l), made |-> m]
  ELSE [node |-> m[1], leaves |-> l, made |-> Tail(m)]
MergeTwo(so) ==
  LET one  == Pick(so.leaves, so.made)
      two  == Pick(one.leaves, one.made)
      both == one.node.below \cup two.node.below
  IN [leaves |-> two.leaves,
      made   |-> Append(two.made, [weight |-> one.node.weight + two.node.weight,
                                   below |-> both]),
      lens   |-> [s \in DOMAIN so.lens |-> so.lens[s] + (IF s \in both THEN 1 ELSE 0)]]

(* sort_by_freq: the symbols in use, the rarest first. *)
Rarer(freq, s, t) == freq[s] < freq[t] \/ (freq[s] = freq[t] /\ s < t)
Ordered(freq) ==
  [i \in 1 .. Cardinality(Used(freq)) |->
     CHOOSE s \in Used(freq) : Cardinality({t \in Used(freq) : Rarer(freq, t, s)}) = i - 1]

(* The depths of the leaves of the Huffman tree. *)
TreeOf(freq) ==
  LET order  == Ordered(freq)
      leaves == [i \in DOMAIN order |-> [weight |-> freq[order[i]],
                                         below |-> {order[i]}]]
      merged[k \in 0 .. Len(order)] ==
        IF k <= 1 THEN [leaves |-> leaves, made |-> <<>>, lens |-> [s \in DOMAIN freq |-> 0]]
        ELSE MergeTwo(merged[k - 1])
  IN merged[Len(order)].lens

HuffTree(freq, max) == TreeOf(freq)     \* the tree is taken however deep it is

(* huff_build: the lengths of a Huffman code none of which is above max; when *)
(* the tree is deeper the frequencies are halved and it is built again.       *)
HuffBuild(freq, max) ==
  LET built[f \in [DOMAIN freq -> Nat]] ==
        LET lens == TreeOf(f)
        IN IF \A s \in DOMAIN lens : lens[s] <= max THEN lens
           ELSE built[[s \in DOMAIN f |-> (f[s] + 1) \div 2]]
  IN built[freq]

(* build_table: an alphabet of fewer than two symbols is given a second one. *)
TableOf(freq, max) ==
  HuffBuild(IF Cardinality(Used(freq)) >= 2 THEN freq
            ELSE [s \in DOMAIN freq |-> IF s \in {0, 1} /\ freq[s] = 0 THEN 1
                                        ELSE freq[s]], max)

CountOf(lens, n) == Cardinality({s \in DOMAIN lens : lens[s] = n})

(* The first canonical code of each length (huff_assign and inf_decode). *)
FirstOf(lens, n) ==
  LET first[k \in 1 .. n] ==
        IF k = 1 THEN 0 ELSE (first[k - 1] + CountOf(lens, k - 1)) * 2
  IN first[n]

(* ----------------------------- bits --------------------------------------- *)
(* bw_bits: a number of n bits, least significant first. *)
BitsOf(value, n) == [i \in 1 .. n |-> (value \div 2 ^ (i - 1)) % 2]

(* A Huffman code goes out most significant bit first. *)
Place(lens, s) == Cardinality({t \in DOMAIN lens : t < s /\ lens[t] = lens[s]})
CodeBits(lens, s) == Reverse(BitsOf(FirstOf(lens, lens[s]) + Place(lens, s), lens[s]))

(* bw_align: up to the next whole byte. *)
Padding(n) == [i \in 1 .. ((ByteBits - (n % ByteBits)) % ByteBits) |-> 0]

ExtraBits(codes, i, value) == BitsOf(value - codes[i][1], codes[i][2])

(* write_symbols, with the end of the block after them. *)
SymbolBits(sym, lit, dist) ==
  IF sym.dist = 0 THEN CodeBits(lit, sym.literal)
  ELSE LET l == CodeOf(LengthCodes, sym.literal)
           d == CodeOf(DistCodes, sym.dist)
       IN CodeBits(lit, EndBlock + l) \o ExtraBits(LengthCodes, l, sym.literal)
          \o CodeBits(dist, d - 1) \o ExtraBits(DistCodes, d, sym.dist)
WrittenSymbols(lit, dist) ==
  FlattenSeq([i \in DOMAIN syms |-> SymbolBits(syms[i], lit, dist)])
  \o CodeBits(lit, EndBlock)

(* -------------------- code lengths in transit ------------------------------ *)
Item(s, value, n) == [sym |-> s, extra |-> value, width |-> n]
Atmost(a, b) == IF a < b THEN a ELSE b

(* How many lengths are the same from the one after the first i on. *)
RunFrom(lens, i) ==
  CHOOSE n \in 1 .. (Len(lens) - i) :
    /\ \A j \in (i + 1) .. (i + n) : lens[j] = lens[i + 1]
    /\ i + n < Len(lens) => lens[i + n + 1] # lens[i + 1]

(* encode_lengths: repeats of a length become symbol 16, runs of zeros 17 or *)
(* 18; what is too short for them is sent as it is.                           *)
ItemOf(lens, i) ==
  LET value == lens[i + 1]
      run   == RunFrom(lens, i)
      fresh == i = 0 \/ lens[i] # value
  IN IF run < 3 \/ (value # 0 /\ fresh) THEN Item(value, 0, 0)
     ELSE IF value # 0 THEN Item(16, Atmost(run, 6) - 3, 2)
     ELSE IF run >= 11 THEN Item(18, Atmost(run, 138) - 11, 7)
     ELSE Item(17, Atmost(run, 10) - 3, 3)
Stretch(item) == CASE item.sym < 16 -> 1 [] item.sym = 18 -> item.extra + 11
                   [] OTHER -> item.extra + 3

EncodeLengths(lens) ==
  LET after[k \in 0 .. Len(lens)] ==
        LET so == after[k - 1]
        IN IF k = 0 THEN [at |-> 0, items |-> <<>>]
           ELSE IF so.at = Len(lens) THEN so
           ELSE [at |-> so.at + Stretch(ItemOf(lens, so.at)),
                 items |-> Append(so.items, ItemOf(lens, so.at))]
  IN after[CHOOSE k \in 0 .. Len(lens) : after[k].at = Len(lens)].items

(* The header of a dynamic block: the code-length code, then both tables. *)
ItemFreq(items) == [s \in ClSyms |-> Cardinality({i \in DOMAIN items : items[i].sym = s})]
ClTable(items) == TableOf(ItemFreq(items), ClMaxBits)
HeaderBits(cl, items) ==
  LET hclen == CHOOSE n \in 4 .. 19 :
                 /\ n > 4 => cl[ClOrder[n]] # 0
                 /\ \A i \in (n + 1) .. 19 : cl[ClOrder[i]] = 0
  IN BitsOf(hclen - 4, 4)
     \o FlattenSeq([i \in 1 .. hclen |-> BitsOf(cl[ClOrder[i]], 3)])
     \o FlattenSeq([i \in DOMAIN items |-> CodeBits(cl, items[i].sym)
                                           \o BitsOf(items[i].extra, items[i].width)])
TableBits(lens) ==
  LET items == EncodeLengths(lens) IN HeaderBits(ClTable(items), items)

(* The codes in use: a table without the unused ones at its end. *)
UsedUpTo(lens, least) ==
  CHOOSE n \in least .. Cardinality(DOMAIN lens) :
    /\ n > least => lens[n - 1] # 0
    /\ \A s \in DOMAIN lens : s >= n => lens[s] = 0
Listed(lens, n) == [i \in 1 .. n |-> lens[i - 1]]

(* --------------------------- deflate_raw ------------------------------------ *)
FixedDist == [s \in DistSyms |-> FixedDistLen]
(* Without the room that a match at the end of a block takes. *)
RoomLate == pos < Len(data) /\ Len(syms) < BlockSyms /\ pos - start < BlockBytes
RoomLeft == /\ pos < Len(data) /\ Len(syms) < BlockSyms
            /\ pos - start <= BlockBytes - MaxMatch

Gather ==
  /\ phase = "gather" /\ RoomLeft
  /\ LET m == FindMatch
         n == IF m.length >= MinMatch THEN m.length ELSE 1
     IN /\ syms' = Append(syms, IF n >= MinMatch
                                THEN [literal |-> n, dist |-> m.dist]
                                ELSE [literal |-> Byte(pos), dist |-> 0])
        /\ chains' = Inserted(pos, n)
        /\ pos' = pos + n
  /\ UNCHANGED <<phase, data, start, bits, cursor, out, tables, last, cut>>

LitFreq ==
  [s \in LitSyms |-> (IF s = EndBlock THEN 1 ELSE 0) + Cardinality({i \in DOMAIN syms :
     s = IF syms[i].dist = 0 THEN syms[i].literal
         ELSE EndBlock + CodeOf(LengthCodes, syms[i].literal)})]
DistFreq ==
  [s \in DistSyms |-> Cardinality({i \in DOMAIN syms :
     syms[i].dist # 0 /\ s = CodeOf(DistCodes, syms[i].dist) - 1})]

StoredBits(before) ==
  LET span == pos - start
  IN Padding(Len(before))
     \o BitsOf(span, SpanBits) \o BitsOf((2 ^ SpanBits - 1) - (span % (2 ^ SpanBits)), SpanBits)
     \o FlattenSeq([i \in 1 .. span |-> BitsOf(Byte(start + i - 1), ByteBits)])

CodedBits(lit, dist) ==
  LET hlit  == UsedUpTo(lit, EndBlock + 1)
      hdist == UsedUpTo(dist, 1)
  IN BitsOf(hlit - (EndBlock + 1), 5) \o BitsOf(hdist - 1, 5)
     \o TableBits(Listed(lit, hlit) \o Listed(dist, hdist))
     \o WrittenSymbols(lit, dist)
DynamicBits == CodedBits(TableOf(LitFreq, MaxBits), TableOf(DistFreq, MaxBits))

(* emit_block: a block longer than its length field can say is never stored. *)
EmitBlock(type) ==
  /\ phase = "gather" /\ ~RoomLeft
  /\ type = "stored" => pos - start <= BlockBytes
  /\ LET final  == pos >= Len(data)
         before == bits \o BitsOf(IF final THEN 1 ELSE 0, 1)
                        \o BitsOf(CASE type = "stored" -> 0 [] type = "fixed" -> 1
                                    [] OTHER -> 2, 2)
         body   == CASE type = "stored" -> StoredBits(before)
                     [] type = "fixed"  -> WrittenSymbols(FixedLens, FixedDist)
                     [] OTHER           -> DynamicBits
     IN /\ bits' = before \o body \o (IF final THEN Padding(Len(before \o body))
                                      ELSE <<>>)
        /\ phase' = IF final THEN "cut" ELSE "gather"
  /\ syms' = <<>> /\ start' = pos
  /\ UNCHANGED <<data, pos, chains, cursor, out, tables, last, cut>>

(* The stream reaches the reader whole, or without its last bytes. *)
Deliver ==
  /\ phase = "cut" /\ phase' = "header"
  /\ \/ UNCHANGED <<bits, cut>>
     \/ /\ Len(data) <= CutUpTo
        /\ \E n \in 0 .. (Len(bits) \div ByteBits - 1) :
             bits' = SubSeq(bits, 1, n * ByteBits)
        /\ cut' = TRUE
  /\ UNCHANGED <<encoder, cursor, out, tables, last>>

(* --------------------------- inflate_raw ------------------------------------ *)
(* inf_bits: the next n bits as a number; a reader asks first whether there *)
(* are as many.                                                              *)
Has(i, n) == i + n <= Len(bits)
Bit(i) == IF i < Len(bits) THEN bits[i + 1] ELSE 0
Number(i, n) ==
  LET upTo[k \in 0 .. n] ==
        IF k = 0 THEN 0 ELSE upTo[k - 1] + Bit(i + k - 1) * 2 ^ (k - 1)
  IN upTo[n]

(* inf_build: the codes left over; negative when there are too many. *)
LeftOver(lens) ==
  LET upTo[n \in 0 .. MaxBits] ==
        IF n = 0 THEN 1
        ELSE LET before == upTo[n - 1]
             IN IF before < 0 THEN before ELSE 2 * before - CountOf(lens, n)
  IN upTo[MaxBits]
Empty(lens) == \A s \in DOMAIN lens : lens[s] = 0
Complete(lens) == Empty(lens) \/ LeftOver(lens) = 0
Usable(lens) == Complete(lens)
                \/ (LeftOver(lens) > 0 /\ \A s \in DOMAIN lens : lens[s] <= 1)

(* The codes the format fixes leave no doubt, and the length and distance     *)
(* codes cover every match there can be.                                      *)
Spans(codes, values) ==
  \A v \in values : LET code == codes[CodeOf(codes, v)]
                    IN code[1] <= v /\ v < code[1] + 2 ^ code[2]
ASSUME CodesAssumption ==
  /\ LeftOver(FixedLens) >= 0 /\ LeftOver(FixedDist) >= 0
  /\ Spans(LengthCodes, MinMatch .. MaxMatch) /\ Spans(DistCodes, 1 .. Window - 1)

(* inf_decode: the walk along the code, one bit at a time, up to the first     *)
(* length that has so many codes; sym is None when it ends in no code or the  *)
(* bits run out.                                                              *)
Decode(at, lens) ==
  LET code[n \in 0 .. MaxBits] ==
        IF n = 0 THEN 0 ELSE 2 * code[n - 1] + Bit(at + n - 1)
      ends == {n \in 1 .. MaxBits : code[n] - CountOf(lens, n) < FirstOf(lens, n)}
      n    == CHOOSE n \in ends : \A m \in ends : n <= m
  IN IF ends = {} \/ ~Has(at, n) THEN [sym |-> None, at |-> at]
     ELSE [sym |-> CHOOSE s \in DOMAIN lens :
                     lens[s] = n /\ Place(lens, s) = code[n] - FirstOf(lens, n),
           at |-> at + n]

(* One symbol of the run-length coded lengths of inf_dynamic; None when it is *)
(* refused.                                                                   *)
ReadItem(so, d, want) ==
  LET w      == CASE d.sym = 16 -> 2 [] d.sym = 17 -> 3 [] OTHER -> 7
      repeat == (IF d.sym = 18 THEN 11 ELSE 3) + Number(d.at, w)
      value  == IF d.sym = 16 THEN so.lens[Len(so.lens)] ELSE 0
      none   == [lens |-> None, at |-> so.at]
  IN IF d.sym \notin ClSyms THEN none
     ELSE IF d.sym < 16 THEN [lens |-> Append(so.lens, d.sym), at |-> d.at]
     ELSE IF \/ d.sym = 16 /\ so.lens = <<>>
             \/ ~Has(d.at, w)
             \/ Len(so.lens) + repeat > want THEN none
     ELSE [lens |-> so.lens \o [k \in 1 .. repeat |-> value], at |-> d.at + w]
ReadOne(so, cl, want) == ReadItem(so, Decode(so.at, cl), want)

(* One after the other, until there are as many lengths as wanted. *)
ReadLengths(from, cl, want) ==
  LET rest[so \in [lens : {None} \cup Seq(ClSyms), at : Nat]] ==
        IF so.lens = None \/ Len(so.lens) = want THEN so
        ELSE rest[ReadOne(so, cl, want)]
  IN rest[[lens |-> <<>>, at |-> from]]

(* The code-length code and the tables after it, or None. *)
ReadTables(i, want) ==
  LET ncode == Number(i, 4) + 4
      cl    == [s \in ClSyms |->
                  IF \E k \in 1 .. ncode : ClOrder[k] = s
                  THEN Number(i + 4 + 3 * ((CHOOSE k \in 1 .. ncode : ClOrder[k] = s) - 1), 3)
                  ELSE 0]
  IN IF ~Has(i, 4) \/ ~Has(i, 4 + 3 * ncode) THEN [lens |-> None, at |-> i]
     ELSE IF ~Complete(cl) THEN [lens |-> None, at |-> i]
     ELSE ReadLengths(i + 4 + 3 * ncode, cl, want)

Refuse == /\ phase' = "refused"
          /\ UNCHANGED <<encoder, bits, cursor, out, tables, cut>>
TakeUp(from, lit, dist) ==
  /\ cursor' = from /\ phase' = "symbols" /\ tables' = <<lit, dist>>
  /\ UNCHANGED <<encoder, bits, out, cut>>

(* After a block: the next one, or the end, where the size has to be right. *)
Finished(size) == IF ~last' THEN "header"
                  ELSE IF size = Len(data) THEN "done" ELSE "refused"

ReadStored ==
  LET i    == cursor + 3 + Len(Padding(cursor + 3))
      span == Number(i, SpanBits)
      body == i + 2 * SpanBits
  IN IF \/ ~Has(i, 2 * SpanBits)
        \/ Number(i + SpanBits, SpanBits) # (2 ^ SpanBits - 1) - span
        \/ ~Has(body, span * ByteBits) \/ Len(out) + span > Len(data)
     THEN Refuse
     ELSE /\ out' = out \o [k \in 1 .. span |-> Number(body + (k - 1) * ByteBits, ByteBits)]
          /\ cursor' = body + span * ByteBits
          /\ phase' = Finished(Len(out) + span)
          /\ UNCHANGED <<encoder, bits, tables, cut>>

ReadDynamic ==
  LET nlen  == Number(cursor + 3, 5) + EndBlock + 1
      ndist == Number(cursor + 8, 5) + 1
      read  == ReadTables(cursor + 13, nlen + ndist)
      lit   == [s \in 0 .. (nlen - 1) |-> read.lens[s + 1]]
      dist  == [s \in 0 .. (ndist - 1) |-> read.lens[nlen + s + 1]]
  IN IF \/ ~Has(cursor + 3, 10)
        \/ nlen > Cardinality(LitSyms) \/ ndist > Cardinality(DistSyms)
        \/ read.lens = None THEN Refuse
     ELSE IF lit[EndBlock] = 0 \/ ~Usable(lit) \/ ~Usable(dist) THEN Refuse
     ELSE TakeUp(read.at, lit, dist)

ReadHeader ==
  /\ phase = "header"
  /\ IF ~Has(cursor, 3) THEN Refuse /\ UNCHANGED last
     ELSE /\ last' = (Number(cursor, 1) = 1)
          /\ CASE Number(cursor + 1, 2) = 0 -> ReadStored
               [] Number(cursor + 1, 2) = 1 -> TakeUp(cursor + 3, FixedLens, FixedDist)
               [] Number(cursor + 1, 2) = 2 -> ReadDynamic
               [] OTHER -> Refuse

(* A match is copied byte by byte, since it may overlap what it makes. *)
Copied(dist, n) ==
  LET with[k \in 0 .. n] ==
        LET sofar == with[k - 1]
        IN IF k = 0 THEN out ELSE Append(sofar, sofar[Len(sofar) + 1 - dist])
  IN with[n]

(* inf_codes: one literal, one match or the end of the block. *)
ReadMatch(d) ==
  LET l     == LengthCodes[d.sym - EndBlock]
      n     == l[1] + Number(d.at, l[2])
      e     == Decode(d.at + l[2], tables[2])
      c     == DistCodes[e.sym + 1]
      dist  == c[1] + Number(e.at, c[2])
  IN IF ~Has(d.at, l[2]) \/ e.sym = None THEN Refuse
     ELSE IF ~Has(e.at, c[2]) \/ dist > Len(out) \/ Len(out) + n > Len(data) THEN Refuse
     ELSE /\ out' = Copied(dist, n) /\ cursor' = e.at + c[2]
          /\ UNCHANGED <<phase, encoder, bits, tables, cut>>

ReadSymbol ==
  /\ phase = "symbols" /\ UNCHANGED last
  /\ LET d == Decode(cursor, tables[1])
     IN IF d.sym = None THEN Refuse
        ELSE IF d.sym > EndBlock THEN ReadMatch(d)
        ELSE IF d.sym = EndBlock
          THEN /\ cursor' = d.at /\ phase' = Finished(Len(out))
               /\ UNCHANGED <<encoder, bits, out, tables, cut>>
        ELSE IF Len(out) >= Len(data) THEN Refuse
        ELSE /\ out' = Append(out, d.sym) /\ cursor' = d.at
             /\ UNCHANGED <<phase, encoder, bits, tables, cut>>

(* Code lengths sent on their own: what TableBits writes, ReadTables reads. *)
SendLengths ==
  /\ phase = "lengths" /\ bits = <<>>
  /\ bits' = TableBits(data)
  /\ UNCHANGED <<phase, encoder, cursor, out, tables, last, cut>>
ReceiveLengths ==
  /\ phase = "lengths" /\ bits # <<>>
  /\ LET read == ReadTables(0, Len(data))
     IN IF read.lens = None THEN phase' = "refused" /\ out' = out
        ELSE phase' = "done" /\ out' = read.lens
  /\ UNCHANGED <<encoder, bits, cursor, tables, last, cut>>

(* ------------------------------------------------------------------------- *)
Hashes == {Hash(key) : key \in [1 .. MinMatch -> 0 .. (Literals - 1)]}
StreamInit ==
  /\ \/ phase = "gather" /\ data \in Inputs
     \/ phase = "lengths" /\ data \in LengthLists
  /\ pos = 0 /\ start = 0 /\ syms = <<>> /\ bits = <<>>
  /\ chains = [head |-> [h \in Hashes |-> None],
               prev |-> [i \in 0 .. (Window - 1) |-> None]]
  /\ cursor = 0 /\ out = <<>> /\ tables = <<>> /\ last = FALSE /\ cut = FALSE

(* A stream that was read, or given up, is over. *)
Over == phase \in {"done", "refused"} /\ UNCHANGED stream

StreamIdle ==
  /\ phase = "idle" /\ data = <<>> /\ pos = 0 /\ start = 0 /\ syms = <<>>
  /\ bits = <<>> /\ chains = [head |-> <<>>, prev |-> <<>>] /\ cursor = 0
  /\ out = <<>> /\ tables = <<>> /\ last = FALSE /\ cut = FALSE

StreamNext ==
  \/ Gather \/ (\E type \in Types : EmitBlock(type)) \/ Deliver
  \/ ReadHeader \/ ReadSymbol \/ SendLengths \/ ReceiveLengths \/ Over

StreamSpec == StreamInit /\ [][StreamNext]_stream

(* -------------------------- properties ------------------------------------ *)
(* A stream that arrives whole is accepted and gives the input back, whatever *)
(* the matches, the blocks and their forms, and one whose end is missing is   *)
(* refused, whichever block or table the cut falls in (deflate.c against      *)
(* inflate.c and its truncation checks).                                      *)
StreamComesBack ==
  /\ phase = "done" => out = data /\ ~cut
  /\ phase = "refused" => cut

(* A match is never further back than the window nor than the input, so that  *)
(* a chain whose slots are used again never leads to a position that was      *)
(* overwritten (find_match, MAX_DIST); a block fits a stored block's length.  *)
ChainsHold ==
  /\ \A i \in DOMAIN syms : syms[i].dist < Window
  /\ \A h \in DOMAIN chains.head : chains.head[h] # None => chains.head[h] < pos
  /\ \A i \in DOMAIN chains.prev : chains.prev[i] # None => chains.prev[i] < pos
  /\ phase = "gather" => pos - start <= BlockBytes
=============================================================================
