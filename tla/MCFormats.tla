----------------------------- MODULE MCFormats ------------------------------
(* The formats for TLC: one stream of module Deflate or one container of     *)
(* module Archive at a time.  They share no state: a container takes         *)
(* inflate_raw by the contract that the stream is checked to have.           *)
EXTENDS Deflate, Archive, TLC

(* Streams: three byte values, a window of four, codes of at most three bits. *)
(* The inputs are all short ones over two bytes and a few long ones that fill *)
(* several blocks and make codes that have to be flattened.                   *)
Short == UNION {[1 .. n -> {0, 1}] : n \in 0 .. 5}
Skew(k) == [i \in 1 .. 17 |-> IF (i * k) % 7 < 4 THEN 0 ELSE IF (i * i * k) % 5 < 4 THEN 1 ELSE 2]
Deep  == <<0, 1, 2, 2, 2, 0, 0, 0, 0, 2, 0, 0, 1, 0>>
Long  == {Skew(k) : k \in 1 .. 4} \cup {[i \in 1 .. 16 |-> 2], Deep}
RunLists == {<<5>> \o [i \in 1 .. n |-> 0] \o [i \in 1 .. m |-> 3] :
            n \in {0, 1, 2, 3, 10, 11, 13, 138, 139, 150}, m \in {1, 2, 3, 4, 6, 7, 8, 14}}

AllInputs  == Short \cup Long
Lengths    == <<<<3, 0>>, <<4, 1>>>>
Distances  == <<<<1, 0>>, <<2, 1>>>>
Fixed      == [s \in 0 .. 5 |-> IF s < 2 THEN 2 ELSE 3]
LastTwo(key) == key[2] + key[3]

(* Containers: one to three members, in every form another writer may give    *)
(* them, and every name of up to four letters, separators and dots.           *)
Plain == [method |-> Stored, flags |-> 0, zip64 |-> {}, extra |-> <<>>, localExtra |-> <<>>]
Held(name, held, m) == [name |-> name, data |-> held] @@ m
Sum(d) == 2000 + FoldLeft(LAMBDA acc, u : (acc * 31 + u + 3) % 9973, 1, d)
SaveStream == [flags |-> 8, extra |-> Nothing, name |-> <<1>>, data |-> <<7>>]
AllStreams == [flags : {8}, extra : {Nothing}, name : {<<1>>, <<1, 2>>}, data : {<<>>, <<7>>, <<7, 0>>}]
  \cup [flags : {4}, extra : {<<>>, <<0>>, <<1, 2>>}, name : {Nothing}, data : {<<7>>}]
  \cup [flags : {12}, extra : {<<5>>}, name : {<<1>>}, data : {<<7>>}]
OtherForms == {
  [Plain EXCEPT !.method = Deflated], [Plain EXCEPT !.flags = 1],
  [Plain EXCEPT !.zip64 = {"comp", "uncomp"}, !.localExtra = <<9, 0>>],
  [Plain EXCEPT !.zip64 = {"offset"}, !.extra = <<9, 1, 4>>, !.method = Deflated],
  [Plain EXCEPT !.zip64 = {"comp", "uncomp", "offset"}, !.method = Deflated]}
Raw(m)     == Held(<<1, 2>>, <<7, 8>>, m)
Dir        == Held(<<3, Slash>>, <<>>, Plain)
Deeper     == Held(<<3, Slash, 1>>, <<8>>, Plain)
Upper      == Held(<<1 + UpperCase>>, <<4>>, Plain)
EntryNames == UNION {[1 .. n -> {1, Slash, Backslash, Dot, Colon}] : n \in 1 .. 4}
Frail      == {<<Held(<<1>>, Gzip(SaveStream), Plain)>>, <<Dir, Deeper>>, <<Upper>>}
           \cup {<<Held(<<2>>, <<SigEnd>>, Plain), Raw(m)>> : m \in OtherForms \cup {Plain}}
           \cup {<<Raw(m), Dir, Deeper>> : m \in OtherForms}
           \cup {<<s>> : s \in AllStreams}
AllArchives == {a \in Frail : "method" \in DOMAIN a[1]}
               \cup {<<Held(n, <<4>>, Plain)>> : n \in EntryNames}
AllComments == {<<>>, <<5>>}
Prefix == <<1>>
Bad == {0, 1, Marker, SigLocal, SigCentral, SigEnd}
=============================================================================
