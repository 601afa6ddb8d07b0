------------------------------ MODULE Archive -------------------------------
(***************************************************************************)
(* The two containers a savefile and a tab travel in: a ZIP archive         *)
(* (src/src/zip.c), written by tabber or by another program, and the gzip   *)
(* stream (src/src/gzip.c) a savefile is kept in, alone or inside an        *)
(* archive.  What lies on disk is a sequence of fields, one unit each, laid *)
(* out as the code lays them out, so that every offset and length is        *)
(* computed and can be wrong; one unit may be damaged, or the end be gone.  *)
(* inflate_raw is the one of module Deflate, taken here by its contract.    *)
(***************************************************************************)
EXTENDS Integers, Sequences, FiniteSets, SequencesExt

CONSTANTS
  Archives,   \* what may be packed: sequences of members
  Fragile,    \* the ones among them that may come to harm (bound)
  Comments,   \* what another writer may put after the end record
  Streams,    \* saves kept as a gzip stream, with the header's optional fields
  Wanted,     \* the prefix a savefile is looked up by (SAVE_ENTRY_PREFIX)
  Damages,    \* the values a damaged unit may take
  Checksum(_),
  SigLocal, SigCentral, SigEnd,
  Marker,     \* a size or an offset that is in the ZIP64 field
  CountMarker,
  MaxBack,    \* how far from the end the end record may be
  Magic, Nothing

(* Units of a name that matter: letters are the others, an upper case one is *)
(* its lower case one and UpperCase.                                          *)
Slash == 60     Backslash == 61     Colon == 62     Dot == 63
UpperCase == 30
Lower(u) == IF u > UpperCase /\ u < Slash THEN u - UpperCase ELSE u
IsDir(name) == name # <<>> /\ name[Len(name)] = Slash

Stored   == 0
Deflated == 8
Zip64Id  == 1
Encrypted == 1

(* The fields of each record, by their place in it. *)
LocalSize == 4      LNameLen == 2    LExtraLen == 3
CentralSize == 10   CFlags == 1      CMethod == 2   CCrc == 3    CComp == 4
CUncomp == 5        CNameLen == 6    CExtraLen == 7 CCommentLen == 8 COffset == 9
EndSize == 5        ECount == 1      ECdSize == 2   ECdOffset == 3

(* What a member and a stream are made of: bytes, and as many fields.       *)
Bytes == Seq(Nat)
Member ==
  [name : Bytes, data : Bytes, method : {0, 8}, flags : Nat, extra : Bytes,
   localExtra : Bytes, zip64 : SUBSET {"uncomp", "comp", "offset"}]
Stream == [flags : Nat, extra : {Nothing} \cup Bytes, name : {Nothing} \cup Bytes, data : Bytes]

ASSUME ArchiveAssumption ==
  /\ Archives \subseteq Seq(Member) /\ Comments \subseteq Bytes /\ Streams \subseteq Stream
  /\ {SigLocal, SigCentral, SigEnd, Marker, CountMarker, Magic, MaxBack} \subseteq Nat
  /\ Damages \subseteq Nat
  /\ \A ms \in Archives : \A i \in DOMAIN ms : Checksum(ms[i].data) \in Nat
  /\ \A s \in Streams : Checksum(s.data) \in Nat

VARIABLES
  members,   \* what was packed
  stage,     \* "packed", "spoilt", "opened", "found", "read", "refused", "over"
  units,     \* the archive or the stream
  damaged,   \* whether a unit was damaged or the end cut off
  entries,   \* the central directory as read
  taken      \* the entry that was looked up, then what it held
archive == <<members, stage, units, damaged, entries, taken>>

-----------------------------------------------------------------------------
(* inflate_raw on what deflate_raw wrote: the data when all of it is there   *)
(* and it is as long as said, and an error otherwise (module Deflate).       *)
Packed(bytes) == <<Len(bytes)>> \o bytes
Unpacked(body, size) ==
  IF body # <<>> /\ body[1] = size /\ Len(body) > size
  THEN SubSeq(body, 2, size + 1) ELSE Nothing

(* ------------------------------ writing ---------------------------------- *)
Body(m) == IF m.method = Deflated THEN Packed(m.data) ELSE m.data

(* A field another writer moved to the ZIP64 block is marked in its place. *)
Field(m, name, value) == IF name \in m.zip64 THEN Marker ELSE value
Zip64Block(m, offset) ==
  LET values == (IF "uncomp" \in m.zip64 THEN <<Len(m.data)>> ELSE <<>>)
             \o (IF "comp" \in m.zip64 THEN <<Len(Body(m))>> ELSE <<>>)
             \o (IF "offset" \in m.zip64 THEN <<offset>> ELSE <<>>)
  IN IF m.zip64 = {} THEN <<>> ELSE <<Zip64Id, Len(values)>> \o values

LocalRecord(m) ==
  <<SigLocal, m.method, Len(m.name), Len(m.localExtra)>>
  \o m.name \o m.localExtra \o Body(m)
CentralRecord(m, offset) ==
  LET extra == m.extra \o Zip64Block(m, offset)
  IN <<SigCentral, m.flags, m.method, Checksum(m.data),
       Field(m, "comp", Len(Body(m))), Field(m, "uncomp", Len(m.data)),
       Len(m.name), Len(extra), 0, Field(m, "offset", offset)>> \o m.name \o extra

Locals(ms) == FlattenSeq([i \in DOMAIN ms |-> LocalRecord(ms[i])])
Directory(ms) ==
  FlattenSeq([i \in DOMAIN ms |->
                CentralRecord(ms[i], Len(Locals(SubSeq(ms, 1, i - 1))))])
EndRecord(ms, comment) ==
  <<SigEnd, Len(ms), Len(Directory(ms)), Len(Locals(ms)), Len(comment)>> \o comment

(* zip_create_stored is ZipOf of one stored member without extra fields. *)
ZipOf(ms, comment) == Locals(ms) \o Directory(ms) \o EndRecord(ms, comment)

(* gz_compress, and other writers' optional header fields. *)
Gzip(s) ==
  <<Magic, Deflated, s.flags>>
  \o (IF s.extra # Nothing THEN <<Len(s.extra)>> \o s.extra ELSE <<>>)
  \o (IF s.name # Nothing THEN s.name \o <<0>> ELSE <<>>)
  \o Packed(s.data) \o <<Checksum(s.data), Len(s.data)>>

(* ------------------------------ zip_open ---------------------------------- *)
At(i) == units[i + 1]
Size == Len(units)
Inside(from, n) == from <= Size /\ n <= Size - from
Piece(from, n) == SubSeq(units, from + 1, from + n)

(* zip_find_eocd: the last end record, looked for backwards. *)
EndPlaces == {i \in 0 .. (Size - EndSize) : Size - i <= EndSize + MaxBack /\ At(i) = SigEnd}
EndAt == IF EndPlaces = {} THEN Nothing
         ELSE CHOOSE i \in EndPlaces : \A j \in EndPlaces : j <= i

(* zip64_fields: the blocks of the extra field up to the one of ZIP64, whose *)
(* values come in a fixed order and only for the fields that are marked.     *)
Zip64At(from, end) ==
  LET holds(i) == i + 2 <= end /\ i + 2 + At(i + 1) <= end
      past[k \in 0 .. (end - from)] ==
        LET i == past[k - 1]
        IN IF k = 0 THEN from
           ELSE IF holds(i) /\ At(i) # Zip64Id THEN i + 2 + At(i + 1) ELSE i
      found == past[end - from]
  IN IF holds(found) THEN found ELSE Nothing

Movable == {"uncomp", "comp", "offset"}
Zip64Fields(entry, from, n) ==
  LET block  == Zip64At(from, from + n)
      marked == {f \in Movable : entry[f] = Marker}
      value(f, before) == IF f \in marked
                          THEN At(block + 2 + Cardinality(marked \cap before)) ELSE entry[f]
  IN IF marked = {} THEN entry
     ELSE IF block = Nothing THEN Nothing
     ELSE IF At(block + 1) < Cardinality(marked) THEN Nothing
     ELSE [entry EXCEPT !.uncomp = value("uncomp", {}),
                        !.comp   = value("comp", {"uncomp"}),
                        !.offset = value("offset", {"uncomp", "comp"})]

(* One header, or Nothing when it is bad; and as many as are said to follow   *)
(* one another from p on, or Nothing when one of them is.                     *)
HeaderSize(p) == CentralSize + At(p + CNameLen) + At(p + CExtraLen) + At(p + CCommentLen)
EntryAt(p) ==
  IF Size - p < CentralSize THEN Nothing
  ELSE IF At(p) # SigCentral THEN Nothing
  ELSE IF Size - p < HeaderSize(p) \/ At(p + CFlags) % 2 = Encrypted THEN Nothing
  ELSE Zip64Fields([name |-> Piece(p + CentralSize, At(p + CNameLen)),
                    method |-> At(p + CMethod), crc |-> At(p + CCrc),
                    comp |-> At(p + CComp), uncomp |-> At(p + CUncomp),
                    offset |-> At(p + COffset)],
                   p + CentralSize + At(p + CNameLen), At(p + CExtraLen))
ReadHeaders(start, count) ==
  LET from[n \in 0 .. count] ==
        [p \in 0 .. Size |->
           LET entry == EntryAt(p)
               rest  == from[n - 1][p + HeaderSize(p)]
           IN IF n = 0 THEN <<>>
              ELSE IF entry = Nothing THEN Nothing
              ELSE IF rest = Nothing THEN Nothing ELSE <<entry>> \o rest]
  IN from[count][start]

ZipOpen ==
  LET e == EndAt
      cdSize == At(e + ECdSize)
      cdOffset == At(e + ECdOffset)
  IN IF e = Nothing THEN Nothing
     ELSE IF \/ At(e + ECount) = CountMarker \/ cdSize = Marker \/ cdOffset = Marker
             \/ ~Inside(cdOffset, cdSize) THEN Nothing
     ELSE ReadHeaders(cdOffset, At(e + ECount))

(* ------------------------- zip_find, zip_read ----------------------------- *)
Same(a, b) == Len(a) = Len(b) /\ \A i \in DOMAIN a : Lower(a[i]) = Lower(b[i])
StartsWith(name, prefix) ==
  Len(name) >= Len(prefix) /\ Same(SubSeq(name, 1, Len(prefix)), prefix)
InRoot(name) == \A i \in DOMAIN name : name[i] # Slash

FirstEntry(found) ==
  IF found = {} THEN Nothing ELSE entries[CHOOSE i \in found : \A j \in found : i <= j]
ZipFind(name) == FirstEntry({i \in DOMAIN entries : Same(entries[i].name, name)})
ZipFindPrefix(prefix) ==
  FirstEntry({i \in DOMAIN entries :
                InRoot(entries[i].name) /\ StartsWith(entries[i].name, prefix)})

ZipTotal(es) == FoldLeft(LAMBDA sum, e : sum + e.uncomp, 0, es)

(* Where an entry's data begins: only the local header can tell. *)
DataAtListed(e) == e.offset + LocalSize + Len(e.name)
DataAt(e) == e.offset + LocalSize + At(e.offset + LNameLen) + At(e.offset + LExtraLen)
Checked(got, crc) == Checksum(got) = crc

ZipRead(e) ==
  LET from == DataAt(e)
      got  == IF e.method = Deflated THEN Unpacked(Piece(from, e.comp), e.uncomp)
              ELSE Piece(from, e.uncomp)
  IN IF ~Inside(e.offset, LocalSize) THEN Nothing
     ELSE IF At(e.offset) # SigLocal THEN Nothing
     ELSE IF ~Inside(from, e.comp) \/ e.method \notin {Stored, Deflated} THEN Nothing
     ELSE IF e.method = Stored /\ e.comp # e.uncomp THEN Nothing
     ELSE IF got = Nothing THEN Nothing
     ELSE IF ~Checked(got, e.crc) THEN Nothing ELSE got

(* zip_name_is_safe: nothing absolute, no drive, no component that goes up. *)
Separator(u) == u \in {Slash, Backslash}
UpBetween(name, Sep(_)) ==
  \E i \in DOMAIN name :
    /\ i < Len(name) /\ name[i] = Dot /\ name[i + 1] = Dot
    /\ i = 1 \/ Sep(name[i - 1])
    /\ i + 1 = Len(name) \/ Sep(name[i + 2])
GoesUpSlash(name) == UpBetween(name, LAMBDA u : u = Slash)
GoesUp(name) == UpBetween(name, Separator)
NameIsSafe(name) ==
  /\ name # <<>> /\ ~Separator(name[1])
  /\ Len(name) > 1 => name[2] # Colon
  /\ ~GoesUp(name)

(* ------------------------------ gz_extract -------------------------------- *)
GzHeader == 3    GzTrailer == 2
HasFlag(flags, bit) == (flags \div bit) % 2 = 1
FlagHcrc == 2    FlagExtra == 4    FlagName == 8    FlagComment == 16

(* skip_string: past the next zero, or past the end of everything. *)
SkipString(bytes, from) ==
  LET zeros == {i \in from .. (Len(bytes) - 1) : bytes[i + 1] = 0}
  IN IF zeros = {} THEN Len(bytes) + 1
     ELSE (CHOOSE i \in zeros : \A j \in zeros : i <= j) + 1

GzBody(bytes) ==
  LET flags == bytes[3]
      extra   == IF ~HasFlag(flags, FlagExtra) THEN GzHeader
                 ELSE IF GzHeader + 1 > Len(bytes) THEN Len(bytes) + 1
                 ELSE GzHeader + 1 + bytes[GzHeader + 1]
      name    == IF HasFlag(flags, FlagName) THEN SkipString(bytes, extra) ELSE extra
      comment == IF HasFlag(flags, FlagComment) THEN SkipString(bytes, name) ELSE name
  IN IF HasFlag(flags, FlagHcrc) THEN comment + 1 ELSE comment

IsGzip(bytes) == bytes # <<>> /\ bytes[1] = Magic
GzExtract(bytes) ==
  LET n == Len(bytes)
      from == GzBody(bytes)
      got == Unpacked(SubSeq(bytes, from + 1, n - GzTrailer), bytes[n])
  IN IF ~IsGzip(bytes) \/ n < GzHeader + GzTrailer THEN Nothing
     ELSE IF bytes[2] # Deflated \/ bytes[3] >= 32 THEN Nothing
     ELSE IF from > n \/ n - from < GzTrailer THEN Nothing
     ELSE IF got = Nothing THEN Nothing
     ELSE IF ~Checked(got, bytes[n - 1]) THEN Nothing ELSE got

(* What other programs are taken to write, and tabber: an archive without the *)
(* ZIP64 end record, nothing after its end record that begins like another    *)
(* one, extra fields made of blocks, and the flags of a stream true to it.    *)
(* What begins like a stream is one.                                          *)
Entry == [name : Bytes, method : Nat, crc : Nat, comp : Nat, uncomp : Nat, offset : Nat]
Blocks(extra) ==
  \E starts \in SUBSET (0 .. Len(extra)) : 0 \in starts /\
    \A i \in starts \ {Len(extra)} : /\ i + 2 <= Len(extra) /\ extra[i + 1] # Zip64Id
                                     /\ i + 2 + extra[i + 2] \in starts

ASSUME WrittenAssumption ==
  /\ Nothing \notin Nat \cup Bytes \cup Entry \cup Seq(Entry)
  /\ \A ms \in Archives : \A c \in Comments :
       /\ ms # <<>> /\ Len(ms) < CountMarker /\ Len(ZipOf(ms, c)) < Marker /\ Len(c) <= MaxBack
       /\ \A i \in 2 .. (Len(c) + 1) : EndRecord(ms, c)[i] # SigEnd
  /\ \A ms \in Archives : \A i \in DOMAIN ms :
       /\ ms[i].zip64 # {} => Blocks(ms[i].extra)
       /\ IsGzip(ms[i].data) => \E s \in Streams : ms[i].data = Gzip(s)
  /\ \A s \in Streams :
       /\ s.flags < 32 /\ ~HasFlag(s.flags, FlagHcrc) /\ ~HasFlag(s.flags, FlagComment)
       /\ HasFlag(s.flags, FlagExtra) <=> s.extra # Nothing
       /\ HasFlag(s.flags, FlagName) <=> s.name # Nothing
       /\ s.name # Nothing => \A i \in DOMAIN s.name : s.name[i] # 0

(* -------------------------- an archive's life ----------------------------- *)
(* One unit takes another value, or the end of the file is missing. *)
Spoil ==
  /\ stage = "packed" /\ stage' = "spoilt"
  /\ \/ UNCHANGED <<units, damaged>>
     \/ members \in Fragile /\ damaged' = TRUE
        /\ \/ \E i \in DOMAIN units : \E v \in Damages \cup {units[i] + 1, units[i] - 1} :
                v >= 0 /\ v # units[i] /\ units' = [units EXCEPT ![i] = v]
           \/ \E n \in 0 .. (Size - 1) : units' = SubSeq(units, 1, n)
  /\ UNCHANGED <<members, entries, taken>>

IsArchive == members # <<>> /\ "method" \in DOMAIN members[1]

Open ==
  /\ stage = "spoilt" /\ IsArchive
  /\ LET es == ZipOpen
     IN IF es = Nothing THEN stage' = "refused" /\ UNCHANGED entries
        ELSE stage' = "opened" /\ entries' = es
  /\ UNCHANGED <<members, units, damaged, taken>>

(* extract_save_bytes: the first file of the root named like a save. *)
FindSave ==
  /\ stage = "opened"
  /\ LET e == ZipFindPrefix(Wanted)
     IN IF e = Nothing THEN stage' = "refused" /\ UNCHANGED taken
        ELSE stage' = "found" /\ taken' = e
  /\ UNCHANGED <<members, units, damaged, entries>>

ReadSave ==
  /\ stage = "found"
  /\ LET got == ZipRead(taken)
     IN IF got = Nothing THEN stage' = "refused" /\ UNCHANGED taken
        ELSE stage' = "read" /\ taken' = got
  /\ UNCHANGED <<members, units, damaged, entries>>

(* The tab's archive: every file of it, unless a name is not safe (tab_fetch). *)
ReadAll ==
  /\ stage = "opened"
  /\ LET files == {i \in DOMAIN entries : ~IsDir(entries[i].name)}
     IN IF \/ \E i \in DOMAIN entries : ~NameIsSafe(entries[i].name)
           \/ \E i \in files : ZipRead(entries[i]) = Nothing
        THEN stage' = "refused" /\ UNCHANGED taken
        ELSE /\ taken' = [i \in files |-> [name |-> entries[i].name,
                                           data |-> ZipRead(entries[i])]]
             /\ stage' = "all"
  /\ UNCHANGED <<members, units, damaged, entries>>

(* A stream of its own, or the one an archive held, unpacked. *)
Extract ==
  /\ \/ stage = "spoilt" /\ ~IsArchive
     \/ stage = "read" /\ IsGzip(taken)
  /\ LET got == GzExtract(IF stage = "read" THEN taken ELSE units)
     IN IF got = Nothing THEN stage' = "refused" /\ UNCHANGED taken
        ELSE stage' = "over" /\ taken' = got
  /\ UNCHANGED <<members, units, damaged, entries>>

Untouched == stage \in {"read", "all", "over", "refused"} /\ UNCHANGED archive

ArchiveInit ==
  /\ \/ \E ms \in Archives, c \in Comments : members = ms /\ units = ZipOf(ms, c)
     \/ \E s \in Streams : members = <<s>> /\ units = Gzip(s)
  /\ stage = "packed" /\ damaged = FALSE /\ entries = <<>> /\ taken = Nothing

ArchiveIdle ==
  /\ members = <<>> /\ stage = "idle" /\ units = <<>> /\ damaged = FALSE
  /\ entries = <<>> /\ taken = Nothing

ArchiveNext == Spoil \/ Open \/ FindSave \/ ReadSave \/ ReadAll \/ Extract \/ Untouched

ArchiveSpec == ArchiveInit /\ [][ArchiveNext]_archive

(* ------------------------------ properties -------------------------------- *)
(* What is read from an archive or a stream is, whole, what something in it   *)
(* held, whichever unit is damaged and wherever the end is cut off: a wrong   *)
(* offset, length or size never makes a file up (the checks of zip_open,      *)
(* zip_read and gz_extract).  What is not damaged is read in full, by         *)
(* whatever program it was written and in whichever of the forms zip.h        *)
(* claims; it is refused only for a member that is encrypted, for a name that *)
(* leads out of the folder, or because it holds no save.                      *)
SaveLike(i) == InRoot(members[i].name) /\ StartsWith(members[i].name, Wanted)
ReadAsPacked ==
  /\ stage = "read" => \E i \in DOMAIN members : taken = members[i].data
  /\ stage = "all" => \A f \in DOMAIN taken : \E i \in DOMAIN members :
                                              taken[f].data = members[i].data
  /\ stage = "over" => \E i \in DOMAIN members :
       taken = (IF IsArchive THEN GzExtract(members[i].data) ELSE members[i].data)
  /\ stage = "all" /\ ~damaged =>
       taken = [i \in {j \in DOMAIN members : ~IsDir(members[j].name)} |->
                  [name |-> members[i].name, data |-> members[i].data]]
  /\ stage = "read" /\ ~damaged =>
       taken = members[CHOOSE i \in DOMAIN members : SaveLike(i) /\
                                 \A j \in 1 .. (i - 1) : ~SaveLike(j)].data
  /\ stage = "refused" /\ ~damaged => IsArchive /\
       \/ \E i \in DOMAIN members : members[i].flags % 2 = Encrypted
       \/ \E i \in DOMAIN members : ~NameIsSafe(members[i].name)
       \/ ~\E i \in DOMAIN members : SaveLike(i)

(* No file of an archive is unpacked to a place outside the folder, whichever *)
(* separators and dots its name is made of (zip_name_is_safe): followed       *)
(* component by component, it never leaves it.                                *)
Into(walk, u) ==
  IF ~Separator(u) THEN [walk EXCEPT !.part = Append(@, u)]
  ELSE LET depth == IF walk.part = <<Dot, Dot>> THEN walk.depth - 1
                    ELSE IF walk.part \in {<<>>, <<Dot>>} THEN walk.depth ELSE walk.depth + 1
       IN [depth |-> depth, part |-> <<>>, out |-> walk.out \/ depth < 0]
Walked(name) ==
  LET path == Append(name, Slash)
      after[i \in 0 .. Len(path)] ==
        IF i = 0 THEN [depth |-> 0, part |-> <<>>, out |-> FALSE]
        ELSE Into(after[i - 1], path[i])
  IN after[Len(path)]
StaysInside(name) ==
  ~Walked(name).out /\ ~Separator(name[1]) /\ (Len(name) > 1 => name[2] # Colon)
NothingOutside == stage = "all" => \A f \in DOMAIN taken : StaysInside(taken[f].name)
=============================================================================
