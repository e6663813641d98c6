----------------------------- MODULE DtboProofs -----------------------------
(***************************************************************************)
(* For every set of device trees, every compression and every list of      *)
(* entries: the image mkdtboimg writes holds each entry's own file where   *)
(* the entry points, blobs do not overlap, and total_size is the length of *)
(* the image.                                                              *)
(***************************************************************************)
EXTENDS Dtbo, SequenceTheorems, TLAPS

Entry == [file : File, id : Int, flags : Int, offset : Nat, size : Nat]

-----------------------------------------------------------------------------
(* Sequences.                                                              *)

(* What is read inside the first of two sequences is not moved by the      *)
(* second.                                                                 *)
LEMMA SubSeqOfFirst ==
  ASSUME NEW S, NEW s \in Seq(S), NEW t \in Seq(S), NEW a \in Nat, NEW n \in Nat,
         a + n <= Len(s)
  PROVE  SubSeq(s \o t, a + 1, a + n) = SubSeq(s, a + 1, a + n)
<1>1. s \o t \in Seq(S) /\ Len(s \o t) = Len(s) + Len(t)
  BY ConcatProperties
<1>2. \A i \in 1..Len(s) : (s \o t)[i] = s[i]
  BY ConcatProperties
<1>3. /\ SubSeq(s \o t, a + 1, a + n) \in Seq(S) /\ SubSeq(s, a + 1, a + n) \in Seq(S)
      /\ Len(SubSeq(s \o t, a + 1, a + n)) = n /\ Len(SubSeq(s, a + 1, a + n)) = n
      /\ \A i \in 1..n : SubSeq(s \o t, a + 1, a + n)[i] = (s \o t)[a + i]
      /\ \A i \in 1..n : SubSeq(s, a + 1, a + n)[i] = s[a + i]
  BY <1>1, SMTT(30)
<1> QED
  BY <1>1, <1>2, <1>3, SeqEqual

(* What is read behind the first of two sequences is read from the second. *)
LEMMA SubSeqOfSecond ==
  ASSUME NEW S, NEW s \in Seq(S), NEW t \in Seq(S), NEW a \in Nat, NEW n \in Nat,
         Len(s) <= a, a + n <= Len(s) + Len(t)
  PROVE  SubSeq(s \o t, a + 1, a + n) = SubSeq(t, a - Len(s) + 1, a - Len(s) + n)
<1> DEFINE b == a - Len(s)
<1>1. s \o t \in Seq(S) /\ Len(s \o t) = Len(s) + Len(t)
  BY ConcatProperties
<1>2. \A i \in 1..Len(t) : (s \o t)[Len(s) + i] = t[i]
  OBVIOUS
<1>3. b \in Nat /\ b + n <= Len(t)
  OBVIOUS
<1>4. /\ SubSeq(s \o t, a + 1, a + n) \in Seq(S) /\ SubSeq(t, b + 1, b + n) \in Seq(S)
      /\ Len(SubSeq(s \o t, a + 1, a + n)) = n /\ Len(SubSeq(t, b + 1, b + n)) = n
      /\ \A i \in 1..n : SubSeq(s \o t, a + 1, a + n)[i] = (s \o t)[a + i]
      /\ \A i \in 1..n : SubSeq(t, b + 1, b + n)[i] = t[b + i]
  BY <1>1, <1>3, SMTT(30)
<1>5. \A i \in 1..n : (s \o t)[a + i] = t[b + i]
  <2> TAKE i \in 1..n
  <2>1. b + i \in 1..Len(t) /\ a + i = Len(s) + (b + i)
    BY <1>3
  <2> QED
    BY <2>1, <1>2
<1> QED
  BY <1>4, <1>5, SeqEqual

-----------------------------------------------------------------------------
(* Types.                                                                  *)

LEMMA StreamType ==
  ASSUME NEW f \in File, NEW c \in Format
  PROVE  Stream(f, c) \in Seq(Cell)
  BY DtboAssumption DEF Stream, Format

LEMMA ResolveType ==
  ASSUME NEW name \in Name
  PROVE  Resolve(name) \in File \cup {NoFile}
  BY DEF Resolve, Name

(* A file is looked for among the entries only once the arguments have     *)
(* been accepted.                                                          *)
FilesExist ==
  pc = "adding" => version \in {0, 1} /\ \A i \in DOMAIN args : args[i].file \in File

(* Opening the output and looking at the arguments.                        *)
LEMMA BeginType ==
  ASSUME TypeOK, NEW v \in Int, NEW page_size \in Int, NEW asked \in Seq(Arg),
         Begin(v, page_size, asked),
         UNCHANGED << global, named >>
  PROVE  TypeOK' /\ FilesExist'
<1>1. image' = << >> /\ entries' = << >> /\ buf' = << >> /\ args' = asked
  BY DEF Begin
<1>2. Len(asked) \in Nat /\ dtOffset' = 1 + Len(asked) /\ totalSize' = 1
  BY DEF Begin
<1>3. pc' \in {"adding", "failed"}
  BY DEF Begin
<1>4. TypeOK'
  <2>1. version' \in Int /\ pageSize' \in Int
    BY DEF Begin
  <2> QED
    BY <1>1, <1>2, <1>3, <2>1 DEF TypeOK
<1>5. FilesExist'
  <2> SUFFICES ASSUME pc' = "adding" PROVE version' \in {0, 1} /\ \A i \in DOMAIN asked : asked[i].file \in File
    BY <1>1 DEF FilesExist
  <2>1. Accepted(v, page_size, asked) /\ version' = v
    BY DEF Begin
  <2>2. \A i \in DOMAIN asked : asked[i] \in Arg
    OBVIOUS
  <2> QED
    BY <2>1, <2>2 DEF Accepted, EntryAccepted, Arg
<1> QED
  BY <1>4, <1>5

(* What a configuration file asks for has the type of a command's entries. *)
LEMMA AskedType ==
  ASSUME TypeOK
  PROVE  [i \in 1..Len(named) |-> [file |-> Resolve(named[i].name),
                                   id |-> named[i].option["id"],
                                   flags |-> named[i].option["flags"]]] \in Seq(Arg)
<1> DEFINE N == [name : Name, option : [DtKeys -> Int]]
<1>0. \A i \in 1..Len(named) : named[i] \in N
  <2>1. named \in Seq(N)
    BY DEF TypeOK
  <2> HIDE DEF N
  <2> QED
    BY <2>1, ElementOfSeq
<1>1. \A i \in 1..Len(named) :
        /\ named[i].name \in Name
        /\ named[i].option["id"] \in Int /\ named[i].option["flags"] \in Int
  BY <1>0 DEF DtKeys
<1>2. \A i \in 1..Len(named) : [file |-> Resolve(named[i].name),
                                id |-> named[i].option["id"],
                                flags |-> named[i].option["flags"]] \in Arg
  BY <1>1, ResolveType DEF Arg
<1>3. Len(named) \in Nat
  BY DEF TypeOK
<1> HIDE DEF Arg
<1> QED
  BY <1>2, <1>3

(* Appending an entry.                                                     *)
LEMMA AddEntryType ==
  ASSUME TypeOK, FilesExist, Adding, NEW offset \in Nat, NEW size \in Nat,
         AddEntry(offset, size)
  PROVE  /\ NextArg \in Arg /\ NextArg.file \in File
         /\ entries' \in Seq(Entry) /\ Len(entries') = Len(entries) + 1
         /\ Len(entries') <= Len(args)
         /\ entries'[Len(entries) + 1] =
              [file |-> NextArg.file, id |-> NextArg.id, flags |-> NextArg.flags,
               offset |-> offset, size |-> size]
         /\ \A i \in DOMAIN entries : entries'[i] = entries[i]
<1>1. args \in Seq(Arg) /\ entries \in Seq(Entry) /\ Len(entries) < Len(args)
  BY DEF TypeOK, Entry, Adding
<1>2. NextArg \in Arg /\ NextArg.file \in File
  BY <1>1 DEF NextArg, FilesExist, Adding
<1> DEFINE new == [file |-> NextArg.file, id |-> NextArg.id, flags |-> NextArg.flags,
                   offset |-> offset, size |-> size]
<1>3. new \in Entry
  BY <1>2 DEF Arg, Entry
<1>4. entries' = Append(entries, new)
  BY DEF AddEntry
<1> HIDE DEF new
<1>5. /\ entries' \in Seq(Entry) /\ Len(entries') = Len(entries) + 1
      /\ entries'[Len(entries) + 1] = new
      /\ \A i \in DOMAIN entries : entries'[i] = entries[i]
  BY <1>1, <1>3, <1>4, AppendProperties
<1> QED
  BY <1>1, <1>2, <1>5 DEF new

(* Every step keeps the types.                                             *)
LEMMA TypeStep == TypeOK /\ FilesExist /\ [Next]_vars => TypeOK' /\ FilesExist'
<1> SUFFICES ASSUME TypeOK, FilesExist, [Next]_vars PROVE TypeOK' /\ FilesExist'
  OBVIOUS
<1>1. CASE Create
  <2>1. PICK cmd \in Command : Begin(cmd.version, cmd.page_size, cmd.args)
    BY <1>1, DtboAssumption DEF Create
  <2>2. cmd.version \in Int /\ cmd.page_size \in Int /\ cmd.args \in Seq(Arg)
    BY DtboAssumption
  <2>3. UNCHANGED << global, named >>
    BY <1>1 DEF Create
  <2> QED
    BY <2>1, <2>2, <2>3, BeginType
<1>2. CASE CfgOpen
  BY <1>2 DEF TypeOK, FilesExist, CfgOpen
<1>3. CASE CfgLine
  <2>1. PICK line \in Line :
          GlobalLine(line) \/ OptionLine(line) \/ NameLine(line) \/ RefusedLine(line)
    BY <1>3 DEF CfgLine
  <2>2. line \in [indent : BOOLEAN, key : STRING, value : Int, name : Name]
    BY DtboAssumption
  <2>3. UNCHANGED << image, version, pageSize, args, entries, buf, dtOffset, totalSize, dump >>
    BY <1>3 DEF CfgLine
  <2>4. CASE GlobalLine(line)
    BY <2>2, <2>3, <2>4 DEF TypeOK, FilesExist, GlobalLine
  <2>5. CASE OptionLine(line)
    <3> DEFINE n == Len(named)
               N == [name : Name, option : [DtKeys -> Int]]
               new == [named[n] EXCEPT !.option[line.key] = line.value]
    <3>1. named \in Seq(N) /\ n \in 1..Len(named) /\ line.key \in DtKeys /\ line.value \in Int
      BY <2>2, <2>5 DEF TypeOK, OptionLine
    <3>2. named[n] \in N
      <4> HIDE DEF N, n
      <4> QED
        BY <3>1, ElementOfSeq
    <3>3. new \in N
      BY <3>1, <3>2
    <3>4. named' = [named EXCEPT ![n] = new]
      BY <2>5 DEF OptionLine
    <3>5. named' \in Seq(N)
      <4> HIDE DEF N, n, new
      <4> QED
        BY <3>1, <3>3, <3>4
    <3>6. UNCHANGED << pc, global >>
      BY <2>5 DEF OptionLine
    <3>7. named' \in Seq([name : Name, option : [DtKeys -> Int]])
      BY <3>5
    <3> HIDE DEF new, n, N
    <3>8. TypeOK'
      BY <2>3, <3>6, <3>7 DEF TypeOK
    <3> QED
      BY <2>3, <3>6, <3>8 DEF FilesExist
  <2>6. CASE NameLine(line)
    <3> DEFINE new == [name |-> line.name, option |-> [k \in DtKeys |-> global[k]]]
    <3>1. new \in [name : Name, option : [DtKeys -> Int]]
      BY <2>2 DEF TypeOK
    <3>2. named' = Append(named, new) /\ UNCHANGED << pc, global >>
      BY <2>6 DEF NameLine
    <3> HIDE DEF new
    <3>3. named' \in Seq([name : Name, option : [DtKeys -> Int]])
      BY <3>1, <3>2 DEF TypeOK
    <3>4. TypeOK'
      BY <2>3, <3>2, <3>3 DEF TypeOK
    <3> QED
      BY <2>3, <3>2, <3>4 DEF FilesExist
  <2>7. CASE RefusedLine(line)
    BY <2>3, <2>7 DEF TypeOK, FilesExist, RefusedLine
  <2> QED
    BY <2>1, <2>4, <2>5, <2>6, <2>7
<1>4. CASE CfgEnd
  <2>1. global["version"] \in Int /\ global["page_size"] \in Int
    BY DEF TypeOK, GlobalKeys
  <2> QED
    BY <1>4, <2>1, AskedType, BeginType DEF CfgEnd
<1>5. CASE AddDuplicate
  <2>1. PICK i \in DOMAIN entries : AddEntry(entries[i].offset, entries[i].size)
    BY <1>5 DEF AddDuplicate
  <2>2. entries[i].offset \in Nat /\ entries[i].size \in Nat
    <3>1. entries \in Seq(Entry)
      BY DEF TypeOK, Entry
    <3>2. entries[i] \in Entry
      BY <3>1
    <3> QED
      BY <3>2 DEF Entry
  <2>3. Adding /\ totalSize' = totalSize + 1 /\ UNCHANGED << buf, dtOffset >>
    BY <1>5 DEF AddDuplicate
  <2>4. entries' \in Seq(Entry) /\ Len(entries') <= Len(args)
    <3> HIDE DEF Adding
    <3> QED
      BY <2>1, <2>2, <2>3, AddEntryType
  <2>5. UNCHANGED << image, pc, global, named, version, pageSize, args, dump >>
    BY <2>1 DEF AddEntry
  <2>6. totalSize' \in Nat
    BY <2>3 DEF TypeOK
  <2>7. UNCHANGED << buf, dtOffset >>
    BY <2>3
  <2> HIDE DEF Adding
  <2> QED
    BY <2>4, <2>5, <2>6, <2>7 DEF TypeOK, FilesExist, Entry
<1>6. CASE AddBlob
  <2> DEFINE blob == Stream(NextArg.file, NextFormat)
  <2>1. Adding /\ NextFormat \in Format /\ NextArg \in Arg /\ NextArg.file \in File
    BY <1>6 DEF AddBlob, Adding, NextArg, TypeOK, FilesExist
  <2>2. blob \in Seq(Cell) /\ Len(blob) \in Nat
    BY <2>1, StreamType
  <2> HIDE DEF blob
  <2>3. /\ AddEntry(dtOffset, Len(blob)) /\ buf' = buf \o blob
        /\ dtOffset' = dtOffset + Len(blob) /\ totalSize' = totalSize + Len(blob) + 1
    BY <1>6 DEF AddBlob, blob
  <2>4. buf' \in Seq(Cell)
    BY <2>2, <2>3 DEF TypeOK
  <2>5. entries' \in Seq(Entry) /\ Len(entries') <= Len(args)
    BY <2>1, <2>2, <2>3, AddEntryType DEF TypeOK
  <2>6. UNCHANGED << image, pc, global, named, version, pageSize, args, dump >>
    BY <2>3 DEF AddEntry
  <2>7. dtOffset' \in Nat /\ totalSize' \in Nat
    BY <2>2, <2>3 DEF TypeOK
  <2> QED
    BY <2>4, <2>5, <2>6, <2>7 DEF TypeOK, FilesExist, Entry
<1>7. CASE AddUnknownFormat
  BY <1>7 DEF TypeOK, FilesExist, AddUnknownFormat
<1>8. CASE Commit
  BY <1>8 DEF TypeOK, FilesExist, Commit
<1>9. CASE Flush
  BY <1>9 DEF TypeOK, FilesExist, Flush
<1>10. CASE Kill
  BY <1>10 DEF TypeOK, FilesExist, Kill
<1>11. CASE \E decompress \in BOOLEAN : DoDump(decompress)
  BY <1>11 DEF TypeOK, FilesExist, DoDump
<1>12. CASE UNCHANGED vars
  BY <1>12 DEF TypeOK, FilesExist, vars
<1> QED
  BY <1>1, <1>2, <1>3, <1>4, <1>5, <1>6, <1>7, <1>8, <1>9, <1>10, <1>11, <1>12 DEF Next

(* The types hold in every behaviour.                                      *)
THEOREM TypesHold == Spec => [](TypeOK /\ FilesExist)
<1>1. Init => TypeOK /\ FilesExist
  BY DEF Init, TypeOK, FilesExist, DtKeys, GlobalKeys
<1> QED
  BY <1>1, TypeStep, PTL DEF Spec

(* TypeOK: the creation's variables keep their types.                      *)
THEOREM TypeCorrect == Spec => []TypeOK
  BY TypesHold, PTL

-----------------------------------------------------------------------------
(* The layout: where the entries point in the blobs collected so far.      *)

Base == 1 + Len(args)

EntryInPlace(i) ==
  LET e == entries[i] IN
  /\ CompressionInfo(version, e) \in Format
  /\ Base <= e.offset /\ e.offset + e.size <= dtOffset
  /\ SubSeq(buf, e.offset - Base + 1, e.offset - Base + e.size)
       = Stream(e.file, CompressionInfo(version, e))

Apart(i, j) ==
  \/ entries[i].offset = entries[j].offset /\ entries[i].size = entries[j].size
  \/ entries[i].offset + entries[i].size <= entries[j].offset
  \/ entries[j].offset + entries[j].size <= entries[i].offset

Layout ==
  /\ dtOffset = Base + Len(buf)
  /\ totalSize = 1 + Len(entries) + Len(buf)
  /\ \A i \in DOMAIN entries : EntryInPlace(i)
  /\ \A i, j \in DOMAIN entries : Apart(i, j)
  /\ pc \in {"writing", "done"} => Len(entries) = Len(args)
  /\ pc = "done" => image = Metadata \o buf

IInv == TypeOK /\ FilesExist /\ Layout

(* Metadata is one cell for the table and one for each entry.              *)
LEMMA MetadataLength ==
  ASSUME TypeOK
  PROVE  /\ Len(Metadata) = 1 + Len(entries)
         /\ \E S : Metadata \in Seq(S) /\ Cell \subseteq S
         /\ Metadata[1] = TableHeader
<1>1. Len(entries) \in Nat
  BY DEF TypeOK
<1> DEFINE n == 1 + Len(entries)
           M(i) == IF i = 1 THEN TableHeader ELSE EntryHeader(entries[i - 1])
           S == {M(i) : i \in 1..n} \cup Cell
<1>2. Metadata = [i \in 1..n |-> M(i)] /\ n \in Nat
  BY <1>1 DEF Metadata
<1>3. \A i \in 1..n : M(i) \in S
  OBVIOUS
<1>4. M(1) = TableHeader
  OBVIOUS
<1>5. Cell \subseteq S
  OBVIOUS
<1> HIDE DEF M, S, n
<1>6. Metadata \in [1..n -> S]
  BY <1>2, <1>3
<1>7. Metadata \in Seq(S) /\ Len(Metadata) = n
  BY <1>2, <1>6, IsASeq, LenProperties
<1>8. Metadata[1] = TableHeader
  BY <1>1, <1>2, <1>4 DEF n
<1> QED
  BY <1>5, <1>7, <1>8 DEF n

(* Opening the output starts an empty layout.                              *)
LEMMA BeginLayout ==
  ASSUME TypeOK, NEW v, NEW page_size, NEW asked \in Seq(Arg), Begin(v, page_size, asked)
  PROVE  Layout'
<1>1. entries' = << >> /\ buf' = << >> /\ args' = asked /\ dtOffset' = 1 + Len(asked)
      /\ totalSize' = 1 /\ pc' \in {"adding", "failed"}
  BY DEF Begin
<1> QED
  BY <1>1 DEF Layout, Base

(* The shapes TypeOK gives, as the provers use them.                       *)
LEMMA Shapes ==
  ASSUME TypeOK
  PROVE  /\ entries \in Seq(Entry) /\ Len(entries) \in Nat
         /\ DOMAIN entries = 1..Len(entries)
         /\ \A j \in 1..Len(entries) :
              /\ entries[j] \in Entry
              /\ entries[j].offset \in Nat /\ entries[j].size \in Nat
         /\ buf \in Seq(Cell) /\ Len(buf) \in Nat
         /\ args \in Seq(Arg) /\ Len(args) \in Nat /\ DOMAIN args = 1..Len(args)
         /\ dtOffset \in Nat /\ totalSize \in Nat
<1>1. entries \in Seq(Entry) /\ buf \in Seq(Cell) /\ args \in Seq(Arg)
  BY DEF TypeOK, Entry
<1>2. dtOffset \in Nat /\ totalSize \in Nat
  BY DEF TypeOK
<1>3. \A j \in 1..Len(entries) : entries[j] \in Entry
  BY <1>1, ElementOfSeq
<1>4. \A j \in 1..Len(entries) : entries[j].offset \in Nat /\ entries[j].size \in Nat
  BY <1>3 DEF Entry
<1>5. Len(entries) \in Nat /\ DOMAIN entries = 1..Len(entries) /\ Len(buf) \in Nat
      /\ Len(args) \in Nat /\ DOMAIN args = 1..Len(args)
  BY <1>1, LenProperties
<1> QED
  BY <1>1, <1>2, <1>3, <1>4, <1>5

(* An entry that was in place stays there when the blobs only grow at the  *)
(* end.                                                                    *)
LEMMA StaysInPlace ==
  ASSUME TypeOK, Layout, NEW i \in DOMAIN entries, NEW more \in Seq(Cell),
         i \in DOMAIN entries', entries'[i] = entries[i], args' = args,
         version' = version, buf' = buf \o more, dtOffset' = dtOffset + Len(more)
  PROVE  EntryInPlace(i)'
<1> DEFINE e == entries[i]
<1>1. entries \in Seq(Entry) /\ e \in Entry
  BY Shapes
<1>2. e.offset \in Nat /\ e.size \in Nat /\ dtOffset \in Nat
  BY Shapes
<1>3. EntryInPlace(i)
  BY DEF Layout
<1>4. Len(args) \in Nat /\ Len(buf) \in Nat /\ Len(more) \in Nat /\ buf \in Seq(Cell)
  BY Shapes
<1>5. Base <= e.offset /\ e.offset + e.size <= dtOffset /\ dtOffset = Base + Len(buf)
      /\ Base \in Nat
  BY <1>3, <1>4 DEF EntryInPlace, Layout, Base
<1> DEFINE o == e.offset - Base
<1>6. o \in Nat /\ o + e.size <= Len(buf)
  BY <1>2, <1>4, <1>5
<1>7. SubSeq(buf', o + 1, o + e.size) = SubSeq(buf, o + 1, o + e.size)
  <2> HIDE DEF e, o
  <2> QED
    BY <1>2, <1>4, <1>6, SubSeqOfFirst
<1>8. Base' = Base /\ e.offset + e.size <= dtOffset'
  BY <1>2, <1>4, <1>5 DEF Base
<1> QED
  BY <1>3, <1>5, <1>7, <1>8 DEF EntryInPlace

(* An entry that shares an earlier blob: it is in place because the        *)
(* earlier entry is, of the same file and in the same format.              *)
LEMMA DuplicateLayout ==
  ASSUME TypeOK, FilesExist, Layout, AddDuplicate
  PROVE  Layout'
<1>0. PICK n \in Nat : n = Len(entries)
  BY Shapes
<1>1. PICK i \in DOMAIN entries : Reusable(i) /\ AddEntry(entries[i].offset, entries[i].size)
  BY DEF AddDuplicate
<1>2. Adding /\ totalSize' = totalSize + 1 /\ UNCHANGED << buf, dtOffset >>
  BY DEF AddDuplicate
<1>3. UNCHANGED << image, pc, version, pageSize, args >>
  BY <1>1 DEF AddEntry
<1>4. /\ entries \in Seq(Entry) /\ n \in Nat /\ DOMAIN entries = 1..n
      /\ \A j \in 1..n : entries[j] \in Entry
  BY <1>0, Shapes
<1>5. entries[i].offset \in Nat /\ entries[i].size \in Nat
  BY <1>4 DEF Entry
<1>6. /\ entries' \in Seq(Entry) /\ Len(entries') = n + 1
      /\ entries'[n + 1] = [file |-> NextArg.file, id |-> NextArg.id,
                            flags |-> NextArg.flags, offset |-> entries[i].offset,
                            size |-> entries[i].size]
      /\ \A j \in DOMAIN entries : entries'[j] = entries[j]
  BY <1>0, <1>1, <1>2, <1>5, AddEntryType
<1>7. DOMAIN entries' = 1..(n + 1)
  BY <1>4, <1>6
<1>8. \A j \in 1..n : EntryInPlace(j)'
  <2> TAKE j \in 1..n
  <2>1. EntryInPlace(j) /\ entries'[j] = entries[j] /\ Base' = Base
    BY <1>3, <1>4, <1>6 DEF Layout, Base
  <2> QED
    BY <1>2, <1>3, <2>1 DEF EntryInPlace
<1>9. EntryInPlace(n + 1)'
  <2>1. EntryInPlace(i) /\ Base' = Base
    BY <1>3 DEF Layout, Base
  <2>2. entries[i].file = NextArg.file /\ CompressionInfo(version, entries[i]) = NextFormat
    BY <1>1 DEF Reusable, SameFile
  <2>3. CompressionInfo(version', entries'[n + 1]) = NextFormat
    BY <1>3, <1>6 DEF CompressionInfo, NextFormat
  <2>4. /\ entries'[n + 1].offset = entries[i].offset
        /\ entries'[n + 1].size = entries[i].size
        /\ entries'[n + 1].file = entries[i].file
    BY <1>6, <2>2
  <2> QED
    BY <1>2, <2>1, <2>2, <2>3, <2>4 DEF EntryInPlace
<1>10. \A j, k \in DOMAIN entries' : Apart(j, k)'
  <2>1. \A j, k \in 1..n : Apart(j, k)
    BY <1>4 DEF Layout
  <2>2. \A j \in 1..(n + 1) : \E j0 \in 1..n :
          entries'[j].offset = entries[j0].offset /\ entries'[j].size = entries[j0].size
    BY <1>4, <1>6
  <2>3. ASSUME NEW j \in 1..(n + 1), NEW k \in 1..(n + 1) PROVE Apart(j, k)'
    <3>1. PICK j0 \in 1..n : entries'[j].offset = entries[j0].offset
                            /\ entries'[j].size = entries[j0].size
      BY <2>2
    <3>2. PICK k0 \in 1..n : entries'[k].offset = entries[k0].offset
                            /\ entries'[k].size = entries[k0].size
      BY <2>2
    <3>3. Apart(j0, k0)
      BY <2>1
    <3> QED
      BY <3>1, <3>2, <3>3 DEF Apart
  <2> QED
    BY <1>7, <2>3
<1>11. totalSize' = 1 + Len(entries') + Len(buf') /\ dtOffset' = Base' + Len(buf')
  BY <1>0, <1>2, <1>3, <1>4, <1>6 DEF Layout, Base, TypeOK
<1>12. pc' = "adding"
  BY <1>2, <1>3 DEF Adding
<1>13. \A j \in DOMAIN entries' : EntryInPlace(j)'
  <2>1. \A j \in 1..(n + 1) : j \in 1..n \/ j = n + 1
    BY <1>4
  <2> QED
    BY <1>7, <1>8, <1>9, <2>1
<1> QED
  BY <1>10, <1>11, <1>12, <1>13 DEF Layout

(* An entry with a blob of its own: the blob is appended where dt_offset   *)
(* says, behind every other.                                               *)
LEMMA BlobLayout ==
  ASSUME TypeOK, FilesExist, Layout, AddBlob
  PROVE  Layout'
<1>0. PICK n \in Nat : n = Len(entries)
  BY Shapes
<1> DEFINE blob == Stream(NextArg.file, NextFormat)
<1>1. /\ Adding /\ NextFormat \in Format /\ AddEntry(dtOffset, Len(blob))
      /\ buf' = buf \o blob /\ dtOffset' = dtOffset + Len(blob)
      /\ totalSize' = totalSize + Len(blob) + 1
  BY DEF AddBlob
<1>2. UNCHANGED << image, pc, version, pageSize, args >>
  BY <1>1 DEF AddEntry
<1>3. NextArg \in Arg /\ NextArg.file \in File
  BY <1>1 DEF Adding, NextArg, TypeOK, FilesExist
<1>4. blob \in Seq(Cell) /\ Len(blob) \in Nat
  BY <1>1, <1>3, StreamType
<1>5. /\ entries \in Seq(Entry) /\ n \in Nat /\ DOMAIN entries = 1..n
      /\ \A j \in 1..n : entries[j] \in Entry
      /\ buf \in Seq(Cell) /\ Len(buf) \in Nat /\ dtOffset \in Nat /\ Len(args) \in Nat
      /\ totalSize \in Nat
  BY <1>0, Shapes
<1> HIDE DEF blob
<1>6. /\ entries' \in Seq(Entry) /\ Len(entries') = n + 1
      /\ entries'[n + 1] = [file |-> NextArg.file, id |-> NextArg.id,
                            flags |-> NextArg.flags, offset |-> dtOffset,
                            size |-> Len(blob)]
      /\ \A j \in DOMAIN entries : entries'[j] = entries[j]
  BY <1>0, <1>1, <1>4, <1>5, AddEntryType
<1>7. DOMAIN entries' = 1..(n + 1)
  BY <1>5, <1>6
<1>8. \A j \in 1..n : EntryInPlace(j)'
  <2> TAKE j \in 1..n
  <2>1. j \in DOMAIN entries /\ j \in DOMAIN entries' /\ entries'[j] = entries[j]
    BY <1>5, <1>6, <1>7
  <2>2. args' = args /\ version' = version
    BY <1>2
  <2> QED
    BY <1>1, <1>4, <2>1, <2>2, StaysInPlace
<1>9. Len(buf') = Len(buf) + Len(blob)
  BY <1>1, <1>4, <1>5
<1>10. EntryInPlace(n + 1)'
  <2>1. Base' = Base /\ dtOffset = Base + Len(buf) /\ Base \in Nat
    BY <1>2, <1>5 DEF Layout, Base
  <2>2. CompressionInfo(version', entries'[n + 1]) = NextFormat
    BY <1>2, <1>6 DEF CompressionInfo, NextFormat
  <2>3. SubSeq(buf', Len(buf) + 1, Len(buf) + Len(blob)) = SubSeq(blob, 1, Len(blob))
    <3>1. SubSeq(buf \o blob, Len(buf) + 1, Len(buf) + Len(blob))
            = SubSeq(blob, Len(buf) - Len(buf) + 1, Len(buf) - Len(buf) + Len(blob))
      BY <1>4, <1>5, SubSeqOfSecond
    <3> QED
      BY <1>1, <1>4, <1>5, <3>1
  <2>4. SubSeq(blob, 1, Len(blob)) = blob
    BY <1>4
  <2>5. dtOffset - Base = Len(buf)
    BY <1>5, <2>1
  <2>6. Stream(entries'[n + 1].file, NextFormat) = blob
    BY <1>6 DEF blob
  <2>7. SubSeq(buf', dtOffset - Base + 1, dtOffset - Base + Len(blob)) = blob
    BY <2>3, <2>4, <2>5
  <2>8. Base <= dtOffset /\ dtOffset + Len(blob) <= dtOffset'
    BY <1>1, <1>4, <1>5, <2>1
  <2>9. entries'[n + 1].offset = dtOffset /\ entries'[n + 1].size = Len(blob)
    BY <1>6
  <2> QED
    BY <1>1, <2>1, <2>2, <2>6, <2>7, <2>8, <2>9 DEF EntryInPlace
<1>11. \A j, k \in DOMAIN entries' : Apart(j, k)'
  <2>1. \A j, k \in 1..n : Apart(j, k)
    BY <1>5 DEF Layout
  <2>2. \A j \in 1..n : entries[j].offset + entries[j].size <= dtOffset
    BY <1>5 DEF Layout, EntryInPlace
  <2>3. \A j \in 1..n : entries'[j] = entries[j]
    BY <1>5, <1>6
  <2>4. entries'[n + 1].offset = dtOffset /\ entries'[n + 1].size = Len(blob)
    BY <1>6
  <2>5. \A j, k \in 1..n : Apart(j, k)'
    BY <2>1, <2>3 DEF Apart
  <2>6. \A j \in 1..n : Apart(j, n + 1)' /\ Apart(n + 1, j)'
    BY <2>2, <2>3, <2>4 DEF Apart
  <2>7. Apart(n + 1, n + 1)'
    BY DEF Apart
  <2>8. \A j \in 1..(n + 1) : j \in 1..n \/ j = n + 1
    BY <1>5
  <2> QED
    BY <1>7, <2>5, <2>6, <2>7, <2>8
<1>12. totalSize' = 1 + Len(entries') + Len(buf') /\ dtOffset' = Base' + Len(buf')
  BY <1>0, <1>1, <1>2, <1>4, <1>5, <1>6, <1>9 DEF Layout, Base
<1>13. pc' = "adding"
  BY <1>1, <1>2 DEF Adding
<1>14. \A j \in DOMAIN entries' : EntryInPlace(j)'
  <2>1. \A j \in 1..(n + 1) : j \in 1..n \/ j = n + 1
    BY <1>5
  <2> QED
    BY <1>7, <1>8, <1>10, <2>1
<1> QED
  BY <1>11, <1>12, <1>13, <1>14 DEF Layout

(* Every step keeps the layout.                                            *)
LEMMA LayoutStep == IInv /\ [Next]_vars => Layout'
<1> SUFFICES ASSUME TypeOK, FilesExist, Layout, [Next]_vars PROVE Layout'
  BY DEF IInv
<1>1. ASSUME UNCHANGED << version, pageSize, args, entries, buf, dtOffset, totalSize >>,
             pc' \in {"writing", "done"} => Len(entries) = Len(args),
             pc' = "done" => image' = Metadata \o buf
      PROVE  Layout'
  <2>1. Metadata' = Metadata /\ Base' = Base
    BY <1>1 DEF Metadata, TableHeader, EntryHeader, Base
  <2>2. \A i \in DOMAIN entries : EntryInPlace(i) => EntryInPlace(i)'
    BY <1>1, <2>1 DEF EntryInPlace, CompressionInfo
  <2>3. \A i, j \in DOMAIN entries : Apart(i, j) => Apart(i, j)'
    BY <1>1 DEF Apart
  <2> QED
    BY <1>1, <2>1, <2>2, <2>3 DEF Layout
<1>2. CASE Create
  <2>1. PICK cmd \in Command : Begin(cmd.version, cmd.page_size, cmd.args)
    BY <1>2, DtboAssumption DEF Create
  <2>2. cmd.args \in Seq(Arg)
    BY DtboAssumption
  <2> QED
    BY <2>1, <2>2, BeginLayout
<1>3. CASE CfgOpen
  BY <1>1, <1>3 DEF CfgOpen
<1>4. CASE CfgLine
  BY <1>1, <1>4 DEF CfgLine, GlobalLine, OptionLine, NameLine, RefusedLine
<1>5. CASE CfgEnd
  BY <1>5, AskedType, BeginLayout DEF CfgEnd
<1>6. CASE AddDuplicate
  BY <1>6, DuplicateLayout
<1>7. CASE AddBlob
  BY <1>7, BlobLayout
<1>8. CASE AddUnknownFormat
  BY <1>1, <1>8 DEF AddUnknownFormat
<1>9. CASE Commit
  BY <1>1, <1>9 DEF Commit
<1>10. CASE Flush
  BY <1>1, <1>10 DEF Flush, Layout
<1>11. CASE Kill
  BY <1>1, <1>11 DEF Kill
<1>12. CASE \E decompress \in BOOLEAN : DoDump(decompress)
  BY <1>1, <1>12 DEF DoDump, Layout
<1>13. CASE UNCHANGED vars
  BY <1>1, <1>13 DEF vars, Layout
<1> QED
  BY <1>2, <1>3, <1>4, <1>5, <1>6, <1>7, <1>8, <1>9, <1>10, <1>11, <1>12, <1>13 DEF Next

(* The invariant of add_dt_entries and commit: every behaviour keeps the   *)
(* types and the layout.                                                   *)
THEOREM LayoutHolds == Spec => []IInv
<1>1. Init => IInv
  <2>1. Init => TypeOK /\ FilesExist
    BY DEF Init, TypeOK, FilesExist, DtKeys, GlobalKeys
  <2>2. Init => Layout
    BY DEF Init, Layout, Base
  <2> QED
    BY <2>1, <2>2 DEF IInv
<1>2. IInv /\ [Next]_vars => IInv'
  BY TypeStep, LayoutStep DEF IInv
<1> QED
  BY <1>1, <1>2, PTL DEF Spec

(* What an entry points at in the whole image.                             *)
LEMMA PointsAt ==
  ASSUME TypeOK, Layout, Len(entries) = Len(args), NEW i \in DOMAIN entries
  PROVE  /\ entries[i].offset \in Nat /\ entries[i].size \in Nat
         /\ entries[i].offset + entries[i].size <= Len(Metadata \o buf)
         /\ SubSeq(Metadata \o buf, entries[i].offset + 1, entries[i].offset + entries[i].size)
              = Stream(entries[i].file, CompressionInfo(version, entries[i]))
<1>1. PICK S : Metadata \in Seq(S) /\ Cell \subseteq S
  BY MetadataLength
<1>2. buf \in Seq(S) /\ Len(buf) \in Nat
  BY <1>1, Shapes, SeqMonotonic
<1>3. entries[i].offset \in Nat /\ entries[i].size \in Nat
  BY Shapes
<1>4. Len(Metadata) = Base /\ Base \in Nat
  BY MetadataLength, Shapes DEF Layout, Base
<1>5. EntryInPlace(i) /\ dtOffset = Base + Len(buf)
  BY DEF Layout
<1>6. Base <= entries[i].offset /\ entries[i].offset + entries[i].size <= Base + Len(buf)
  BY <1>5 DEF EntryInPlace
<1>7. SubSeq(Metadata \o buf, entries[i].offset + 1, entries[i].offset + entries[i].size)
        = SubSeq(buf, entries[i].offset - Base + 1, entries[i].offset - Base + entries[i].size)
  <2>1. /\ Len(Metadata) <= entries[i].offset
        /\ entries[i].offset + entries[i].size <= Len(Metadata) + Len(buf)
    BY <1>4, <1>6
  <2>2. SubSeq(Metadata \o buf, entries[i].offset + 1, entries[i].offset + entries[i].size)
          = SubSeq(buf, entries[i].offset - Len(Metadata) + 1,
                   entries[i].offset - Len(Metadata) + entries[i].size)
    <3> DEFINE M == Metadata
               o == entries[i].offset
               z == entries[i].size
    <3>1. /\ M \in Seq(S) /\ buf \in Seq(S) /\ o \in Nat /\ z \in Nat
          /\ Len(M) <= o /\ o + z <= Len(M) + Len(buf)
      BY <1>1, <1>2, <1>3, <2>1
    <3> HIDE DEF M, o, z
    <3>2. SubSeq(M \o buf, o + 1, o + z) = SubSeq(buf, o - Len(M) + 1, o - Len(M) + z)
      BY <3>1, SubSeqOfSecond
    <3> QED
      BY <3>2 DEF M, o, z
  <2> QED
    BY <1>4, <2>2
<1>8. Len(Metadata \o buf) = Base + Len(buf)
  <2> DEFINE M == Metadata
  <2>1. M \in Seq(S) /\ Len(M) = Base
    BY <1>1, <1>4
  <2> HIDE DEF M
  <2>2. Len(M \o buf) = Base + Len(buf)
    BY <1>2, <2>1, ConcatProperties
  <2> QED
    BY <2>2 DEF M
<1> QED
  BY <1>3, <1>5, <1>6, <1>7, <1>8 DEF EntryInPlace

(* EntriesPointAtTheirFiles: in the image about to be written, each entry  *)
(* points at its own file in its own format.                               *)
THEOREM PointersCorrect == Spec => []EntriesPointAtTheirFiles
<1>1. IInv => EntriesPointAtTheirFiles
  BY PointsAt DEF IInv, Layout, EntriesPointAtTheirFiles
<1> QED
  BY <1>1, LayoutHolds, PTL

(* TotalSizeIsFileSize: the size in the table header is the image's.       *)
THEOREM TotalSizeCorrect == Spec => []TotalSizeIsFileSize
<1>1. IInv => TotalSizeIsFileSize
  <2> SUFFICES ASSUME TypeOK, Layout, pc = "done"
               PROVE  Len(image) = image[1][2].total_size
    BY DEF IInv, TotalSizeIsFileSize
  <2>1. PICK S : Metadata \in Seq(S) /\ Cell \subseteq S
    BY MetadataLength
  <2>2. buf \in Seq(S) /\ Len(buf) \in Nat /\ Len(entries) \in Nat
    BY <2>1, Shapes, SeqMonotonic
  <2>3. image = Metadata \o buf /\ totalSize = 1 + Len(entries) + Len(buf)
    BY DEF Layout
  <2>4. Len(Metadata) = 1 + Len(entries) /\ Metadata[1] = TableHeader
    BY MetadataLength
  <2>5. Len(image) = totalSize /\ image[1] = TableHeader
    <3> DEFINE M == Metadata
    <3>1. M \in Seq(S) /\ buf \in Seq(S) /\ image = M \o buf
      BY <2>1, <2>2, <2>3
    <3>2. Len(M) = 1 + Len(entries) /\ M[1] = TableHeader
      BY <2>4
    <3> HIDE DEF M
    <3>3. Len(image) = Len(M) + Len(buf) /\ \A k \in 1..Len(M) : image[k] = M[k]
      BY <3>1, ConcatProperties
    <3>4. 1 \in 1..Len(M)
      BY <2>2, <3>2
    <3> QED
      BY <2>2, <2>3, <3>2, <3>3, <3>4
  <2> QED
    BY <2>5 DEF TableHeader
<1> QED
  BY <1>1, LayoutHolds, PTL

(* BlobsNeverOverlap: blobs are shared whole or disjoint, and behind the   *)
(* table.                                                                  *)
THEOREM BlobsApart == Spec => []BlobsNeverOverlap
<1>1. IInv => BlobsNeverOverlap
  <2> SUFFICES ASSUME TypeOK, Layout PROVE BlobsNeverOverlap
    BY DEF IInv
  <2>1. \A i \in DOMAIN entries : entries[i].offset > Len(args)
    <3> TAKE i \in DOMAIN entries
    <3>1. EntryInPlace(i) /\ entries[i].offset \in Nat /\ Len(args) \in Nat
      BY Shapes DEF Layout
    <3> QED
      BY <3>1 DEF EntryInPlace, Base
  <2>2. \A i, j \in DOMAIN entries : Apart(i, j)
    BY DEF Layout
  <2> QED
    BY <2>1, <2>2 DEF BlobsNeverOverlap, Apart
<1> QED
  BY <1>1, LayoutHolds, PTL

-----------------------------------------------------------------------------
(* The image as it can be on the disk, whole or cut, and its dumps.        *)

(* The entries are those asked for, and what is there is a beginning of    *)
(* the image of a creation that had got to the writing.                    *)
ImageInv ==
  /\ \A i \in DOMAIN entries :
       /\ entries[i].file = args[i].file
       /\ entries[i].id = args[i].id /\ entries[i].flags = args[i].flags
  /\ pc \in {"adding", "writing", "done"} => version \in {0, 1}
  /\ image # << >> =>
       /\ pc \in {"done", "killed"} /\ version \in {0, 1} /\ Len(entries) = Len(args)
       /\ \E n \in 0..Len(Metadata \o buf) : image = SubSeq(Metadata \o buf, 1, n)

DumpInv == dump.ran => pc \in {"done", "failed", "killed"}

DumpsAreRight == DumpReturnsFiles /\ CutImageDumpsPrefixes

(* What is read at the place of some bytes, of a file that may be cut, is  *)
(* a beginning of them.                                                    *)
LEMMA ReadOfCut ==
  ASSUME NEW S, NEW file \in Seq(S), NEW n \in 0..Len(file),
         NEW a \in Nat, NEW z \in Nat, a + z <= Len(file)
  PROVE  LET cut == SubSeq(file, 1, n)
             r == SubSeq(cut, a + 1, IF a + z < Len(cut) THEN a + z ELSE Len(cut))
             all == SubSeq(file, a + 1, a + z)
         IN  /\ r = SubSeq(all, 1, Len(r)) /\ Len(r) \in 0..z /\ Len(all) = z
             /\ n = Len(file) => r = all
<1> DEFINE cut == SubSeq(file, 1, n)
           m == IF a + z < n THEN a + z ELSE n
           k == IF m < a THEN 0 ELSE m - a
           r == SubSeq(cut, a + 1, m)
           all == SubSeq(file, a + 1, a + z)
<1>1. n \in Nat /\ m \in Nat /\ m <= n /\ m <= a + z /\ k \in 0..z
  OBVIOUS
<1>2. cut \in Seq(S) /\ Len(cut) = n /\ \A i \in 1..n : cut[i] = file[i]
  BY SMTT(30)
<1>3. all \in Seq(S) /\ Len(all) = z /\ \A i \in 1..z : all[i] = file[a + i]
  BY SMTT(30)
<1> HIDE DEF cut, all
<1>4. r \in Seq(S) /\ Len(r) = k /\ \A i \in 1..k : r[i] = cut[a + i]
  <2>1. CASE m < a
    <3>1. m < a + 1
      BY <1>1, <2>1
    <3>2. r = << >>
      <4> HIDE DEF m
      <4> QED
        BY <1>1, <1>2, <3>1, SMTT(30)
    <3> HIDE DEF r
    <3> QED
      BY <2>1, <3>2
  <2>2. CASE ~(m < a)
    <3> HIDE DEF m
    <3>1. m - a = k /\ a + k = m
      BY <1>1, <2>2
    <3> QED
      BY <1>1, <1>2, <2>2, <3>1, SMTT(30)
  <2> QED
    BY <2>1, <2>2
<1>5. /\ SubSeq(all, 1, k) \in Seq(S) /\ Len(SubSeq(all, 1, k)) = k
      /\ \A i \in 1..k : SubSeq(all, 1, k)[i] = all[i]
  <2> HIDE DEF k
  <2> QED
    BY <1>1, <1>3, SMTT(30)
<1> HIDE DEF r
<1>6. \A i \in 1..k : r[i] = SubSeq(all, 1, k)[i]
  <2> TAKE i \in 1..k
  <2>1. i \in 1..z /\ a + i \in 1..n
    BY <1>1
  <2> HIDE DEF k
  <2> QED
    BY <1>2, <1>3, <1>4, <1>5, <2>1
<1>7. r = SubSeq(all, 1, k)
  <2> HIDE DEF k
  <2> QED
    BY <1>4, <1>5, <1>6, SeqEqual
<1>8. ASSUME n = Len(file) PROVE r = all
  <2>1. k = z
    BY <1>8
  <2>2. SubSeq(all, 1, z) = all
    BY <1>3, <1>5, <2>1, SeqEqual
  <2> QED
    BY <1>7, <2>1, <2>2
<1> QED
  BY <1>1, <1>2, <1>3, <1>4, <1>7, <1>8 DEF r, cut, all, m, k

(* The table in a whole image.                                             *)
LEMMA TableIs ==
  ASSUME TypeOK
  PROVE  /\ \E S : Metadata \o buf \in Seq(S)
         /\ Len(Metadata \o buf) = 1 + Len(entries) + Len(buf)
         /\ (Metadata \o buf)[1] = TableHeader
         /\ \A i \in 1..Len(entries) : (Metadata \o buf)[i + 1] = EntryHeader(entries[i])
<1> DEFINE M == Metadata
           n == Len(entries)
<1>1. PICK S : M \in Seq(S) /\ Cell \subseteq S
  BY MetadataLength
<1>2. buf \in Seq(S) /\ Len(buf) \in Nat /\ n \in Nat
  BY <1>1, Shapes, SeqMonotonic
<1>3. Len(M) = 1 + n /\ M[1] = TableHeader
  BY MetadataLength
<1>4. \A i \in 1..n : M[i + 1] = EntryHeader(entries[i])
  <2> TAKE i \in 1..n
  <2>1. i + 1 \in 1..(1 + n) /\ i + 1 # 1 /\ (i + 1) - 1 = i
    BY <1>2
  <2> HIDE DEF n
  <2> QED
    BY <2>1 DEF Metadata, n
<1> HIDE DEF M, n
<1>5. /\ M \o buf \in Seq(S) /\ Len(M \o buf) = 1 + n + Len(buf)
      /\ \A i \in 1..(1 + n) : (M \o buf)[i] = M[i]
  <2>1. /\ M \o buf \in Seq(S) /\ Len(M \o buf) = Len(M) + Len(buf)
        /\ \A i \in 1..Len(M) : (M \o buf)[i] = M[i]
    BY <1>1, <1>2, ConcatProperties
  <2> QED
    BY <1>3, <2>1
<1>6. /\ (M \o buf)[1] = TableHeader
      /\ \A i \in 1..n : (M \o buf)[i + 1] = EntryHeader(entries[i])
  BY <1>2, <1>3, <1>4, <1>5
<1> QED
  BY <1>5, <1>6 DEF M, n

(* A table that can be read is the whole table.                            *)
LEMMA CountIs ==
  ASSUME IInv, ImageInv, image # << >>, Readable
  PROVE  image[1] = TableHeader /\ image[1][2].count = Len(args)
<1> DEFINE F == Metadata \o buf
<1>1. TypeOK /\ Len(entries) = Len(args)
  BY DEF IInv, ImageInv
<1>2. PICK n \in 0..Len(F) : image = SubSeq(F, 1, n)
  BY DEF ImageInv
<1>3. PICK S : F \in Seq(S)
  BY <1>1, TableIs
<1>4. F[1] = TableHeader
  BY <1>1, TableIs
<1> HIDE DEF F
<1>5. n \in Nat /\ Len(image) = n /\ \A j \in 1..n : image[j] = F[j]
  BY <1>2, <1>3, SMTT(30)
<1>6. image[1] = TableHeader
  BY <1>4, <1>5 DEF Readable
<1> QED
  BY <1>1, <1>6 DEF TableHeader

(* What a dump reads for an entry: what it was asked for, and at its place *)
(* the stream of its file, or the beginning of it that is there.           *)
LEMMA EntryRead ==
  ASSUME IInv, ImageInv, image # << >>, Readable, NEW i \in 1..Len(args)
  PROVE  LET e == ReadEntries[i]
             c == CompressionInfo(version, args[i])
             bytes == ReadAt(e.offset, e.size)
             whole == Stream(args[i].file, c)
         IN  /\ image[1][2].version = version /\ DOMAIN ReadEntries = 1..Len(args)
             /\ image[1][2].count = Len(args)
             /\ args[i].file \in File /\ c \in Format /\ CompressionInfo(version, e) = c
             /\ e.id = args[i].id /\ (version = 1 => e.flags = args[i].flags)
             /\ bytes = SubSeq(whole, 1, Len(bytes)) /\ Len(bytes) \in 0..Len(whole)
             /\ pc = "done" => bytes = whole
<1> DEFINE F == Metadata \o buf
           L == Len(args)
           e == ReadEntries[i]
           c == CompressionInfo(version, args[i])
<1>1. TypeOK /\ Layout /\ Len(entries) = L /\ version \in {0, 1} /\ L \in Nat
  BY Shapes DEF IInv, ImageInv
<1>2. PICK n \in 0..Len(F) : image = SubSeq(F, 1, n)
  BY DEF ImageInv
<1>3. PICK S : F \in Seq(S)
  BY <1>1, TableIs
<1>4. /\ Len(F) = 1 + L + Len(buf) /\ Len(buf) \in Nat /\ F[1] = TableHeader
      /\ \A j \in 1..L : F[j + 1] = EntryHeader(entries[j])
  BY <1>1, TableIs, Shapes
<1> HIDE DEF F
<1>5. n \in Nat /\ Len(image) = n /\ \A j \in 1..n : image[j] = F[j]
  BY <1>2, <1>3, <1>4, SMTT(30)
<1>6. n >= 1 /\ image[1] = TableHeader /\ n >= 1 + image[1][2].count
  <2>1. n >= 1 /\ n >= 1 + image[1][2].count
    BY <1>5 DEF Readable
  <2> QED
    BY <1>4, <1>5, <2>1
<1>7. image[1][2].count = L /\ image[1][2].version = version
  BY <1>1, <1>6 DEF TableHeader
<1>8. /\ DOMAIN ReadEntries = 1..L
      /\ e = EntryHeader(entries[i])[2]
  <2>1. i + 1 \in 1..n /\ i \in 1..L
    BY <1>1, <1>5, <1>6, <1>7
  <2>2. image[i + 1] = EntryHeader(entries[i])
    BY <1>4, <1>5, <2>1
  <2> HIDE DEF L
  <2> QED
    BY <1>7, <2>1, <2>2 DEF ReadEntries
<1>9. /\ entries[i].file = args[i].file /\ entries[i].id = args[i].id
      /\ entries[i].flags = args[i].flags /\ entries[i] \in Entry /\ i \in DOMAIN entries
  BY <1>1, Shapes DEF ImageInv
<1>10. /\ e.size = entries[i].size /\ e.offset = entries[i].offset /\ e.id = args[i].id
       /\ version = 1 => e.flags = args[i].flags
  BY <1>8, <1>9 DEF EntryHeader
<1> HIDE DEF e
<1>11. CompressionInfo(version, e) = c /\ CompressionInfo(version, entries[i]) = c
  BY <1>1, <1>9, <1>10 DEF CompressionInfo
<1>12. args[i].file \in File /\ c \in Format
  <2>1. EntryInPlace(i)
    BY <1>1, <1>9 DEF Layout
  <2> QED
    BY <1>9, <1>11, <2>1 DEF EntryInPlace, Entry
<1> DEFINE a == entries[i].offset
           z == entries[i].size
           whole == Stream(args[i].file, c)
           bytes == ReadAt(e.offset, e.size)
<1> HIDE DEF c
<1>13. /\ a \in Nat /\ z \in Nat /\ a + z <= Len(F)
       /\ SubSeq(F, a + 1, a + z) = whole
  BY <1>1, <1>9, <1>11, PointsAt DEF F
<1>14. bytes = SubSeq(image, a + 1, IF a + z < Len(image) THEN a + z ELSE Len(image))
  BY <1>10 DEF ReadAt
<1> HIDE DEF a, z, whole, bytes
<1>15. /\ bytes = SubSeq(whole, 1, Len(bytes)) /\ Len(bytes) \in 0..Len(whole)
       /\ n = Len(F) => bytes = whole
  BY <1>2, <1>3, <1>13, <1>14, ReadOfCut
<1>16. pc = "done" => n = Len(F)
  <2>1. ASSUME pc = "done" PROVE image = F
    BY <1>1, <2>1 DEF Layout, F
  <2> QED
    BY <1>5, <2>1
<1> QED
  BY <1>7, <1>8, <1>10, <1>11, <1>12, <1>15, <1>16 DEF bytes, whole, c, e, L

(* What extract_dt_file makes of the beginning of a stream: nothing but    *)
(* the file, if it is decompressed.                                        *)
LEMMA ExtractedIs ==
  ASSUME NEW v, NEW e, NEW d \in BOOLEAN, NEW f \in File, NEW c \in Format,
         CompressionInfo(v, e) = c,
         NEW bytes, bytes = ReadAt(e.offset, e.size),
         bytes = SubSeq(Stream(f, c), 1, Len(bytes)), Len(bytes) \in 0..Len(Stream(f, c))
  PROVE  /\ d /\ c # 0 => \A b \in Extracted(v, e, d) : b = Content[f]
         /\ ~(d /\ c # 0) => Extracted(v, e, d) = {bytes}
         /\ bytes = Stream(f, c) => Extracted(v, e, d) # {}
<1>1. CASE ~(d /\ c # 0)
  BY <1>1 DEF Extracted
<1>2. CASE d /\ c # 0
  <2>1. c \in {1, 2} /\ Stream(f, c) = Packed[c][f]
    BY <1>2 DEF Format, Stream
  <2>2. Extracted(v, e, d) = {Content[h] : h \in {g \in File : Unpacks(bytes, g)}}
    BY <1>2, <2>1 DEF Extracted
  <2>3. ASSUME NEW g \in File, Unpacks(bytes, g) PROVE Content[g] = Content[f]
    <3>1. PICK k \in {1, 2} : Packed[k][g] = bytes
      BY <2>3 DEF Unpacks
    <3> DEFINE n == Len(bytes)
    <3>2. n \in 0..Len(Packed[c][f]) /\ SubSeq(Packed[c][f], 1, n) = Packed[k][g]
      BY <2>1, <3>1
    <3> HIDE DEF n
    <3>3. c \in Format \ {0} /\ k \in Format \ {0}
      BY <2>1 DEF Format
    <3> QED
      BY <3>2, <3>3, StreamsAssumption
  <2>4. bytes = Stream(f, c) => Content[f] \in Extracted(v, e, d)
    BY <2>1, <2>2 DEF Unpacks
  <2> QED
    BY <1>2, <2>2, <2>3, <2>4
<1> QED
  BY <1>1, <1>2

(* A dump of whatever is there.                                            *)
LEMMA DumpStep ==
  ASSUME IInv, ImageInv, NEW d \in BOOLEAN, DoDump(d)
  PROVE  DumpsAreRight'
<1> DEFINE es == ReadEntries
           out(i) == Extracted(image[1][2].version, es[i], d)
           stop == {i \in DOMAIN es : out(i) = {}}
           n == IF stop = {} THEN Len(es)
                ELSE (CHOOSE i \in stop : \A j \in stop : i <= j) - 1
           c(i) == CompressionInfo(version, args[i])
           whole(i) == Stream(args[i].file, c(i))
<1>1. /\ args' = args /\ version' = version /\ pc' = pc
      /\ ~Readable => dump' = [NoDump EXCEPT !.ran = TRUE, !.decompress = d]
      /\ Readable => dump' = [ran |-> TRUE, ok |-> stop = {}, decompress |-> d,
                              entries |-> es,
                              blobs |-> [i \in 1..n |-> CHOOSE b \in out(i) : TRUE]]
  BY DEF DoDump
<1>2. CASE ~Readable
  <2>1. pc # "done"
    <3> SUFFICES ASSUME pc = "done" PROVE FALSE
      OBVIOUS
    <3>1. image = Metadata \o buf /\ TypeOK
      BY DEF IInv, Layout
    <3>2. /\ Len(image) = 1 + Len(entries) + Len(buf) /\ image[1] = TableHeader
          /\ Len(entries) \in Nat /\ Len(buf) \in Nat
      BY <3>1, TableIs, Shapes
    <3> QED
      BY <1>2, <3>2 DEF Readable, TableHeader
  <2>2. dump'.ok = FALSE
    BY <1>1, <1>2 DEF NoDump
  <2> QED
    BY <1>1, <2>1, <2>2 DEF DumpsAreRight, DumpReturnsFiles, CutImageDumpsPrefixes
<1>3. CASE Readable
  <2>1. image # << >> /\ Len(args) \in Nat /\ DOMAIN args = 1..Len(args)
    <3>1. Len(image) >= 1
      BY <1>3 DEF Readable
    <3> QED
      BY <3>1, Shapes DEF IInv
  <2> DEFINE bytes(i) == ReadAt(es[i].offset, es[i].size)
  <2>2. ASSUME NEW i \in 1..Len(args)
        PROVE  /\ image[1][2].version = version
               /\ DOMAIN es = 1..Len(args) /\ image[1][2].count = Len(args)
               /\ args[i].file \in File /\ c(i) \in Format
               /\ CompressionInfo(version, es[i]) = c(i)
               /\ es[i].id = args[i].id /\ (version = 1 => es[i].flags = args[i].flags)
               /\ bytes(i) = SubSeq(whole(i), 1, Len(bytes(i)))
               /\ Len(bytes(i)) \in 0..Len(whole(i))
               /\ pc = "done" => bytes(i) = whole(i)
    BY <1>3, <2>1, EntryRead
  <2> HIDE DEF es
  <2>3. ASSUME NEW i \in 1..Len(args)
        PROVE  /\ d /\ c(i) # 0 => \A b \in out(i) : b = Content[args[i].file]
               /\ ~(d /\ c(i) # 0) => out(i) = {bytes(i)}
               /\ pc = "done" => out(i) # {}
    <3> DEFINE f == args[i].file
               k == c(i)
               bs == bytes(i)
    <3>1. /\ f \in File /\ k \in Format /\ CompressionInfo(version, es[i]) = k
          /\ bs = ReadAt(es[i].offset, es[i].size)
          /\ bs = SubSeq(Stream(f, k), 1, Len(bs)) /\ Len(bs) \in 0..Len(Stream(f, k))
          /\ (pc = "done" => bs = Stream(f, k)) /\ out(i) = Extracted(version, es[i], d)
      BY <2>2
    <3> HIDE DEF f, k, bs, out
    <3>2. /\ d /\ k # 0 => \A b \in Extracted(version, es[i], d) : b = Content[f]
          /\ ~(d /\ k # 0) => Extracted(version, es[i], d) = {bs}
          /\ bs = Stream(f, k) => Extracted(version, es[i], d) # {}
      BY <3>1, ExtractedIs
    <3>3. /\ d /\ k # 0 => \A b \in out(i) : b = Content[f]
          /\ ~(d /\ k # 0) => out(i) = {bs}
          /\ pc = "done" => out(i) # {}
      BY <3>1, <3>2
    <3> QED
      BY <3>3 DEF f, k, bs
  <2>4. DOMAIN es = 1..Len(args) /\ Len(es) = Len(args)
    <3>1. es = [i \in 1..image[1][2].count |-> image[i + 1][2]]
      BY DEF es, ReadEntries
    <3>2. image[1][2].count = Len(args)
      BY <1>3, <2>1, CountIs
    <3> QED
      BY <2>1, <3>1, <3>2
  <2>5. ASSUME stop = {}, NEW i \in 1..Len(args)
        PROVE  /\ dump'.blobs[i] \in out(i)
               /\ d /\ c(i) # 0 => dump'.blobs[i] = Content[args[i].file]
               /\ ~(d /\ c(i) # 0) => dump'.blobs[i] = bytes(i)
    <3>1. out(i) # {} /\ n = Len(args)
      BY <2>4, <2>5
    <3>2. dump'.blobs = [j \in 1..n |-> CHOOSE b \in out(j) : TRUE]
      <4> HIDE DEF out, n, stop
      <4> QED
        BY <1>1, <1>3
    <3> HIDE DEF out, n, stop, bytes
    <3>3. dump'.blobs[i] = CHOOSE b \in out(i) : TRUE
      BY <3>1, <3>2
    <3>4. dump'.blobs[i] \in out(i)
      BY <3>1, <3>3
    <3> HIDE DEF c
    <3> QED
      BY <2>3, <3>4
  <2>6. dump'.ok = (stop = {}) /\ dump'.decompress = d /\ dump'.entries = es /\ dump'.ran
    BY <1>1, <1>3
  <2>7. CutImageDumpsPrefixes'
    <3> SUFFICES ASSUME stop = {}, NEW i \in 1..Len(args)
                 PROVE  IF d /\ c(i) # 0 THEN dump'.blobs[i] = Content[args[i].file]
                        ELSE dump'.blobs[i] = SubSeq(whole(i), 1, Len(dump'.blobs[i]))
      <4> HIDE DEF stop
      <4> QED
        BY <1>1, <2>1, <2>6 DEF CutImageDumpsPrefixes, CompressionInfo
    <3> QED
      BY <2>2, <2>5
  <2>8. DumpReturnsFiles'
    <3> SUFFICES ASSUME pc = "done"
                 PROVE  /\ stop = {}
                        /\ Len(es) = Len(args)
                        /\ \A i \in 1..Len(args) :
                             /\ es[i].id = args[i].id
                             /\ version = 1 => es[i].flags = args[i].flags
                             /\ dump'.blobs[i] = IF d THEN Content[args[i].file] ELSE whole(i)
      <4> HIDE DEF stop
      <4> QED
        BY <1>1, <2>1, <2>6 DEF DumpReturnsFiles, CompressionInfo
    <3>1. stop = {}
      BY <2>3, <2>4
    <3>2. ASSUME NEW i \in 1..Len(args)
          PROVE  dump'.blobs[i] = IF d THEN Content[args[i].file] ELSE whole(i)
      <4>1. c(i) = 0 => whole(i) = Content[args[i].file]
        BY DEF Stream
      <4> HIDE DEF stop, c
      <4> QED
        BY <2>2, <2>5, <3>1, <4>1
    <3> QED
      BY <2>2, <2>4, <3>1, <3>2
  <2> QED
    BY <2>7, <2>8 DEF DumpsAreRight
<1> QED
  BY <1>2, <1>3

LEMMA BeginImage ==
  ASSUME NEW v, NEW page_size, NEW asked, Begin(v, page_size, asked)
  PROVE  ImageInv' /\ dump' = NoDump
<1>1. /\ entries' = << >> /\ image' = << >> /\ version' = v /\ dump' = NoDump
      /\ pc' = IF Accepted(v, page_size, asked) THEN "adding" ELSE "failed"
  BY DEF Begin
<1>2. pc' \in {"adding", "writing", "done"} => version' \in {0, 1}
  BY <1>1 DEF Accepted
<1> QED
  BY <1>1, <1>2 DEF ImageInv

(* An entry is appended for the argument that is next.                     *)
LEMMA EntryImage ==
  ASSUME IInv, ImageInv, Adding, NEW offset \in Nat, NEW size \in Nat, AddEntry(offset, size)
  PROVE  ImageInv' /\ dump' = dump
<1>0. TypeOK /\ FilesExist /\ Len(entries) \in Nat /\ entries \in Seq(Entry)
  BY Shapes DEF IInv
<1>1. UNCHANGED << image, pc, version, pageSize, args, dump >>
  BY DEF AddEntry
<1>2. image = << >> /\ pc = "adding"
  BY DEF Adding, ImageInv
<1>3. /\ entries' \in Seq(Entry) /\ Len(entries') = Len(entries) + 1
      /\ entries'[Len(entries) + 1] =
           [file |-> NextArg.file, id |-> NextArg.id, flags |-> NextArg.flags,
            offset |-> offset, size |-> size]
      /\ \A i \in DOMAIN entries : entries'[i] = entries[i]
  BY <1>0, AddEntryType
<1>4. ASSUME NEW i \in DOMAIN entries'
      PROVE  /\ entries'[i].file = args[i].file
             /\ entries'[i].id = args[i].id /\ entries'[i].flags = args[i].flags
  <2>1. i \in DOMAIN entries \/ i = Len(entries) + 1
    BY <1>0, <1>3
  <2>2. CASE i \in DOMAIN entries
    BY <1>3, <2>2 DEF ImageInv
  <2>3. CASE i = Len(entries) + 1
    BY <1>3, <2>3 DEF NextArg
  <2> QED
    BY <2>1, <2>2, <2>3
<1> QED
  BY <1>1, <1>2, <1>4 DEF ImageInv

(* Every step keeps what the image and its dump can be.                    *)
LEMMA ImageStep ==
  ASSUME IInv, ImageInv, DumpInv, DumpsAreRight, [Next]_vars
  PROVE  ImageInv' /\ DumpInv' /\ DumpsAreRight'
<1>0. TypeOK /\ FilesExist /\ Layout
  BY DEF IInv
<1>1. ASSUME dump' = NoDump PROVE DumpInv' /\ DumpsAreRight'
  BY <1>1 DEF NoDump, DumpInv, DumpsAreRight, DumpReturnsFiles, CutImageDumpsPrefixes
<1>2. ASSUME dump' = dump, pc \in {"idle", "config", "adding", "writing"}
      PROVE  DumpInv' /\ DumpsAreRight'
  BY <1>2 DEF DumpInv, DumpsAreRight, DumpReturnsFiles, CutImageDumpsPrefixes
<1>3. ASSUME UNCHANGED << version, pageSize, args, entries, buf, totalSize >>
      PROVE  Metadata' = Metadata
  BY <1>3 DEF Metadata, TableHeader, EntryHeader
<1>4. ASSUME UNCHANGED << image, version, pageSize, args, entries, buf, totalSize >>, image = << >>,
             pc' \in {"adding", "writing", "done"} => version \in {0, 1}
      PROVE  ImageInv'
  BY <1>4 DEF ImageInv
<1>5. CASE Create
  BY <1>1, <1>5, BeginImage DEF Create
<1>6. CASE CfgOpen
  BY <1>2, <1>4, <1>6 DEF CfgOpen, ImageInv
<1>7. CASE CfgLine
  <2>1. /\ pc = "config" /\ pc' \in {"config", "failed"} /\ dump' = dump
        /\ UNCHANGED << image, version, pageSize, args, entries, buf, totalSize >>
    BY <1>7 DEF CfgLine, GlobalLine, OptionLine, NameLine, RefusedLine
  <2> QED
    BY <1>2, <1>4, <2>1 DEF ImageInv
<1>8. CASE CfgEnd
  BY <1>1, <1>8, BeginImage DEF CfgEnd
<1>9. CASE AddDuplicate
  <2>1. PICK i \in DOMAIN entries : AddEntry(entries[i].offset, entries[i].size)
    BY <1>9 DEF AddDuplicate
  <2>2. entries[i].offset \in Nat /\ entries[i].size \in Nat
    BY <1>0, Shapes
  <2>3. Adding /\ pc = "adding"
    BY <1>9 DEF AddDuplicate, Adding
  <2>4. ImageInv' /\ dump' = dump
    <3> HIDE DEF Adding
    <3> QED
      BY <2>1, <2>2, <2>3, EntryImage
  <2> QED
    BY <1>2, <2>3, <2>4
<1>10. CASE AddBlob
  <2> DEFINE blob == Stream(NextArg.file, NextFormat)
  <2>1. Adding /\ pc = "adding" /\ NextFormat \in Format /\ AddEntry(dtOffset, Len(blob))
    BY <1>10 DEF AddBlob, Adding
  <2>2. NextArg.file \in File
    BY <1>0, <2>1 DEF Adding, NextArg, FilesExist, TypeOK
  <2>3. Len(blob) \in Nat /\ dtOffset \in Nat
    <3>1. blob \in Seq(Cell)
      BY <2>1, <2>2, StreamType
    <3> HIDE DEF blob
    <3> QED
      BY <1>0, <3>1, Shapes
  <2> HIDE DEF blob, Adding
  <2>4. ImageInv' /\ dump' = dump
    BY <2>1, <2>3, EntryImage
  <2> QED
    BY <1>2, <2>1, <2>4
<1>11. CASE AddUnknownFormat
  BY <1>2, <1>4, <1>11 DEF AddUnknownFormat, Adding, ImageInv
<1>12. CASE Commit
  BY <1>2, <1>4, <1>12 DEF Commit, ImageInv
<1>13. CASE Flush
  <2> DEFINE F == Metadata \o buf
  <2>1. /\ pc = "writing" /\ pc' = "done" /\ image' = F /\ dump' = dump
        /\ UNCHANGED << version, pageSize, args, entries, buf, totalSize >>
    BY <1>13 DEF Flush
  <2>2. PICK S : F \in Seq(S)
    BY <1>0, TableIs
  <2>3. F' = F
    BY <1>3, <2>1
  <2>4. Len(entries) = Len(args) /\ version \in {0, 1}
    BY <1>0, <2>1 DEF Layout, ImageInv
  <2>5. Len(F) \in 0..Len(F) /\ F = SubSeq(F, 1, Len(F))
    <3> HIDE DEF F
    <3>1. Len(F) \in Nat
      BY <2>2
    <3> QED
      BY <2>2, <3>1
  <2>6. \E n \in 0..Len(F) : image' = SubSeq(F, 1, n)
    <3> HIDE DEF F
    <3> QED
      BY <2>1, <2>5
  <2>7. ImageInv'
    BY <2>1, <2>3, <2>4, <2>6 DEF ImageInv
  <2> QED
    BY <1>2, <2>1, <2>7
<1>14. CASE Kill
  <2> DEFINE F == Metadata \o buf
  <2>1. /\ pc \in {"config", "adding", "writing"} /\ pc' = "killed" /\ dump' = dump
        /\ UNCHANGED << version, pageSize, args, entries, buf, totalSize >>
    BY <1>14 DEF Kill
  <2>2. PICK n \in 0..(IF pc = "writing" THEN Len(F) ELSE 0) : image' = SubSeq(F, 1, n)
    BY <1>14 DEF Kill
  <2>3. F' = F
    BY <1>3, <2>1
  <2>4. ASSUME pc = "writing" PROVE ImageInv'
    <3>1. Len(entries) = Len(args) /\ version \in {0, 1}
      BY <1>0, <2>4 DEF Layout, ImageInv
    <3>2. \E k \in 0..Len(F) : image' = SubSeq(F, 1, k)
      BY <2>2, <2>4
    <3> QED
      BY <2>1, <2>3, <3>1, <3>2 DEF ImageInv
  <2>5. ASSUME pc # "writing" PROVE ImageInv'
    <3>1. image' = << >>
      <4>1. n = 0
        BY <2>2, <2>5
      <4> QED
        BY <2>2, <4>1
    <3> QED
      BY <2>1, <3>1 DEF ImageInv
  <2> QED
    BY <1>2, <2>1, <2>4, <2>5
<1>15. CASE \E decompress \in BOOLEAN : DoDump(decompress)
  <2>1. PICK d \in BOOLEAN : DoDump(d)
    BY <1>15
  <2>2. /\ pc' = pc /\ pc \in {"done", "failed", "killed"}
        /\ UNCHANGED << image, version, pageSize, args, entries, buf, totalSize >>
    BY <2>1 DEF DoDump, NotCreating
  <2>3. Metadata' = Metadata
    BY <1>3, <2>2
  <2>4. ImageInv'
    BY <2>2, <2>3 DEF ImageInv
  <2>5. DumpInv'
    BY <2>2 DEF DumpInv
  <2>6. DumpsAreRight'
    BY <2>1, DumpStep
  <2> QED
    BY <2>4, <2>5, <2>6
<1>16. CASE UNCHANGED vars
  <2>1. UNCHANGED << image, pc, version, pageSize, args, entries, buf, totalSize, dump >>
    BY <1>16 DEF vars
  <2>2. Metadata' = Metadata
    BY <1>3, <2>1
  <2>3. ImageInv' /\ DumpInv'
    BY <2>1, <2>2 DEF ImageInv, DumpInv
  <2>4. DumpReturnsFiles' /\ CutImageDumpsPrefixes'
    BY <2>1 DEF DumpsAreRight, DumpReturnsFiles, CutImageDumpsPrefixes, CompressionInfo
  <2> QED
    BY <2>3, <2>4 DEF DumpsAreRight
<1> QED
  BY <1>5, <1>6, <1>7, <1>8, <1>9, <1>10, <1>11, <1>12, <1>13, <1>14, <1>15, <1>16 DEF Next

LEMMA DumpsHold == Spec => [](ImageInv /\ DumpInv /\ DumpsAreRight)
<1>1. Init => ImageInv /\ DumpInv /\ DumpsAreRight
  BY DEF Init, ImageInv, DumpInv, DumpsAreRight, DumpReturnsFiles, CutImageDumpsPrefixes, NoDump
<1>2. IInv /\ (ImageInv /\ DumpInv /\ DumpsAreRight) /\ [Next]_vars
        => (ImageInv /\ DumpInv /\ DumpsAreRight)'
  BY ImageStep
<1> QED
  BY <1>1, <1>2, LayoutHolds, PTL DEF Spec

(* DumpReturnsFiles: a dump of a finished image gives back the files, ids  *)
(* and flags that were asked for.                                          *)
THEOREM DumpsReturn == Spec => []DumpReturnsFiles
<1>1. DumpsAreRight => DumpReturnsFiles
  BY DEF DumpsAreRight
<1> QED
  BY <1>1, DumpsHold, PTL

(* CutImageDumpsPrefixes: a dump that succeeds on an image cut anywhere    *)
(* gives beginnings of the right streams, and whole files if decompressed. *)
THEOREM CutDumpsAreBeginnings == Spec => []CutImageDumpsPrefixes
<1>1. DumpsAreRight => CutImageDumpsPrefixes
  BY DEF DumpsAreRight
<1> QED
  BY <1>1, DumpsHold, PTL
=============================================================================
