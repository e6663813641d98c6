-------------------------- MODULE AvbFootersProofs --------------------------
(***************************************************************************)
(* The footer commands on images of any size, raw or sparse, with any      *)
(* partition sizes and in any order, with writes that fail, tools that fail*)
(* and kills: an inductive invariant that says what the file holds at each *)
(* point of each command, and the properties of AvbFooters that follow.    *)
(***************************************************************************)
EXTENDS AvbFooters, ImageHandlerLemmas

-----------------------------------------------------------------------------
(* What the operators of AvbFooters return: the layout that an image has   *)
(* once it is signed and what is read back of it, the size of a hash tree, *)
(* and how a write that fails or that is cut short leaves the file.  A torn*)
(* file never ends with a footer, and truncating it to the size of the     *)
(* original image gives that image back.                                   *)
NoFooters(s) == \A i \in 1..Len(s) : ~IsFooter(s[i])
Starts(s, b) == Len(b) <= Len(s) /\ SubSeq(s, 1, Len(b)) = b

(* What FooterVerifies says of the file.                                   *)
Verifies(file) ==
  LET h == Open(file)
      f == Footer(h)
      d == Descriptor(h)
      cells == Content(file)
  IN  ~h.raised /\ HasFooter(h) =>
        /\ ParsesImage(h)
        /\ SubSeq(cells, f.vbmeta_offset + 1, f.vbmeta_offset + f.vbmeta_size)
             = VbmetaBlob(d)
        /\ d.kind # "none" => SubSeq(cells, 1, d.image_size) = d.digest
        /\ f.original_image_size <= f.vbmeta_offset

Harmless(f, b) == (HeaderAccepted(f) => Starts(Content(f), b)) /\ Verifies(f)

BaseOK(b, sparse) ==
  /\ b \in Seq(Cell) /\ NoFooters(b)
  /\ IF sparse THEN Len(b) % BlockSize = 0 ELSE Len(b) >= HeaderLen

RollsBackTo(h, b) ==
  LET f == Truncate([h EXCEPT !.raised = FALSE], Len(b)).file
  IN  /\ f.sparse = h.file.sparse
      /\ Rests(f, b) \/ ("raise" \in Faults /\ f.sparse /\ Harmless(f, b))

LEMMA LastPiece ==
  ASSUME NEW s \in Seq(Cell), NEW p \in Nat, p < Len(s)
  PROVE  Piece(s, p, 1) = << s[p + 1] >>
<1>1. Piece(s, p, 1) = SubSeq(s, p + 1, p + 1)
  BY DEF Piece
<1>2. p + 1 \in 1..Len(s)
  OBVIOUS
<1> QED
  BY <1>1, <1>2

LEMMA FooterHeld ==
  ASSUME NEW g, NEW s, Holds(g, s)
  PROVE  /\ HasFooter(g) <=> (Len(s) > 0 /\ IsFooter(s[Len(s)]))
         /\ HasFooter(g) => Footer(g) = s[Len(s)]
<1>1. s \in Seq(Cell) /\ Len(s) \in Nat /\ g.mem.image_size = Len(s)
  BY HoldsSize
<1>2. CASE Len(s) > 0
  <2>1. Len(s) - 1 \in Nat /\ Len(s) - 1 < Len(s) /\ (Len(s) - 1) + 1 = Len(s)
    BY <1>1, <1>2
  <2>2. Read(g, Len(s) - 1, 1).cells = Piece(s, Len(s) - 1, 1)
    BY <1>2, <2>1, ReadHolds
  <2>3. Piece(s, Len(s) - 1, 1) = << s[(Len(s) - 1) + 1] >>
    BY <1>1, <2>1, LastPiece
  <2>4. LastCell(g) = << s[Len(s)] >>
    BY <1>1, <2>1, <2>2, <2>3 DEF LastCell
  <2> QED
    BY <1>1, <1>2, <2>4 DEF HasFooter, Footer
<1>3. CASE ~(Len(s) > 0)
  BY <1>1, <1>3 DEF HasFooter
<1> QED
  BY <1>2, <1>3

LEMMA NoFooterHarmless ==
  ASSUME NEW g, NEW s, Holds(g, s), NoFooters(s), NEW b, Starts(s, b)
  PROVE  ~HasFooter(g) /\ Harmless(g.file, b)
<1>1. s \in Seq(Cell) /\ Len(s) \in Nat
  BY HoldsSize
<1>2. ~HasFooter(g)
  <2>1. Len(s) > 0 => Len(s) \in 1..Len(s)
    BY <1>1
  <2> QED
    BY <2>1, FooterHeld DEF NoFooters
<1>3. g = Open(g.file) /\ Content(g.file) = s
  BY HoldsIsOpen DEF Holds
<1>4. Verifies(g.file)
  BY <1>2, <1>3 DEF Verifies
<1> QED
  BY <1>2, <1>3, <1>4 DEF Harmless

LEMMA CutBack ==
  ASSUME NEW s \in Seq(Cell), NEW b \in Seq(Cell), Starts(s, b)
  PROVE  Resized(s, Len(b)) = b /\ Len(b) \in Nat
BY DEF Starts, Resized

(* Nothing was written: the rollback cuts the image.                       *)
LEMMA RollsBackCut ==
  ASSUME NEW g, NEW s, Holds(g, s), NEW b, Starts(s, b),
         BaseOK(b, g.file.sparse)
  PROVE  LET f == Truncate(g, Len(b)).file
         IN  f.sparse = g.file.sparse /\ Rests(f, b)
<1>1. b \in Seq(Cell) /\ Len(b) \in Nat /\ s \in Seq(Cell)
  BY HoldsSize DEF BaseOK
<1>2. /\ g.file.sparse => Len(b) % BlockSize = 0
      /\ ~g.file.sparse => Len(b) >= HeaderLen
  BY DEF BaseOK
<1>3. /\ Holds(Truncate(g, Len(b)), Resized(s, Len(b)))
      /\ Truncate(g, Len(b)).file.sparse = g.file.sparse
  BY <1>1, <1>2, TruncateHolds
<1>4. Resized(s, Len(b)) = b
  BY <1>1, CutBack
<1> QED
  BY <1>3, <1>4, HoldsIsOpen

LEMMA RaisingRollsBack ==
  ASSUME NEW g, NEW s, Holds(g, s), NEW b, Starts(s, b), NoFooters(s),
         BaseOK(b, g.file.sparse)
  PROVE  /\ Raising(g).raised = TRUE /\ Raising(g).file = g.file
         /\ Raising(g).mem = g.mem
         /\ Harmless(Raising(g).file, b) /\ RollsBackTo(Raising(g), b)
<1>1. g \in Handler /\ g.raised = FALSE
  BY DEF Holds, Sound, Handler
<1>2. /\ Raising(g).raised = TRUE /\ Raising(g).file = g.file
      /\ Raising(g).mem = g.mem
      /\ [Raising(g) EXCEPT !.raised = FALSE] = g
  BY <1>1 DEF Raising, Handler
<1>3. Harmless(g.file, b)
  BY NoFooterHarmless
<1>4. /\ Truncate(g, Len(b)).file.sparse = g.file.sparse
      /\ Rests(Truncate(g, Len(b)).file, b)
  BY RollsBackCut
<1> HIDE DEF Raising
<1> QED
  BY <1>2, <1>3, <1>4 DEF RollsBackTo

LEMMA TornRaw ==
  ASSUME NEW g, NEW s, Holds(g, s), ~g.file.sparse, NEW b, Starts(s, b),
         BaseOK(b, g.file.sparse), NEW p \in Seq(Cell), NoFooters(s \o p)
  PROVE  LET h == [g EXCEPT !.file = [g.file EXCEPT !.bytes = @ \o p],
                            !.raised = TRUE]
         IN  /\ h.raised = TRUE /\ h.mem = g.mem
             /\ h.file.sparse = g.file.sparse
             /\ Harmless(h.file, b) /\ RollsBackTo(h, b)
<1> DEFINE h == [g EXCEPT !.file = [g.file EXCEPT !.bytes = @ \o p],
                          !.raised = TRUE]
           f == [g.file EXCEPT !.bytes = @ \o p]
           o == Open(f)
<1>1. /\ s \in Seq(Cell) /\ Len(s) \in Nat /\ ~g.mem.sparse
  BY HoldsSize
<1>2. AppendRaw(g, p) = o /\ f.sparse = g.file.sparse
  BY <1>1 DEF AppendRaw, AppendBytes, Holds, Sound, Handler, File
<1>3. Holds(AppendRaw(g, p), s \o p)
  BY AppendRawHolds
<1>4. Holds(o, s \o p)
  BY <1>2, <1>3
<1> HIDE DEF f
<1>13. /\ h.raised = TRUE /\ h.mem = g.mem /\ h.file = f
       /\ [h EXCEPT !.raised = FALSE].mem = g.mem
       /\ [h EXCEPT !.raised = FALSE].file = f
  BY DEF f, Holds, Sound, Handler
<1> HIDE DEF h
<1>5. o.file = f
  BY OpenKeepsFile
<1>6. b \in Seq(Cell) /\ Len(b) \in Nat /\ Len(b) <= Len(s) /\ b = SubSeq(s, 1, Len(b))
  BY <1>1 DEF BaseOK, Starts
<1>7. Starts(s \o p, b)
  <2>1. s \o p \in Seq(Cell) /\ Len(s \o p) = Len(s) + Len(p) /\ Len(p) \in Nat
    BY <1>1, LengthOfConcat
  <2>2. SubSeq(s \o p, 1, Len(b)) = SubSeq(s, 1, Len(b))
    BY <1>1, <1>6
  <2> QED
    BY <1>1, <1>6, <2>1, <2>2 DEF Starts
<1>8. ~o.mem.sparse
  <2>1. o.mem.sparse = o.file.sparse
    BY <1>4, HoldsSize
  <2> QED
    BY <1>2, <1>5, <2>1
<1>9. Harmless(f, b)
  BY <1>4, <1>5, <1>7, NoFooterHarmless
<1>10. Truncate(o, Len(b)) = Open(ResizeBytes(f, Len(b)))
  BY <1>5, <1>8 DEF Truncate
<1>11. Truncate([h EXCEPT !.raised = FALSE], Len(b)) = Open(ResizeBytes(f, Len(b)))
  BY <1>1, <1>13 DEF Truncate
<1>12. /\ Truncate(o, Len(b)).file.sparse = o.file.sparse
       /\ Rests(Truncate(o, Len(b)).file, b)
  BY <1>2, <1>4, <1>5, <1>7, RollsBackCut
<1> HIDE DEF o
<1>14. /\ h.raised = TRUE /\ h.mem = g.mem
       /\ h.file.sparse = g.file.sparse
       /\ Harmless(h.file, b) /\ RollsBackTo(h, b)
  BY <1>2, <1>5, <1>9, <1>10, <1>11, <1>12, <1>13 DEF RollsBackTo
<1> QED
  BY <1>14 DEF h

(* A failed write left a chunk with fewer cells than it announces: the     *)
(* last cell of the image is not there to be read.                         *)
LEMMA LastCellTorn ==
  ASSUME NEW g, Sound(g), ~g.raised, g.file.sparse,
         NEW n \in Nat, n > 0, n = Len(g.file.chunks),
         g.file.chunks[n].type = "RAW",
         Len(g.file.chunks[n].data) < g.file.chunks[n].sz * BlockSize
  PROVE  ~HasFooter(g)
<1> DEFINE cs == g.file.chunks
           t == g.mem.chunks
           e == OutputEnd(cs)
           c == cs[n]
           len == c.sz * BlockSize
           p == g.mem.image_size - 1
<1>1. /\ g.file \in File /\ Plain(g.file) /\ g.mem = ReadHeader(g.file)
      /\ cs \in Seq(Chunk) /\ g.mem.sparse
  BY SparseRemembered DEF Sound, Handler, File
<1>2. /\ g.mem.image_size = e[n] /\ t = Table(cs)
  BY <1>1 DEF ReadHeader
<1>3. /\ Len(t) = n /\ t # << >>
      /\ t[n].type = c.type /\ t[n].at = n /\ t[n].off = e[n - 1] /\ t[n].size = len
  <2>1. t = [k \in 1..Len(cs) |->
              [type |-> cs[k].type,
               at   |-> k,
               off  |-> OutputEnd(cs)[k - 1],
               size |-> cs[k].sz * BlockSize,
               fill |-> IF cs[k].type = "FILL" THEN cs[k].data
                        ELSE << >>]]
    BY <1>1, <1>2, PlainTable
  <2> HIDE DEF cs, t
  <2>2. n = Len(cs) /\ n \in 1..n
    BY DEF cs
  <2>3. t # << >>
    <3>1. DOMAIN t = 1..n /\ 1 \in 1..n
      BY <2>1, <2>2
    <3> QED
      BY <3>1
  <2> QED
    BY <2>1, <2>2, <2>3
<1>4. c \in Chunk /\ len \in Nat /\ c.data \in Seq(Cell) /\ Len(c.data) \in Nat
  <2>1. n \in 1..Len(cs)
    OBVIOUS
  <2>2. c \in Chunk
    BY <1>1, <2>1
  <2> QED
    BY <2>2, ChunkOutput DEF Chunk
<1>5. /\ e[n] = e[n - 1] + len /\ e[n - 1] \in Nat /\ e[n] \in Nat
  <2>1. n \in 1..Len(cs) /\ n - 1 \in 0..Len(cs) /\ n \in 0..Len(cs)
    OBVIOUS
  <2> HIDE DEF cs
  <2> QED
    BY <1>1, <2>1, OutputEndStep, OutputEndType
<1> HIDE DEF e, c, len, cs, t
<1>6. len > 0 /\ Len(c.data) <= len - 1 /\ c.type = "RAW"
  BY <1>4 DEF c, len, cs
<1>7. p = e[n - 1] + (len - 1) /\ p \in Nat
  BY <1>2, <1>5, <1>4, <1>6
<1> HIDE DEF p
<1>8. PICK turn :
        LET first == EntryAt(t, p)
        IN  /\ first \in 1..n /\ t[first].off <= p
            /\ \A l \in (first + 1)..n : t[l].off > p
            /\ Read(g, p, 1) = turn[n]
            /\ turn[first - 1] =
                 [pos |-> p, to_go |-> 1, cells |-> << >>, raised |-> FALSE]
            /\ \A j \in first..n : turn[j] = ReadEntry(g.file, turn[j - 1], t[j])
  <2>1. 1 \in Nat /\ 1 > 0 /\ g.mem.chunks # << >>
    BY <1>3 DEF t
  <2>2. LET first == EntryAt(g.mem.chunks, p)
        IN  /\ first \in 1..Len(g.mem.chunks) /\ g.mem.chunks[first].off <= p
            /\ \A l \in (first + 1)..Len(g.mem.chunks) : g.mem.chunks[l].off > p
            /\ \E turn :
                 /\ Read(g, p, 1) = turn[Len(g.mem.chunks)]
                 /\ turn[first - 1] =
                      [pos |-> p, to_go |-> 1, cells |-> << >>, raised |-> FALSE]
                 /\ \A j \in first..Len(g.mem.chunks) :
                      turn[j] = ReadEntry(g.file, turn[j - 1], g.mem.chunks[j])
    <3>1. Sound(g) /\ ~g.raised /\ g.mem.sparse /\ p \in Nat
      BY <1>1, <1>7
    <3> QED
      BY <3>1, <2>1, ReadLoop, Zenon
  <2>3. g.mem.chunks = t /\ Len(t) = n
    BY <1>3 DEF t
  <2> HIDE DEF t
  <2> QED
    BY <2>2, <2>3
<1>9. EntryAt(t, p) = n
  <2> DEFINE first == EntryAt(t, p)
  <2>1. first \in 1..n /\ \A l \in (first + 1)..n : t[l].off > p
    BY <1>8
  <2>2. t[n].off <= p
    BY <1>3, <1>4, <1>5, <1>6, <1>7
  <2>3. t[n].off \in Nat
    BY <1>3, <1>5
  <2> HIDE DEF first
  <2>4. first # n => n \in (first + 1)..n
    BY <2>1
  <2>5. first = n
    BY <1>7, <2>1, <2>2, <2>3, <2>4
  <2> QED
    BY <2>5 DEF first
<1>10. /\ turn[n - 1] = [pos |-> p, to_go |-> 1, cells |-> << >>, raised |-> FALSE]
       /\ Read(g, p, 1) = ReadEntry(g.file, turn[n - 1], t[n])
  <2>1. n \in n..n
    OBVIOUS
  <2> QED
    BY <1>8, <1>9, <2>1
<1>11. Read(g, p, 1).cells = << >>
  <2> DEFINE r == [pos |-> p, to_go |-> 1, cells |-> << >>, raised |-> FALSE]
  <2>1. p - t[n].off = len - 1 /\ t[n].size - (p - t[n].off) = 1
    BY <1>3, <1>4, <1>5, <1>7
  <2>2. Least(1, 1) = 1
    BY DEF Least
  <2>3. ReadEntry(g.file, r, t[n]).cells = << >> \o Held(g.file, t[n], len - 1, 1)
    BY <2>1, <2>2 DEF ReadEntry
  <2>4. Held(g.file, t[n], len - 1, 1) =
          SubSeq(c.data, len, Least(len, Len(c.data)))
    <3>1. (len - 1) + 1 = len
      BY <1>4
    <3> QED
      BY <1>3, <1>6, <3>1 DEF Held, c, cs
  <2>5. Least(len, Len(c.data)) = Len(c.data) /\ Len(c.data) < len
    BY <1>4, <1>6 DEF Least
  <2>6. SubSeq(c.data, len, Len(c.data)) = << >>
    BY <1>4, <1>6, <2>5
  <2> QED
    BY <1>10, <2>3, <2>4, <2>5, <2>6
<1> QED
  BY <1>11 DEF HasFooter, LastCell, p

(* What is cut off does not depend on the counters, which are set, nor on  *)
(* a chunk behind those of the table.                                      *)
LEMMA CutOfTorn ==
  ASSUME NEW g, NEW s, Holds(g, s), g.file.sparse,
         NEW size \in Nat, size % BlockSize = 0, size < Len(s),
         NEW h, h.mem.chunks = g.mem.chunks, h.file \in File,
         h.file.sparse = g.file.sparse, h.file.bytes = g.file.bytes,
         Len(h.file.chunks) >= Len(g.file.chunks),
         \A i \in 1..Len(g.file.chunks) : h.file.chunks[i] = g.file.chunks[i]
  PROVE  Cut(h, size).file = Cut(g, size).file
<1> DEFINE t == g.mem.chunks
           cs == g.file.chunks
           ds == h.file.chunks
           k == EntryAt(t, size)
           at == t[k].at
           keep == size - t[k].off
           short(xs) == [xs[at] EXCEPT
                           !.sz = keep \div BlockSize,
                           !.data = IF t[k].type = "RAW"
                                    THEN SubSeq(@, 1, Least(keep, Len(@))) ELSE @]
           left(xs) == IF keep = 0 THEN SubSeq(xs, 1, at - 1)
                       ELSE SubSeq(xs, 1, at - 1) \o << short(xs) >>
           cut(x, xs) == [x.file EXCEPT
                            !.chunks = left(xs),
                            !.total_chunks = IF keep = 0 THEN k - 1 ELSE k,
                            !.total_blocks = size \div BlockSize]
<1>1. /\ Sound(g) /\ ~g.raised /\ g.mem.sparse /\ size < g.mem.image_size
      /\ g.file \in File
  BY HoldsSize DEF Holds, Sound, Handler
<1>2. k \in 1..Len(cs)
  BY <1>1, CutSound
<1>3. at \in 1..Len(cs)
  <2>1. /\ \A i \in 1..Len(g.mem.chunks) : g.mem.chunks[i].at \in 1..Len(g.file.chunks)
    BY <1>1, TableEntries, Zenon
  <2>2. Len(g.mem.chunks) = Len(cs)
    <3>1. g.mem.chunks = Table(cs) /\ Plain(g.file)
      BY <1>1 DEF Sound, ReadHeader
    <3>2. Table(cs) = [i \in 1..Len(cs) |->
              [type |-> cs[i].type,
               at   |-> i,
               off  |-> OutputEnd(cs)[i - 1],
               size |-> cs[i].sz * BlockSize,
               fill |-> IF cs[i].type = "FILL" THEN cs[i].data
                        ELSE << >>]]
      BY <1>1, <3>1, PlainTable
    <3>3. Len(cs) \in Nat
      BY <1>1 DEF File
    <3> HIDE DEF cs
    <3> QED
      BY <3>1, <3>2, <3>3
  <2> QED
    BY <1>2, <2>1, <2>2
<1>4. cs \in Seq(Chunk) /\ ds \in Seq(Chunk) /\ Len(cs) \in Nat /\ Len(ds) \in Nat
  BY <1>1 DEF File
<1>5. Cut(g, size) = Open(cut(g, cs)) /\ Cut(h, size) = Open(cut(h, ds))
  BY DEF Cut
<1>6. cut(g, cs) = cut(h, ds)
  <2>1. ds[at] = cs[at]
    BY <1>3
  <2>2. SubSeq(ds, 1, at - 1) = SubSeq(cs, 1, at - 1)
    <3> HIDE DEF cs, ds, at
    <3>1. at \in Nat /\ at - 1 \in Nat /\ at - 1 <= Len(cs) /\ at - 1 <= Len(ds)
      BY <1>3, <1>4 DEF cs, ds
    <3>2. \A i \in 1..(at - 1) : ds[i] = cs[i]
      BY <1>3, <1>4, <3>1 DEF cs, ds
    <3> QED
      BY <1>4, <3>1, <3>2
  <2>3. short(ds) = short(cs)
    BY <2>1
  <2>4. left(ds) = left(cs)
    BY <2>2, <2>3
  <2> HIDE DEF left, k, keep
  <2>5. g.file.sparse = h.file.sparse /\ g.file.bytes = h.file.bytes
    OBVIOUS
  <2>6. g.file \in File /\ h.file \in File
    BY <1>1
  <2> QED
    BY <2>4, <2>5, <2>6 DEF File
<1> HIDE DEF cut
<1> QED
  BY <1>5, <1>6, OpenKeepsFile

LEMMA CountedRefused ==
  ASSUME NEW g, NEW s, Holds(g, s), g.file.sparse, NEW blocks \in Nat
  PROVE  LET counted == CountChunk(g, blocks)
             f == counted.file
         IN  /\ f \in File /\ f.sparse = g.file.sparse /\ f.bytes = g.file.bytes
             /\ f.chunks = g.file.chunks
             /\ ~HeaderAccepted(f)
             /\ counted.mem.chunks = g.mem.chunks
             /\ counted.mem.image_size = g.mem.image_size
             /\ counted.mem.sparse = g.mem.sparse
             /\ counted.mem.sparse_end = g.mem.sparse_end
             /\ counted \in Handler
<1>1. /\ g \in Handler /\ g.file \in File /\ g.mem \in Memory
      /\ HeaderAccepted(g.file) /\ g.mem = ReadHeader(g.file)
  BY DEF Holds, Sound, Handler
<1>2. /\ g.mem.total_chunks = Len(g.file.chunks) /\ Len(g.file.chunks) \in Nat
      /\ g.mem.total_blocks \in Int
  BY <1>1 DEF HeaderAccepted, ReadHeader, File, Memory
<1> DEFINE mem == [g.mem EXCEPT !.total_chunks = @ + 1, !.total_blocks = @ + blocks]
           f == [g.file EXCEPT !.total_chunks = mem.total_chunks,
                               !.total_blocks = mem.total_blocks]
<1>3. /\ mem.total_chunks = Len(g.file.chunks) + 1
      /\ mem.total_blocks = g.mem.total_blocks + blocks
      /\ mem.chunks = g.mem.chunks /\ mem.image_size = g.mem.image_size
      /\ mem.sparse = g.mem.sparse /\ mem.sparse_end = g.mem.sparse_end
      /\ mem \in Memory
  <2>1. g.mem.total_chunks + 1 \in Nat /\ g.mem.total_blocks + blocks \in Int
    BY <1>2
  <2>2. g.mem \in Memory
    BY <1>1
  <2>3. /\ mem.total_chunks = g.mem.total_chunks + 1
        /\ mem.total_blocks = g.mem.total_blocks + blocks
        /\ mem.chunks = g.mem.chunks /\ mem.image_size = g.mem.image_size
        /\ mem.sparse = g.mem.sparse /\ mem.sparse_end = g.mem.sparse_end
    BY <2>2 DEF Memory
  <2>4. mem \in Memory
    BY <2>1, <2>2 DEF Memory
  <2> HIDE DEF mem
  <2> QED
    BY <1>2, <2>3, <2>4
<1>4. CountChunk(g, blocks) = [g EXCEPT !.mem = mem, !.file = f]
  <2> DEFINE first == [g EXCEPT !.mem = mem]
  <2>1. CountChunk(g, blocks) =
          [g EXCEPT !.mem = mem, !.file.total_chunks = mem.total_chunks,
                    !.file.total_blocks = mem.total_blocks]
    BY DEF CountChunk
  <2> HIDE DEF mem
  <2> QED
    BY <1>1, <2>1 DEF Handler
<1> HIDE DEF mem
<1>5. /\ f \in File /\ f.sparse = g.file.sparse /\ f.bytes = g.file.bytes
      /\ f.chunks = g.file.chunks /\ f.total_chunks = Len(g.file.chunks) + 1
  <2>1. mem.total_chunks \in Nat /\ mem.total_blocks \in Int
    BY <1>3 DEF Memory
  <2> DEFINE tc == mem.total_chunks
             tb == mem.total_blocks
  <2> HIDE DEF tc, tb
  <2>2. [g.file EXCEPT !.total_chunks = tc, !.total_blocks = tb] = f
    BY DEF tc, tb
  <2>3. tc \in Nat /\ tb \in Int /\ g.file \in File
    BY <1>1, <2>1 DEF tc, tb
  <2> HIDE DEF f
  <2>4. /\ f \in File /\ f.sparse = g.file.sparse /\ f.bytes = g.file.bytes
        /\ f.chunks = g.file.chunks /\ f.total_chunks = tc
    BY <2>2, <2>3 DEF File
  <2> QED
    BY <1>3, <2>4 DEF tc
<1> HIDE DEF f
<1>6. ~HeaderAccepted(f)
  BY <1>2, <1>5 DEF HeaderAccepted
<1>7. /\ CountChunk(g, blocks).file = f /\ CountChunk(g, blocks).mem = mem
      /\ CountChunk(g, blocks) \in Handler
  BY <1>1, <1>3, <1>4, <1>5 DEF Handler
<1> QED
  BY <1>3, <1>5, <1>6, <1>7

LEMMA PrefixType ==
  ASSUME NEW data \in Seq(Cell), NEW p \in Prefixes(data)
  PROVE  /\ p \in Seq(Cell) /\ Len(p) \in Nat /\ Len(p) < Len(data)
         /\ \A i \in 1..Len(p) : p[i] = data[i]
<1>1. PICK k \in 0..(Len(data) - 1) : p = SubSeq(data, 1, k)
  BY DEF Prefixes
<1>2. k \in Nat /\ k < Len(data) /\ Len(data) \in Nat
  OBVIOUS
<1>3. /\ SubSeq(data, 1, k) \in Seq(Cell) /\ Len(SubSeq(data, 1, k)) = k
      /\ \A i \in 1..k : SubSeq(data, 1, k)[i] = data[i]
  BY <1>2
<1> QED
  BY <1>1, <1>2, <1>3

(* What a failed write leaves in a sparse file is refused, or is read as   *)
(* the image with a chunk more that has no footer.                         *)
LEMMA TornChunk ==
  ASSUME NEW g, NEW s, Holds(g, s), g.file.sparse, NEW b, Starts(s, b),
         NEW c \in Chunk, c.type = "RAW", Len(c.data) < c.sz * BlockSize
  PROVE  LET f == WriteChunk(CountChunk(g, c.sz), c)
         IN  /\ f \in File /\ f.sparse = g.file.sparse /\ f.bytes = g.file.bytes
             /\ Len(f.chunks) >= Len(g.file.chunks)
             /\ \A i \in 1..Len(g.file.chunks) : f.chunks[i] = g.file.chunks[i]
             /\ Harmless(f, b)
<1> DEFINE f == WriteChunk(CountChunk(g, c.sz), c)
           o == AppendChunk(g, c)
           cs == g.file.chunks
           n == Len(cs)
           t == Content(f)
<1>1. o = Open(f)
  BY DEF AppendChunk
<1>2. Sound(g) /\ ~g.raised /\ g.mem.sparse /\ g.file \in File /\ Content(g.file) = s
  BY HoldsSize DEF Holds, Sound, Handler
<1>3. /\ cs \in Seq(Chunk) /\ n \in Nat /\ c.sz \in Nat /\ c.type # "CRC32"
      /\ g.file.sparse \in BOOLEAN
  BY <1>2 DEF File, Chunk
<1>4. /\ Sound(o) /\ o.file.sparse /\ Len(o.file.chunks) = n + 1
      /\ \A i \in 1..n : o.file.chunks[i] = cs[i]
      /\ o.file.chunks[n + 1] = c
  BY <1>2, <1>3, AppendChunkSound
<1>5. f.bytes = g.file.bytes
  <2> DEFINE k == CountChunk(g, c.sz)
             ds == SubSeq(k.file.chunks, 1, k.mem.sparse_end) \o << c >>
  <2>1. k.file \in File /\ k.file.bytes = g.file.bytes
    BY <1>3, CountedRefused
  <2>2. f = [k.file EXCEPT !.chunks = ds]
    BY DEF WriteChunk
  <2> HIDE DEF k, ds
  <2> QED
    BY <2>1, <2>2 DEF File
<1> HIDE DEF o, f
<1>6. o.file = f
  BY <1>1, OpenKeepsFile
<1>7. f \in File /\ f.sparse = g.file.sparse /\ HeaderAccepted(f) /\ ~o.raised
  <2>1. f \in File /\ HeaderAccepted(f)
    BY <1>4, <1>6 DEF Sound, Handler
  <2>2. f.sparse \in BOOLEAN
    BY <2>1 DEF File
  <2> QED
    BY <1>1, <1>3, <1>4, <1>6, <2>1, <2>2 DEF Open
<1>8. ~HasFooter(o)
  <2>1. n + 1 \in Nat /\ n + 1 > 0 /\ n + 1 = Len(o.file.chunks)
    BY <1>3, <1>4
  <2> QED
    BY <1>4, <1>7, <2>1, LastCellTorn
<1>9. Verifies(f)
  BY <1>1, <1>8 DEF Verifies
<1>10. Starts(t, b)
  <2>1. OutputEnd(f.chunks)[n + 1] = OutputEnd(cs)[n] + c.sz * BlockSize
    <3> DEFINE ds == f.chunks
    <3>1. n \in 0..Len(cs) /\ ds \in Seq(Chunk)
      BY <1>3, <1>7 DEF File
    <3>2. /\ Len(ds) = n + 1 /\ ds[n + 1] = c
          /\ \A i \in 1..n : ds[i] = cs[i]
      BY <1>4, <1>6
    <3> HIDE DEF ds, n, cs
    <3> QED
      BY <1>3, <3>1, <3>2, OutputEndAfter DEF ds
  <2>2. Len(s) = OutputEnd(cs)[n] /\ s \in Seq(Cell) /\ Len(s) \in Nat
    BY <1>2, ContentType
  <2>3. t \in Seq(Cell) /\ Len(t) = OutputEnd(f.chunks)[n + 1]
    BY <1>4, <1>6, <1>7, ContentType
  <2>4. c.sz * BlockSize \in Nat
    BY ChunkOutput
  <2>5. Len(t) >= Len(s)
    BY <2>1, <2>2, <2>3, <2>4
  <2>6. \A p \in 1..OutputEnd(g.file.chunks)[n] : Content(f)[p] = Content(g.file)[p]
    <3>1. n <= Len(g.file.chunks) /\ n <= Len(f.chunks)
      BY <1>3, <1>4, <1>6
    <3>2. \A i \in 1..n : g.file.chunks[i] = f.chunks[i]
      BY <1>4, <1>6
    <3> QED
      BY <1>2, <1>3, <1>7, <3>1, <3>2, ContentPrefix
  <2>7. \A p \in 1..Len(s) : t[p] = s[p]
    BY <1>2, <2>2, <2>6
  <2> HIDE DEF t
  <2>8. Len(b) <= Len(s) /\ b = SubSeq(s, 1, Len(b))
    BY DEF Starts
  <2>9. Len(b) \in Nat
    <3>1. SubSeq(s, 1, Len(b)) \in Seq(Cell)
      BY <2>2, <2>8
    <3> QED
      BY <2>8, <3>1
  <2>10. SubSeq(t, 1, Len(b)) = SubSeq(s, 1, Len(b))
    BY <2>2, <2>3, <2>5, <2>7, <2>8, <2>9
  <2> QED
    BY <2>2, <2>3, <2>5, <2>8, <2>9, <2>10 DEF Starts
<1>11. /\ f \in File /\ f.sparse = g.file.sparse /\ f.bytes = g.file.bytes
       /\ Len(f.chunks) >= Len(g.file.chunks)
       /\ \A i \in 1..Len(g.file.chunks) : f.chunks[i] = g.file.chunks[i]
       /\ Harmless(f, b)
  BY <1>3, <1>4, <1>5, <1>6, <1>7, <1>9, <1>10 DEF Harmless
<1> QED
  BY <1>11 DEF f

LEMMA TornSparse ==
  ASSUME NEW g, NEW s, Holds(g, s), g.file.sparse, NEW b, Starts(s, b),
         BaseOK(b, g.file.sparse), "raise" \in Faults,
         NEW data \in Seq(Cell), Len(data) % BlockSize = 0,
         NEW f \in TornFiles(g, data, Len(data) \div BlockSize)
  PROVE  LET h == [CountChunk(g, Len(data) \div BlockSize) EXCEPT
                     !.file = f, !.raised = TRUE]
         IN  /\ h.raised = TRUE /\ h.mem.sparse = g.mem.sparse
             /\ h.mem.image_size = g.mem.image_size
             /\ h.file.sparse = g.file.sparse
             /\ Harmless(h.file, b) /\ RollsBackTo(h, b)
<1> DEFINE h == [CountChunk(g, Len(data) \div BlockSize) EXCEPT
                   !.file = f, !.raised = TRUE]
           blocks == Len(data) \div BlockSize
           counted == CountChunk(g, blocks)
<1>1. blocks \in Nat /\ blocks * BlockSize = Len(data)
  BY SizesAssumption, MultipleOfBlocks
<1> HIDE DEF blocks
<1>2. /\ Sound(g) /\ ~g.raised /\ g.file \in File /\ Content(g.file) = s
      /\ s \in Seq(Cell) /\ Len(s) \in Nat /\ g.mem.image_size = Len(s)
      /\ g.mem.sparse = g.file.sparse
  BY HoldsSize DEF Holds, Sound, Handler
<1>3. /\ counted.file \in File /\ counted.file.sparse = g.file.sparse
      /\ counted.file.bytes = g.file.bytes
      /\ counted.file.chunks = g.file.chunks
      /\ ~HeaderAccepted(counted.file)
      /\ counted.mem.chunks = g.mem.chunks
      /\ counted.mem.image_size = g.mem.image_size
      /\ counted.mem.sparse = g.mem.sparse
      /\ counted \in Handler
  BY <1>1, CountedRefused
<1> HIDE DEF counted
<1>4. /\ f \in File /\ f.sparse = g.file.sparse /\ f.bytes = g.file.bytes
      /\ Len(f.chunks) >= Len(g.file.chunks)
      /\ \A i \in 1..Len(g.file.chunks) : f.chunks[i] = g.file.chunks[i]
      /\ Harmless(f, b)
  <2>1. f = counted.file
          \/ \E p \in Prefixes(data) :
               f = WriteChunk(counted, [type |-> "RAW", sz |-> blocks, data |-> p])
    BY <1>2 DEF TornFiles, counted, blocks
  <2>2. CASE f = counted.file
    <3>1. Harmless(f, b)
      BY <1>3, <2>2 DEF Harmless, Verifies, Open
    <3>2. Len(g.file.chunks) \in Nat
      BY <1>2 DEF File
    <3>3. Len(f.chunks) >= Len(g.file.chunks)
      <4>1. Len(f.chunks) = Len(g.file.chunks)
        BY <1>3, <2>2
      <4> QED
        BY <3>2, <4>1
    <3> QED
      BY <1>3, <2>2, <3>1, <3>3, Zenon
  <2>3. ASSUME NEW p \in Prefixes(data),
               f = WriteChunk(counted, [type |-> "RAW", sz |-> blocks, data |-> p])
         PROVE  /\ f \in File /\ f.sparse = g.file.sparse /\ f.bytes = g.file.bytes
                /\ Len(f.chunks) >= Len(g.file.chunks)
                /\ \A i \in 1..Len(g.file.chunks) : f.chunks[i] = g.file.chunks[i]
                /\ Harmless(f, b)
    <3> DEFINE c == [type |-> "RAW", sz |-> blocks, data |-> p]
    <3>1. p \in Seq(Cell) /\ Len(p) < Len(data)
      BY PrefixType
    <3>2. c \in Chunk
      BY <1>1, <3>1 DEF Chunk, ChunkType
    <3>3. c.type = "RAW" /\ c.sz = blocks /\ Len(c.data) < c.sz * BlockSize
      BY <1>1, <3>1
    <3> HIDE DEF c
    <3>4. f = WriteChunk(CountChunk(g, c.sz), c)
      BY <2>3, <3>3 DEF c, counted
    <3> QED
      <4> DEFINE w == WriteChunk(CountChunk(g, c.sz), c)
      <4>1. /\ w \in File /\ w.sparse = g.file.sparse /\ w.bytes = g.file.bytes
            /\ Len(w.chunks) >= Len(g.file.chunks)
            /\ \A i \in 1..Len(g.file.chunks) : w.chunks[i] = g.file.chunks[i]
            /\ Harmless(w, b)
        BY <3>2, <3>3, TornChunk
      <4> QED
        BY <3>4, <4>1
  <2> QED
    BY <2>1, <2>2, <2>3
<1> DEFINE back == [h EXCEPT !.raised = FALSE]
<1>5. /\ h.raised = TRUE /\ h.mem = counted.mem /\ h.file = f
      /\ back.mem = counted.mem /\ back.file = f
      /\ [back EXCEPT !.raised = FALSE].file = f
  <2>1. h = [counted EXCEPT !.file = f, !.raised = TRUE]
    BY DEF counted, blocks
  <2> QED
    BY <1>3, <2>1 DEF Handler
<1> HIDE DEF back, h
<1>6. /\ b \in Seq(Cell) /\ Len(b) \in Nat /\ Len(b) % BlockSize = 0
      /\ Len(b) <= Len(s) /\ SubSeq(s, 1, Len(b)) = b
  BY DEF BaseOK, Starts
<1>7. RollsBackTo(h, b)
  <2>3. back.mem.sparse /\ back.mem.image_size = Len(s) /\ back.mem.chunks = g.mem.chunks
    BY <1>2, <1>3, <1>5
  <2>1. CASE Len(b) = Len(s)
    <3>1. Truncate(back, Len(b)) = [back EXCEPT !.raised = FALSE]
      BY <1>6, <2>1, <2>3 DEF Truncate
    <3> QED
      BY <1>4, <1>5, <3>1 DEF RollsBackTo, back
  <2>2. CASE Len(b) # Len(s)
    <3>1. Len(b) < Len(s)
      BY <1>2, <1>6, <2>2
    <3>2. Truncate(back, Len(b)) = Cut(back, Len(b))
      BY <1>2, <1>6, <2>3, <3>1 DEF Truncate
    <3>3. Cut(back, Len(b)).file = Cut(g, Len(b)).file
      <4>1. /\ back.file \in File /\ back.file.sparse = g.file.sparse
            /\ back.file.bytes = g.file.bytes
            /\ Len(back.file.chunks) >= Len(g.file.chunks)
            /\ \A i \in 1..Len(g.file.chunks) :
                 back.file.chunks[i] = g.file.chunks[i]
        BY <1>4, <1>5, Zenon
      <4> QED
        BY <1>6, <2>3, <3>1, <4>1, CutOfTorn, Zenon
    <3>4. /\ Holds(Cut(g, Len(b)), b)
          /\ Cut(g, Len(b)).file.sparse = g.file.sparse
      BY <1>6, <3>1, CutHolds
    <3>5. Rests(Cut(g, Len(b)).file, b)
      BY <3>4, HoldsIsOpen
    <3> QED
      BY <1>4, <1>5, <3>2, <3>3, <3>4, <3>5 DEF RollsBackTo, back
  <2> QED
    BY <2>1, <2>2
<1>8. /\ h.raised = TRUE /\ h.mem.sparse = g.mem.sparse
      /\ h.mem.image_size = g.mem.image_size
      /\ h.file.sparse = g.file.sparse
      /\ Harmless(h.file, b) /\ RollsBackTo(h, b)
  BY <1>3, <1>4, <1>5, <1>7
<1> QED
  BY <1>8 DEF h

(* How a call that writes t behind the image of g ends, b being the        *)
(* original image.                                                         *)
Stopped(h, g, b) ==
  /\ h.raised = TRUE /\ h.mem.image_size \in Nat
  /\ h.mem.sparse => h.file.sparse
  /\ h.file.sparse = g.file.sparse
  /\ Harmless(h.file, b) /\ RollsBackTo(h, b)
Done(h, g, t) == Holds(h, t) /\ h.file.sparse = g.file.sparse
Written(h, g, b, t) ==
  Done(h, g, t) \/ ("raise" \in Faults /\ Stopped(h, g, b))

LEMMA RaisingStopped ==
  ASSUME NEW g, NEW s, Holds(g, s), NEW b, Starts(s, b), NoFooters(s),
         BaseOK(b, g.file.sparse)
  PROVE  Stopped(Raising(g), g, b)
<1>1. g.mem.image_size \in Nat /\ (g.mem.sparse => g.file.sparse)
  BY HoldsSize
<1>2. /\ Raising(g).raised = TRUE /\ Raising(g).file = g.file
      /\ Raising(g).mem = g.mem
      /\ Harmless(Raising(g).file, b) /\ RollsBackTo(Raising(g), b)
  BY RaisingRollsBack
<1> QED
  BY <1>1, <1>2 DEF Stopped

LEMMA AppendRawOutcome ==
  ASSUME NEW g, NEW s, Holds(g, s), NEW b, Starts(s, b),
         BaseOK(b, g.file.sparse), "lost" \notin Faults,
         NEW data \in Seq(Cell), g.file.sparse => Len(data) % BlockSize = 0,
         \A p \in Prefixes(data) : NoFooters(s \o p),
         NEW h \in AppendRawOutcomes(g, data)
  PROVE  Written(h, g, b, s \o data)
<1> DEFINE blocks == Len(data) \div BlockSize
           counted == IF g.mem.sparse THEN CountChunk(g, blocks) ELSE g
<1>1. g.mem.image_size \in Nat /\ g.mem.sparse = g.file.sparse /\ g.file.sparse \in BOOLEAN
  BY HoldsSize
<1>2. \/ h = AppendRaw(g, data)
      \/ "raise" \in Faults /\ \E f \in TornFiles(g, data, blocks) :
              h = [counted EXCEPT !.file = f, !.raised = TRUE]
  BY DEF AppendRawOutcomes
<1>3. CASE h = AppendRaw(g, data)
  BY <1>3, AppendRawHolds DEF Written, Done
<1>4. ASSUME "raise" \in Faults, NEW f \in TornFiles(g, data, blocks),
             h = [counted EXCEPT !.file = f, !.raised = TRUE],
             g.file.sparse
       PROVE  Stopped(h, g, b)
  <2>1. h = [CountChunk(g, blocks) EXCEPT !.file = f, !.raised = TRUE]
    BY <1>1, <1>4
  <2> DEFINE w == [CountChunk(g, blocks) EXCEPT !.file = f, !.raised = TRUE]
  <2>2. /\ w.raised = TRUE /\ w.mem.sparse = g.mem.sparse
        /\ w.mem.image_size = g.mem.image_size
        /\ w.file.sparse = g.file.sparse
        /\ Harmless(w.file, b) /\ RollsBackTo(w, b)
    BY <1>4, TornSparse
  <2> HIDE DEF w
  <2> QED
    BY <1>1, <2>1, <2>2 DEF Stopped, w
<1>5. ASSUME "raise" \in Faults, NEW f \in TornFiles(g, data, blocks),
             h = [counted EXCEPT !.file = f, !.raised = TRUE],
             ~g.file.sparse
       PROVE  Stopped(h, g, b)
  <2>1. PICK p \in Prefixes(data) : f = [g.file EXCEPT !.bytes = @ \o p]
    BY <1>1, <1>5 DEF TornFiles
  <2>2. h = [g EXCEPT !.file = [g.file EXCEPT !.bytes = @ \o p], !.raised = TRUE]
    BY <1>1, <1>5, <2>1
  <2>3. p \in Seq(Cell) /\ NoFooters(s \o p)
    BY PrefixType
  <2> DEFINE w == [g EXCEPT !.file = [g.file EXCEPT !.bytes = @ \o p], !.raised = TRUE]
  <2>4. /\ w.raised = TRUE /\ w.mem = g.mem
        /\ w.file.sparse = g.file.sparse
        /\ Harmless(w.file, b) /\ RollsBackTo(w, b)
    BY <1>5, <2>3, TornRaw
  <2> QED
    BY <1>1, <2>2, <2>4 DEF Stopped
<1> QED
  BY <1>1, <1>2, <1>3, <1>4, <1>5 DEF Written

LEMMA AppendFillOutcome ==
  ASSUME NEW g, NEW s, Holds(g, s), NEW b, Starts(s, b),
         BaseOK(b, g.file.sparse), "lost" \notin Faults,
         NEW fill \in [1..FillLen -> Cell], NEW size \in Nat, size % BlockSize = 0,
         \A p \in Prefixes(Repeat(fill, size)) : NoFooters(s \o p),
         NEW h \in AppendFillOutcomes(g, fill, size)
  PROVE  Written(h, g, b, s \o Repeat(fill, size))
<1>1. g.mem.sparse = g.file.sparse /\ g.file.sparse \in BOOLEAN
  BY HoldsSize
<1>2. CASE g.file.sparse
  <2>1. h = AppendFill(g, fill, size)
    BY <1>1, <1>2 DEF AppendFillOutcomes, ChunkLost
  <2> QED
    BY <1>2, <2>1, AppendFillHolds DEF Written, Done
<1>3. CASE ~g.file.sparse
  <2>1. h \in AppendRawOutcomes(g, Repeat(fill, size))
    BY <1>1, <1>3 DEF AppendFillOutcomes
  <2>2. Repeat(fill, size) \in Seq(Cell)
    BY RepeatType
  <2> QED
    BY <1>3, <2>1, <2>2, AppendRawOutcome
<1> QED
  BY <1>1, <1>2, <1>3

LEMMA AppendDontCareOutcome ==
  ASSUME NEW g, NEW s, Holds(g, s), "lost" \notin Faults,
         NEW size \in Nat, size % BlockSize = 0,
         NEW h \in AppendDontCareOutcomes(g, size)
  PROVE  Done(h, g, s \o [i \in 1..size |-> Zero])
<1>1. h = AppendDontCare(g, size)
  BY DEF AppendDontCareOutcomes, ChunkLost
<1> QED
  BY <1>1, AppendDontCareHolds DEF Done

-----------------------------------------------------------------------------
(* Sequences of cells.                                                     *)

LEMMA ConcatAssoc ==
  ASSUME NEW s \in Seq(Cell), NEW t \in Seq(Cell), NEW u \in Seq(Cell)
  PROVE  (s \o t) \o u = s \o (t \o u)
  OBVIOUS

LEMMA FrontOfConcat ==
  ASSUME NEW s \in Seq(Cell), NEW t \in Seq(Cell)
  PROVE  /\ SubSeq(s \o t, 1, Len(s)) = s
         /\ SubSeq(s \o t, Len(s) + 1, Len(s \o t)) = t
<1>1. SubSeq(s \o t, 1, Len(s)) = s
  OBVIOUS
<1>2. SubSeq(s \o t, Len(s) + 1, Len(s \o t)) = t
  OBVIOUS
<1> QED
  BY <1>1, <1>2

LEMMA CellOfConcat ==
  ASSUME NEW s \in Seq(Cell), NEW t \in Seq(Cell)
  PROVE  /\ \A i \in 1..Len(s) : (s \o t)[i] = s[i]
         /\ \A i \in 1..Len(t) : (s \o t)[Len(s) + i] = t[i]
  OBVIOUS

LEMMA NoFootersConcat ==
  ASSUME NEW s \in Seq(Cell), NEW t \in Seq(Cell), NoFooters(s), NoFooters(t)
  PROVE  NoFooters(s \o t)
<1> DEFINE u == s \o t
<1>1. Len(u) = Len(s) + Len(t) /\ Len(s) \in Nat /\ Len(t) \in Nat
  BY LengthOfConcat
<1>2. /\ \A i \in 1..Len(s) : u[i] = s[i]
      /\ \A i \in 1..Len(t) : u[Len(s) + i] = t[i]
  BY CellOfConcat
<1> HIDE DEF u
<1>3. ASSUME NEW i \in 1..Len(u) PROVE ~IsFooter(u[i])
  <2>1. CASE i <= Len(s)
    BY <2>1, <1>1, <1>2 DEF NoFooters
  <2>2. CASE ~(i <= Len(s))
    <3>1. i - Len(s) \in 1..Len(t) /\ Len(s) + (i - Len(s)) = i
      BY <2>2, <1>1
    <3>2. u[i] = t[i - Len(s)]
      BY <1>2, <3>1
    <3> QED
      BY <3>1, <3>2 DEF NoFooters
  <2> QED
    BY <2>1, <2>2
<1> QED
  BY <1>3 DEF NoFooters, u

LEMMA StartsConcat ==
  ASSUME NEW s \in Seq(Cell), NEW t \in Seq(Cell), NEW b \in Seq(Cell), Starts(s, b)
  PROVE  Starts(s \o t, b)
<1>1. Len(s \o t) = Len(s) + Len(t) /\ Len(s) \in Nat /\ Len(t) \in Nat /\ Len(b) \in Nat
  BY LengthOfConcat
<1>2. Len(b) <= Len(s) /\ SubSeq(s, 1, Len(b)) = b
  BY DEF Starts
<1>3. SubSeq(s \o t, 1, Len(b)) = SubSeq(s, 1, Len(b))
  BY <1>1, <1>2
<1> QED
  BY <1>1, <1>2, <1>3 DEF Starts

(* A footer can only be the last cell.                                     *)
Clean(s) == \A i \in 1..(Len(s) - 1) : ~IsFooter(s[i])

LEMMA CleanPrefixes ==
  ASSUME NEW s \in Seq(Cell), NoFooters(s), NEW t \in Seq(Cell), Clean(t)
  PROVE  \A p \in Prefixes(t) : NoFooters(s \o p)
<1> SUFFICES ASSUME NEW p \in Prefixes(t) PROVE NoFooters(s \o p)
  OBVIOUS
<1>1. /\ p \in Seq(Cell) /\ Len(p) \in Nat /\ Len(p) < Len(t) /\ Len(t) \in Nat
      /\ \A i \in 1..Len(p) : p[i] = t[i]
  BY PrefixType
<1>2. NoFooters(p)
  BY <1>1 DEF Clean, NoFooters
<1> QED
  BY <1>1, <1>2, NoFootersConcat

LEMMA CleanConcat ==
  ASSUME NEW s \in Seq(Cell), NoFooters(s), NEW t \in Seq(Cell), Clean(t)
  PROVE  Clean(s \o t)
<1> DEFINE u == s \o t
<1>1. Len(u) = Len(s) + Len(t) /\ Len(s) \in Nat /\ Len(t) \in Nat
  BY LengthOfConcat
<1>2. /\ \A i \in 1..Len(s) : u[i] = s[i]
      /\ \A i \in 1..Len(t) : u[Len(s) + i] = t[i]
  BY CellOfConcat
<1> HIDE DEF u
<1>3. ASSUME NEW i \in 1..(Len(u) - 1) PROVE ~IsFooter(u[i])
  <2>1. CASE i <= Len(s)
    BY <2>1, <1>1, <1>2 DEF NoFooters
  <2>2. CASE ~(i <= Len(s))
    <3>1. /\ i - Len(s) \in 1..Len(t) /\ Len(s) + (i - Len(s)) = i
          /\ i - Len(s) \in 1..(Len(t) - 1)
      BY <2>2, <1>1
    <3>2. u[i] = t[i - Len(s)]
      BY <1>2, <3>1
    <3> QED
      BY <3>1, <3>2 DEF Clean
  <2> QED
    BY <2>1, <2>2
<1> QED
  BY <1>3 DEF Clean, u

LEMMA NoFootersClean ==
  ASSUME NEW s \in Seq(Cell), NoFooters(s)
  PROVE  Clean(s)
BY DEF NoFooters, Clean

-----------------------------------------------------------------------------
(* Rounding up to blocks, and the size of a hash tree.                     *)

LEMMA DivBounds ==
  ASSUME NEW x \in Nat
  PROVE  /\ x \div BlockSize \in Nat /\ (x \div BlockSize) * BlockSize \in Nat
         /\ (x \div BlockSize) * BlockSize <= x
         /\ x < (x \div BlockSize) * BlockSize + BlockSize
  BY SizesAssumption

(* No multiple of the block lies strictly between two successive ones.     *)
LEMMA MultiplesApart ==
  ASSUME NEW p \in Nat, NEW q \in Nat, p * BlockSize < q * BlockSize + BlockSize
  PROVE  p * BlockSize <= q * BlockSize
<1>1. BlockSize \in Nat /\ BlockSize > 0
  BY SizesAssumption
<1>2. CASE p <= q
  BY <1>1, <1>2
<1>3. CASE ~(p <= q)
  <2>1. p >= q + 1
    BY <1>3
  <2>2. p * BlockSize >= (q + 1) * BlockSize
    BY <1>1, <2>1
  <2>3. (q + 1) * BlockSize = q * BlockSize + BlockSize
    BY <1>1
  <2>4. p * BlockSize \in Nat /\ q * BlockSize \in Nat /\ (q + 1) * BlockSize \in Nat
    BY <1>1
  <2> QED
    BY <1>1, <2>2, <2>3, <2>4
<1> QED
  BY <1>2, <1>3

LEMMA RoundUpIs ==
  ASSUME NEW n \in Nat
  PROVE  /\ RoundUp(n) \in Nat /\ RoundUp(n) % BlockSize = 0
         /\ n <= RoundUp(n) /\ RoundUp(n) < n + BlockSize
<1> DEFINE x == n + BlockSize - 1
           q == x \div BlockSize
<1>1. BlockSize \in Nat /\ BlockSize > 0 /\ x \in Nat
  BY SizesAssumption
<1>2. q \in Nat /\ q * BlockSize <= x /\ x < q * BlockSize + BlockSize /\ q * BlockSize \in Nat
  BY <1>1, DivBounds
<1>3. RoundUp(n) = q * BlockSize
  BY DEF RoundUp
<1> HIDE DEF q
<1>4. (q * BlockSize) % BlockSize = 0
  BY <1>2, BlocksOfMultiple
<1> DEFINE r == q * BlockSize
<1> HIDE DEF r
<1>5. r \in Nat /\ r <= x /\ x < r + BlockSize
  BY <1>2 DEF r
<1>6. n <= r /\ r < n + BlockSize
  BY <1>1, <1>5
<1> QED
  BY <1>3, <1>4, <1>5, <1>6 DEF r

LEMMA RoundUpLeast ==
  ASSUME NEW n \in Nat, NEW m \in Nat, n <= m, m % BlockSize = 0
  PROVE  RoundUp(n) <= m
<1> DEFINE q == RoundUp(n) \div BlockSize
           k == m \div BlockSize
<1>1. /\ RoundUp(n) \in Nat /\ RoundUp(n) % BlockSize = 0 /\ RoundUp(n) < n + BlockSize
  BY RoundUpIs
<1>2. q \in Nat /\ q * BlockSize = RoundUp(n)
  BY <1>1, MultipleOfBlocks, SizesAssumption
<1>3. k \in Nat /\ k * BlockSize = m
  BY MultipleOfBlocks, SizesAssumption
<1> HIDE DEF q, k
<1>4. BlockSize \in Nat
  BY SizesAssumption
<1>5. q * BlockSize < k * BlockSize + BlockSize
  BY <1>1, <1>2, <1>3, <1>4
<1> QED
  BY <1>2, <1>3, <1>5, MultiplesApart

LEMMA RoundUpAligned ==
  ASSUME NEW n \in Nat, n % BlockSize = 0
  PROVE  RoundUp(n) = n
BY RoundUpIs, RoundUpLeast

(* The next level of a hash tree over n cells.                             *)
Level(n) == RoundUp((RoundUp(n) \div BlockSize) * DigestLen)

LEMMA LevelShrinks ==
  ASSUME NEW n \in Nat, n > BlockSize
  PROVE  Level(n) \in Nat /\ Level(n) % BlockSize = 0 /\ Level(n) < n
<1> DEFINE k == RoundUp(n) \div BlockSize
<1>1. /\ RoundUp(n) \in Nat /\ RoundUp(n) % BlockSize = 0
      /\ n <= RoundUp(n) /\ RoundUp(n) < n + BlockSize
  BY RoundUpIs
<1>2. k \in Nat /\ k * BlockSize = RoundUp(n)
  BY <1>1, MultipleOfBlocks, SizesAssumption
<1>3. BlockSize \in Nat /\ BlockSize > 0 /\ DigestLen \in Nat /\ 2 * DigestLen <= BlockSize
  BY SizesAssumption, FootersAssumption
<1>4. Level(n) = RoundUp(k * DigestLen)
  BY DEF Level
<1> HIDE DEF k
<1>5. k >= 2
  <2>1. CASE k = 0
    BY <1>1, <1>2, <1>3, <2>1
  <2>2. CASE k = 1
    BY <1>1, <1>2, <1>3, <2>2
  <2> QED
    BY <1>2, <2>1, <2>2
<1>6. k * DigestLen \in Nat
  BY <1>2, <1>3
<1>7. k * DigestLen <= (k - 1) * BlockSize
  <2>1. k - 1 \in Nat /\ k <= 2 * (k - 1)
    BY <1>2, <1>5
  <2>2. k * DigestLen <= (2 * (k - 1)) * DigestLen
    BY <1>2, <1>3, <2>1
  <2>3. (2 * (k - 1)) * DigestLen = (k - 1) * (2 * DigestLen)
    BY <1>3, <2>1
  <2>4. (k - 1) * (2 * DigestLen) <= (k - 1) * BlockSize
    BY <1>3, <2>1
  <2>5. /\ (2 * (k - 1)) * DigestLen \in Nat /\ (k - 1) * (2 * DigestLen) \in Nat
        /\ (k - 1) * BlockSize \in Nat
    BY <1>3, <2>1
  <2> QED
    BY <1>6, <2>2, <2>3, <2>4, <2>5
<1>8. (k - 1) * BlockSize = RoundUp(n) - BlockSize
  BY <1>2, <1>3
<1>9. (k - 1) * BlockSize < n /\ (k - 1) * BlockSize \in Nat
  BY <1>1, <1>2, <1>3, <1>5, <1>8
<1>10. ((k - 1) * BlockSize) % BlockSize = 0
  BY <1>2, BlocksOfMultiple
<1>11. RoundUp(k * DigestLen) <= (k - 1) * BlockSize
  BY <1>6, <1>7, <1>9, <1>10, RoundUpLeast
<1>12. RoundUp(k * DigestLen) \in Nat /\ RoundUp(k * DigestLen) % BlockSize = 0
  BY <1>6, RoundUpIs
<1> QED
  BY <1>4, <1>9, <1>11, <1>12

(* The sizes of the trees over 0 to size cells.                            *)
TreeOver(tree, size) ==
  \A n \in 0..size :
    tree[n] = IF n <= BlockSize THEN 0 ELSE Level(n) + tree[Level(n)]

LEMMA TreeExists ==
  ASSUME NEW size \in Nat
  PROVE  \E tree : TreeSize(size) = tree[size] /\ TreeOver(tree, size)
<1> DEFINE Solves(f, k) ==
             f = [n \in 0..k |-> IF n <= BlockSize THEN 0
                                 ELSE Level(n) + f[Level(n)]]
           T == {k \in 0..size : \E f : Solves(f, k)}
           tree == CHOOSE f : Solves(f, size)
<1>1. TreeSize(size) = tree[size]
  BY DEF TreeSize, Level
<1>2. BlockSize \in Nat
  BY SizesAssumption
<1>3. \A k \in 0..size : k \in T
  <2>1. 0 \in T
    <3>1. Solves([n \in 0..0 |-> 0], 0)
      BY <1>2
    <3> QED
      BY <3>1
  <2>2. ASSUME NEW k \in 0..size, k \in T, k + 1 <= size
         PROVE  k + 1 \in T
    <3>1. PICK f : Solves(f, k)
      BY <2>2
    <3> DEFINE g == [n \in 0..(k + 1) |->
                       IF n <= k THEN f[n]
                       ELSE IF n <= BlockSize THEN 0
                            ELSE Level(n) + f[Level(n)]]
    <3>2. ASSUME NEW n \in 0..(k + 1)
           PROVE  g[n] = IF n <= BlockSize THEN 0 ELSE Level(n) + g[Level(n)]
      <4>1. CASE n <= BlockSize
        <5>1. n <= k => f[n] = 0
          BY <3>1, <4>1
        <5> QED
          BY <4>1, <5>1
      <4>2. CASE ~(n <= BlockSize)
        <5>1. Level(n) \in Nat /\ Level(n) < n
          BY <1>2, <4>2, LevelShrinks
        <5>2. Level(n) \in 0..(k + 1) /\ Level(n) <= k
          BY <5>1
        <5>3. g[Level(n)] = f[Level(n)]
          BY <5>2
        <5>4. n <= k => f[n] = Level(n) + f[Level(n)]
          BY <3>1, <4>2
        <5>5. g[n] = Level(n) + f[Level(n)]
          BY <4>2, <5>4
        <5> HIDE DEF g
        <5> QED
          BY <4>2, <5>3, <5>5
      <4> QED
        BY <4>1, <4>2
    <3>3. g = [n \in 0..(k + 1) |-> g[n]]
      OBVIOUS
    <3> HIDE DEF g
    <3>4. Solves(g, k + 1)
      BY <3>2, <3>3
    <3>5. k + 1 \in 0..size
      BY <2>2
    <3> QED
      BY <3>4, <3>5
  <2> HIDE DEF T
  <2> QED
    BY <2>1, <2>2, IntervalInduction
<1>4. Solves(tree, size)
  <2>1. size \in T
    BY <1>3
  <2>2. \E f : Solves(f, size)
    BY <2>1
  <2> QED
    BY <2>2
<1>5. TreeOver(tree, size)
  BY <1>4 DEF TreeOver
<1> QED
  BY <1>1, <1>5

LEMMA TreesAgree ==
  ASSUME NEW a \in Nat, NEW f, TreeOver(f, a), NEW b \in Nat, NEW g, TreeOver(g, b),
         NEW k \in Nat, k <= a, k <= b
  PROVE  f[k] = g[k]
<1> DEFINE U == {i \in 0..k : \A n \in 0..i : f[n] = g[n]}
<1>1. BlockSize \in Nat
  BY SizesAssumption
<1>2. 0 \in U
  <2>1. \A n \in 0..0 : n <= BlockSize /\ n \in 0..a /\ n \in 0..b
    BY <1>1
  <2> QED
    BY <2>1 DEF TreeOver
<1>3. ASSUME NEW i \in 0..k, i \in U, i + 1 <= k
       PROVE  i + 1 \in U
  <2> DEFINE n == i + 1
  <2>1. n \in 0..a /\ n \in 0..b /\ n \in 0..k /\ n \in Nat
    BY <1>3
  <2>2. f[n] = g[n]
    <3>1. CASE n <= BlockSize
      BY <2>1, <3>1 DEF TreeOver
    <3>2. CASE ~(n <= BlockSize)
      <4>1. Level(n) \in Nat /\ Level(n) < n
        BY <1>1, <2>1, <3>2, LevelShrinks
      <4>2. f[Level(n)] = g[Level(n)]
        BY <1>3, <4>1
      <4> HIDE DEF n
      <4> QED
        BY <2>1, <3>2, <4>2 DEF TreeOver
    <3> QED
      BY <3>1, <3>2
  <2>3. \A m \in 0..n : m \in 0..i \/ m = n
    BY <1>3
  <2> QED
    BY <1>3, <2>1, <2>2, <2>3
<1>4. \A i \in 0..k : i \in U
  <2> HIDE DEF U
  <2> QED
    BY <1>2, <1>3, IntervalInduction
<1> QED
  BY <1>4

LEMMA TreeSizeStep ==
  ASSUME NEW n \in Nat
  PROVE  TreeSize(n) = IF n <= BlockSize THEN 0 ELSE Level(n) + TreeSize(Level(n))
<1>1. PICK f : TreeSize(n) = f[n] /\ TreeOver(f, n)
  BY TreeExists
<1>2. f[n] = IF n <= BlockSize THEN 0 ELSE Level(n) + f[Level(n)]
  BY <1>1 DEF TreeOver
<1>3. ASSUME ~(n <= BlockSize)
       PROVE  f[Level(n)] = TreeSize(Level(n))
  <2>1. Level(n) \in Nat /\ Level(n) <= n
    BY <1>3, LevelShrinks, SizesAssumption
  <2>2. PICK g : TreeSize(Level(n)) = g[Level(n)] /\ TreeOver(g, Level(n))
    BY <2>1, TreeExists
  <2> DEFINE m == Level(n)
  <2> HIDE DEF m
  <2>3. f[m] = g[m]
    <3>1. m \in Nat /\ m <= n /\ m <= m /\ TreeOver(g, m)
      BY <2>1, <2>2 DEF m
    <3> QED
      BY <1>1, <3>1, TreesAgree
  <2> QED
    BY <2>2, <2>3 DEF m
<1> QED
  BY <1>1, <1>2, <1>3

LEMMA TreeSizeType ==
  ASSUME NEW size \in Nat
  PROVE  TreeSize(size) \in Nat /\ TreeSize(size) % BlockSize = 0
<1> DEFINE Good(n) == TreeSize(n) \in Nat /\ TreeSize(n) % BlockSize = 0
           U == {k \in 0..size : \A n \in 0..k : Good(n)}
<1>1. 0 % BlockSize = 0 /\ BlockSize \in Nat
  BY SizesAssumption
<1>2. 0 \in U
  <2>1. \A n \in 0..0 : n <= BlockSize /\ n \in Nat
    BY <1>1
  <2> QED
    BY <1>1, <2>1, TreeSizeStep
<1>3. ASSUME NEW k \in 0..size, k \in U, k + 1 <= size
       PROVE  k + 1 \in U
  <2> DEFINE n == k + 1
  <2>1. n \in 0..size /\ n \in Nat
    BY <1>3
  <2>2. Good(n)
    <3>1. CASE n <= BlockSize
      BY <1>1, <2>1, <3>1, TreeSizeStep
    <3>2. CASE ~(n <= BlockSize)
      <4> DEFINE x == Level(n)
                 y == TreeSize(x)
      <4>1. x \in Nat /\ x % BlockSize = 0 /\ x < n
        BY <1>1, <2>1, <3>2, LevelShrinks
      <4>2. x \in 0..k
        BY <4>1
      <4>3. y \in Nat /\ y % BlockSize = 0
        BY <1>3, <4>2
      <4>4. TreeSize(n) = x + y
        BY <2>1, <3>2, TreeSizeStep
      <4> HIDE DEF n, x, y
      <4>5. (x + y) % BlockSize = 0
        BY <4>1, <4>3, SumOfMultiples
      <4> QED
        BY <4>1, <4>3, <4>4, <4>5
    <3> QED
      BY <3>1, <3>2
  <2> HIDE DEF Good
  <2>3. \A m \in 0..n : m \in 0..k \/ m = n
    BY <1>3
  <2> QED
    BY <1>3, <2>1, <2>2, <2>3
<1>4. \A k \in 0..size : k \in U
  <2> HIDE DEF U
  <2> QED
    BY <1>2, <1>3, IntervalInduction
<1> QED
  BY <1>4

LEMMA RoundUpMonotone ==
  ASSUME NEW m \in Nat, NEW n \in Nat, m <= n
  PROVE  RoundUp(m) <= RoundUp(n)
<1>1. RoundUp(n) \in Nat /\ RoundUp(n) % BlockSize = 0 /\ n <= RoundUp(n)
  BY RoundUpIs
<1>2. m <= RoundUp(n)
  BY <1>1
<1> QED
  BY <1>1, <1>2, RoundUpLeast

LEMMA LevelMonotone ==
  ASSUME NEW m \in Nat, NEW n \in Nat, m <= n
  PROVE  Level(m) <= Level(n)
<1> DEFINE j == RoundUp(m) \div BlockSize
           k == RoundUp(n) \div BlockSize
<1>1. /\ RoundUp(m) \in Nat /\ RoundUp(m) % BlockSize = 0
      /\ RoundUp(n) \in Nat /\ RoundUp(n) % BlockSize = 0
      /\ RoundUp(m) <= RoundUp(n)
  BY RoundUpIs, RoundUpMonotone
<1>2. /\ j \in Nat /\ j * BlockSize = RoundUp(m)
      /\ k \in Nat /\ k * BlockSize = RoundUp(n)
  BY <1>1, MultipleOfBlocks, SizesAssumption
<1> HIDE DEF j, k
<1>3. BlockSize \in Nat /\ BlockSize > 0 /\ DigestLen \in Nat
  BY SizesAssumption, FootersAssumption
<1>4. j <= k
  <2>1. CASE j >= k + 1
    <3>1. j * BlockSize >= (k + 1) * BlockSize
      BY <1>2, <1>3, <2>1
    <3>2. (k + 1) * BlockSize = k * BlockSize + BlockSize
      BY <1>2, <1>3
    <3> QED
      BY <1>1, <1>2, <1>3, <3>1, <3>2
  <2> QED
    BY <1>2, <2>1
<1>5. j * DigestLen <= k * DigestLen /\ j * DigestLen \in Nat /\ k * DigestLen \in Nat
  BY <1>2, <1>3, <1>4
<1>6. RoundUp(j * DigestLen) <= RoundUp(k * DigestLen)
  BY <1>5, RoundUpMonotone
<1> QED
  BY <1>6 DEF Level, j, k

LEMMA TreeSizeMonotone ==
  ASSUME NEW m \in Nat, NEW n \in Nat, m <= n
  PROVE  TreeSize(m) <= TreeSize(n)
<1> DEFINE U == {k \in 0..n : \A i \in 0..k : \A j \in 0..i : TreeSize(j) <= TreeSize(i)}
<1>1. BlockSize \in Nat
  BY SizesAssumption
<1>2. 0 \in U
  <2>1. \A i \in 0..0 : \A j \in 0..i : i = j /\ i \in Nat
    OBVIOUS
  <2>2. \A i \in Nat : TreeSize(i) \in Nat
    BY TreeSizeType
  <2> QED
    BY <2>1, <2>2
<1>3. ASSUME NEW k \in 0..n, k \in U, k + 1 <= n
       PROVE  k + 1 \in U
  <2> DEFINE i == k + 1
  <2>1. i \in 0..n /\ i \in Nat
    BY <1>3
  <2>2. ASSUME NEW j \in 0..i PROVE TreeSize(j) <= TreeSize(i)
    <3>1. /\ j \in Nat /\ j <= i /\ TreeSize(j) \in Nat /\ TreeSize(i) \in Nat
      BY <2>1, TreeSizeType
    <3>2. CASE j <= BlockSize
      <4>1. TreeSize(j) = 0
        BY <3>1, <3>2, TreeSizeStep
      <4> HIDE DEF i
      <4> QED
        BY <3>1, <4>1
    <3>3. CASE ~(j <= BlockSize)
      <4> DEFINE x == Level(j)
                 y == Level(i)
      <4>1. /\ ~(i <= BlockSize)
        BY <1>1, <2>1, <3>1, <3>3
      <4>2. /\ x \in Nat /\ x < j /\ y \in Nat /\ y < i
        BY <1>1, <2>1, <3>1, <3>3, <4>1, LevelShrinks
      <4>3. x <= y
        BY <2>1, <3>1, LevelMonotone
      <4>4. TreeSize(j) = x + TreeSize(x)
        BY <3>1, <3>3, TreeSizeStep
      <4>5. TreeSize(i) = y + TreeSize(y)
        BY <2>1, <4>1, TreeSizeStep
      <4> HIDE DEF x, y
      <4>6. TreeSize(x) <= TreeSize(y)
        <5>1. y \in 0..k /\ x \in 0..y
          BY <4>2, <4>3
        <5> QED
          BY <1>3, <5>1
      <4>7. TreeSize(x) \in Nat /\ TreeSize(y) \in Nat
        BY <4>2, TreeSizeType
      <4> HIDE DEF i
      <4> QED
        BY <4>2, <4>3, <4>4, <4>5, <4>6, <4>7
    <3> QED
      BY <3>2, <3>3
  <2>3. \A l \in 0..i : l \in 0..k \/ l = i
    BY <1>3
  <2> QED
    BY <1>3, <2>1, <2>2, <2>3
<1>4. \A k \in 0..n : k \in U
  <2> HIDE DEF U
  <2> QED
    BY <1>2, <1>3, IntervalInduction
<1>5. n \in U
  BY <1>4
<1> QED
  BY <1>5

-----------------------------------------------------------------------------
(* The cells that the commands write.                                      *)

Descriptors ==
  {NoDescriptor} \cup {HashDescriptor(c) : c \in Seq(Cell)}
    \cup [kind : {"hashtree"}, image_size : Nat, digest : Seq(Cell),
          tree_offset : Nat, tree_size : Nat, fec_offset : Nat, fec_size : Nat]

CellsOfCommands ==
  /\ \A n, m, k \in Nat : FooterCell(n, m, k) \in Cell \ DataCell
  /\ \A d \in Descriptors, i \in Nat : [vbmeta |-> d, part |-> i] \in Cell \ DataCell
  /\ \A c \in Seq(Cell), i \in Nat :
       [tree |-> c, part |-> i] \in Cell /\ [fec |-> c, part |-> i] \in Cell
  /\ MarkCell \in Cell

SignedType ==
  [kind : {"none", "hash", "vbmeta", "hashtree"}, psize : Nat,
   fec : BOOLEAN, no_tree : BOOLEAN, zeroed : BOOLEAN]

LEMMA ZerosType ==
  ASSUME NEW n \in Nat
  PROVE  Zeros(n) \in Seq(Cell) /\ Len(Zeros(n)) = n /\ NoFooters(Zeros(n))
<1>1. Zeros(n) \in Seq(Cell) /\ Len(Zeros(n)) = n /\ \A i \in 1..n : Zeros(n)[i] = Zero
  BY ZeroAssumption DEF Zeros
<1>2. ~IsFooter(Zero)
  BY FootersAssumption DEF IsFooter
<1> QED
  BY <1>1, <1>2 DEF NoFooters

LEMMA PaddedType ==
  ASSUME NEW s \in Seq(Cell)
  PROVE  /\ Padded(s) \in Seq(Cell) /\ Len(Padded(s)) = RoundUp(Len(s))
         /\ Len(Padded(s)) \in Nat /\ Len(Padded(s)) % BlockSize = 0
         /\ Len(s) <= Len(Padded(s))
         /\ Starts(Padded(s), s)
         /\ NoFooters(s) => NoFooters(Padded(s))
         /\ Len(s) % BlockSize = 0 => Padded(s) = s
<1> DEFINE n == RoundUp(Len(s))
           m == n - Len(s)
<1>1. /\ Len(s) \in Nat /\ n \in Nat /\ n % BlockSize = 0 /\ Len(s) <= n
      /\ m \in Nat
  BY RoundUpIs
<1>2. Len(s) % BlockSize = 0 => m = 0
  BY <1>1, RoundUpAligned
<1>3. Padded(s) = s \o Zeros(m)
  BY DEF Padded
<1> HIDE DEF n
<1>4. Zeros(m) \in Seq(Cell) /\ Len(Zeros(m)) = m /\ NoFooters(Zeros(m))
  BY <1>1, ZerosType
<1>5. Len(s \o Zeros(m)) = n /\ s \o Zeros(m) \in Seq(Cell)
  <2>1. Len(s \o Zeros(m)) = Len(s) + m /\ s \o Zeros(m) \in Seq(Cell)
    BY <1>4, LengthOfConcat
  <2> QED
    BY <1>1, <2>1
<1>6. Starts(s \o Zeros(m), s)
  BY <1>1, <1>4, <1>5, FrontOfConcat DEF Starts
<1>7. NoFooters(s) => NoFooters(s \o Zeros(m))
  BY <1>4, NoFootersConcat
<1>8. m = 0 => s \o Zeros(m) = s
  <2>1. m = 0 => Zeros(m) = << >>
    BY <1>4
  <2> QED
    BY <2>1
<1> QED
  BY <1>1, <1>2, <1>3, <1>5, <1>6, <1>7, <1>8 DEF n

LEMMA TreeCellsType ==
  ASSUME CellsOfCommands, NEW c \in Seq(Cell)
  PROVE  /\ TreeCells(c) \in Seq(Cell) /\ Len(TreeCells(c)) = TreeSize(Len(c))
         /\ Len(TreeCells(c)) \in Nat /\ Len(TreeCells(c)) % BlockSize = 0
         /\ NoFooters(TreeCells(c))
<1> DEFINE n == TreeSize(Len(c))
<1>1. n \in Nat /\ n % BlockSize = 0
  BY TreeSizeType
<1>2. \A i \in 1..n : [tree |-> c, part |-> i] \in Cell
  <2>1. \A i \in Nat : [tree |-> c, part |-> i] \in Cell
    BY Zenon DEF CellsOfCommands
  <2>2. \A i \in 1..n : i \in Nat
    BY <1>1
  <2> QED
    BY <2>1, <2>2, Zenon
<1>3. TreeCells(c) = [i \in 1..n |-> [tree |-> c, part |-> i]]
  BY DEF TreeCells
<1> HIDE DEF n
<1>4. TreeCells(c) \in Seq(Cell) /\ Len(TreeCells(c)) = n
  BY <1>1, <1>2, <1>3
<1>5. \A i \in 1..n : ~IsFooter(TreeCells(c)[i])
  BY <1>3 DEF IsFooter
<1> QED
  BY <1>1, <1>4, <1>5 DEF NoFooters, n

LEMMA FecCellsType ==
  ASSUME CellsOfCommands, NEW c \in Seq(Cell)
  PROVE  /\ FecCells(c) \in Seq(Cell) /\ Len(FecCells(c)) = FecLen
         /\ FecLen \in Nat /\ FecLen % BlockSize = 0
         /\ NoFooters(FecCells(c))
<1>1. FecLen \in Nat /\ FecLen % BlockSize = 0
  BY FootersAssumption
<1>2. \A i \in 1..FecLen : [fec |-> c, part |-> i] \in Cell
  <2>1. \A i \in Nat : [fec |-> c, part |-> i] \in Cell
    BY Zenon DEF CellsOfCommands
  <2>2. \A i \in 1..FecLen : i \in Nat
    BY <1>1
  <2> QED
    BY <2>1, <2>2, Zenon
<1>3. FecCells(c) = [i \in 1..FecLen |-> [fec |-> c, part |-> i]]
  BY DEF FecCells
<1>4. FecCells(c) \in Seq(Cell) /\ Len(FecCells(c)) = FecLen
  BY <1>1, <1>2, <1>3
<1>5. \A i \in 1..FecLen : ~IsFooter(FecCells(c)[i])
  BY <1>3 DEF IsFooter
<1> QED
  BY <1>1, <1>4, <1>5 DEF NoFooters

LEMMA VbmetaBlobType ==
  ASSUME CellsOfCommands, NEW d \in Descriptors
  PROVE  /\ VbmetaBlob(d) \in Seq(Cell) /\ Len(VbmetaBlob(d)) = VbmetaLen
         /\ NoFooters(VbmetaBlob(d))
         /\ VbmetaBlob(d)[1] = [vbmeta |-> d, part |-> 1]
         /\ IsVbmeta(VbmetaBlob(d)[1])
<1>1. VbmetaLen \in Nat /\ VbmetaLen > 0
  BY FootersAssumption
<1>2. \A i \in 1..VbmetaLen : [vbmeta |-> d, part |-> i] \in Cell \ DataCell
  BY <1>1 DEF CellsOfCommands
<1>3. VbmetaBlob(d) = [i \in 1..VbmetaLen |-> [vbmeta |-> d, part |-> i]]
  BY DEF VbmetaBlob
<1>4. VbmetaBlob(d) \in Seq(Cell) /\ Len(VbmetaBlob(d)) = VbmetaLen
  BY <1>1, <1>2, <1>3
<1>5. \A i \in 1..VbmetaLen : ~IsFooter(VbmetaBlob(d)[i])
  BY <1>3 DEF IsFooter
<1>6. VbmetaBlob(d)[1] = [vbmeta |-> d, part |-> 1] /\ IsVbmeta(VbmetaBlob(d)[1])
  <2>1. 1 \in 1..VbmetaLen
    BY <1>1
  <2>2. [vbmeta |-> d, part |-> 1] \notin DataCell
    BY <1>2, <2>1
  <2>3. VbmetaBlob(d)[1] = [vbmeta |-> d, part |-> 1]
    BY <1>3, <2>1
  <2> QED
    BY <2>2, <2>3 DEF IsVbmeta
<1> QED
  BY <1>4, <1>5, <1>6 DEF NoFooters

LEMMA FooterBlockType ==
  ASSUME CellsOfCommands, NEW n \in Nat, NEW m \in Nat, NEW k \in Nat
  PROVE  LET block == FooterBlock(n, m, k)
         IN  /\ block \in Seq(Cell) /\ Len(block) = BlockSize
             /\ block[BlockSize] = FooterCell(n, m, k)
             /\ IsFooter(FooterCell(n, m, k))
             /\ Clean(block)
<1> DEFINE z == Zeros(BlockSize - 1)
           c == FooterCell(n, m, k)
<1>1. BlockSize \in Nat /\ BlockSize > 0 /\ BlockSize - 1 \in Nat
  BY SizesAssumption
<1>2. z \in Seq(Cell) /\ Len(z) = BlockSize - 1 /\ NoFooters(z)
  BY <1>1, ZerosType
<1>3. c \in Cell /\ c \notin DataCell
  BY DEF CellsOfCommands
<1>4. IsFooter(c)
  BY <1>3 DEF IsFooter, FooterCell
<1>5. FooterBlock(n, m, k) = z \o << c >>
  BY DEF FooterBlock
<1> HIDE DEF z, c
<1>6. << c >> \in Seq(Cell) /\ Len(<< c >>) = 1 /\ << c >>[1] = c
  BY <1>3
<1>7. /\ z \o << c >> \in Seq(Cell) /\ Len(z \o << c >>) = (BlockSize - 1) + 1
      /\ (z \o << c >>)[Len(z) + 1] = c
  BY <1>2, <1>6
<1>8. (BlockSize - 1) + 1 = BlockSize
  BY <1>1
<1>9. Clean(z \o << c >>)
  <2>1. Clean(<< c >>)
    BY <1>6 DEF Clean
  <2> QED
    BY <1>2, <1>6, <2>1, CleanConcat
<1> QED
  BY <1>2, <1>4, <1>5, <1>7, <1>8, <1>9 DEF c

LEMMA MarkBlockType ==
  ASSUME CellsOfCommands
  PROVE  /\ MarkBlock \in Seq(Cell) /\ Len(MarkBlock) = BlockSize
         /\ NoFooters(MarkBlock)
<1> DEFINE z == Zeros(BlockSize - 1)
<1>1. BlockSize \in Nat /\ BlockSize > 0 /\ BlockSize - 1 \in Nat
  BY SizesAssumption
<1>2. z \in Seq(Cell) /\ Len(z) = BlockSize - 1 /\ NoFooters(z)
  BY <1>1, ZerosType
<1>3. MarkCell \in Cell /\ ~IsFooter(MarkCell)
  BY DEF CellsOfCommands, IsFooter, MarkCell
<1>4. /\ << MarkCell >> \in Seq(Cell) /\ Len(<< MarkCell >>) = 1
      /\ NoFooters(<< MarkCell >>)
  BY <1>3 DEF NoFooters
<1>5. MarkBlock = << MarkCell >> \o z
  BY DEF MarkBlock
<1> HIDE DEF z
<1>6. << MarkCell >> \o z \in Seq(Cell) /\ Len(<< MarkCell >> \o z) = 1 + (BlockSize - 1)
  BY <1>2, <1>4
<1>7. NoFooters(<< MarkCell >> \o z)
  BY <1>2, <1>4, NoFootersConcat
<1>8. 1 + (BlockSize - 1) = BlockSize
  BY <1>1
<1> QED
  BY <1>5, <1>6, <1>7, <1>8

LEMMA ZeroedType ==
  ASSUME CellsOfCommands, NEW c \in Seq(Cell), Len(c) % BlockSize = 0
  PROVE  /\ Zeroed(c) \in Seq(Cell) /\ Len(Zeroed(c)) = Len(c)
         /\ NoFooters(Zeroed(c))
         /\ c # << >> => /\ Len(c) - BlockSize \in Nat
                         /\ (Len(c) - BlockSize) % BlockSize = 0
                         /\ Zeroed(c) = MarkBlock \o Zeros(Len(c) - BlockSize)
<1>1. CASE c = << >>
  BY <1>1 DEF Zeroed, NoFooters
<1>2. CASE c # << >>
  <2> DEFINE n == Len(c) - BlockSize
  <2>1. Len(c) \in Nat /\ Len(c) > 0 /\ BlockSize \in Nat /\ BlockSize > 0
    BY <1>2, SizesAssumption
  <2>2. Len(c) >= BlockSize
    <3>1. CASE Len(c) < BlockSize
      BY <2>1, <3>1
    <3> QED
      BY <2>1, <3>1
  <2>3. n \in Nat /\ n % BlockSize = 0
    <3>1. BlockSize % BlockSize = 0
      BY <2>1
    <3> QED
      BY <2>1, <2>2, <3>1, SumOfMultiples
  <2>4. Zeroed(c) = MarkBlock \o Zeros(n)
    BY <1>2 DEF Zeroed
  <2>5. Len(c) = BlockSize + n
    BY <2>1
  <2> HIDE DEF n
  <2>6. Zeros(n) \in Seq(Cell) /\ Len(Zeros(n)) = n /\ NoFooters(Zeros(n))
    BY <2>3, ZerosType
  <2>7. /\ MarkBlock \in Seq(Cell) /\ Len(MarkBlock) = BlockSize
        /\ NoFooters(MarkBlock)
    BY MarkBlockType
  <2>8. /\ MarkBlock \o Zeros(n) \in Seq(Cell)
        /\ Len(MarkBlock \o Zeros(n)) = BlockSize + n
        /\ NoFooters(MarkBlock \o Zeros(n))
    BY <2>6, <2>7, NoFootersConcat, LengthOfConcat
  <2> QED
    BY <2>3, <2>4, <2>5, <2>8 DEF n
<1> QED
  BY <1>1, <1>2

-----------------------------------------------------------------------------
(* The signed image.                                                       *)

Fits(b, s) == s.kind # "none" => Gap(b, s) \in Nat /\ Gap(b, s) % BlockSize = 0
FooterOf(b, s) == FooterCell(Len(b), Len(Body(b, s)), VbmetaLen)

(* What follows the image and its hash tree.                               *)
SignedTail(b, s) ==
  Padded(VbmetaBlob(SignedDescriptor(b, s)))
    \o (Zeros(Gap(b, s)) \o FooterBlock(Len(b), Len(Body(b, s)), VbmetaLen))

LEMMA PartsType ==
  ASSUME CellsOfCommands, NEW b \in Seq(Cell), NEW s \in SignedType
  PROVE  LET tree  == SignedTree(b, s)
             codes == SignedCodes(b, s)
         IN  /\ tree \in Seq(Cell) /\ Len(tree) \in Nat /\ Len(tree) % BlockSize = 0
             /\ NoFooters(tree)
             /\ codes \in Seq(Cell) /\ Len(codes) \in Nat /\ Len(codes) % BlockSize = 0
             /\ NoFooters(codes)
<1> DEFINE data == Padded(b)
           tree == SignedTree(b, s)
           codes == SignedCodes(b, s)
<1>1. data \in Seq(Cell)
  BY PaddedType
<1> HIDE DEF data
<1>2. << >> \in Seq(Cell) /\ Len(<< >>) = 0 /\ 0 % BlockSize = 0 /\ NoFooters(<< >>)
  BY SizesAssumption DEF NoFooters
<1>3. /\ tree \in Seq(Cell) /\ Len(tree) \in Nat /\ Len(tree) % BlockSize = 0
      /\ NoFooters(tree)
  <2>1. CASE HasTreeCells(s)
    <3>1. tree = TreeCells(data)
      BY <2>1 DEF SignedTree, data
    <3> QED
      BY <1>1, <3>1, TreeCellsType
  <2>2. CASE ~HasTreeCells(s)
    <3>1. tree = << >>
      BY <2>2 DEF SignedTree
    <3> QED
      BY <1>2, <3>1
  <2> QED
    BY <2>1, <2>2
<1> HIDE DEF tree
<1>4. /\ codes \in Seq(Cell) /\ Len(codes) \in Nat /\ Len(codes) % BlockSize = 0
      /\ NoFooters(codes)
  <2>1. CASE HasTreeCells(s) /\ s.fec
    <3>1. codes = FecCells(data \o tree)
      BY <2>1 DEF SignedCodes, data, tree
    <3>2. data \o tree \in Seq(Cell)
      BY <1>1, <1>3
    <3> QED
      BY <3>1, <3>2, FecCellsType
  <2>2. CASE ~(HasTreeCells(s) /\ s.fec)
    <3>1. codes = << >>
      BY <2>2 DEF SignedCodes
    <3> QED
      BY <1>2, <3>1
  <2> QED
    BY <2>1, <2>2
<1> QED
  BY <1>3, <1>4 DEF tree

LEMMA DescriptorType ==
  ASSUME CellsOfCommands, NEW b \in Seq(Cell), NEW s \in SignedType, s.kind # "none"
  PROVE  SignedDescriptor(b, s) \in Descriptors
<1> DEFINE data == Padded(b)
           tree == SignedTree(b, s)
           codes == SignedCodes(b, s)
<1>1. /\ data \in Seq(Cell) /\ Len(data) \in Nat
      /\ Len(tree) \in Nat /\ Len(codes) \in Nat
  BY PaddedType, PartsType
<1>2. s.kind \in {"hash", "vbmeta", "hashtree"}
  BY DEF SignedType
<1>3. CASE s.kind = "hash"
  <2>1. SignedDescriptor(b, s) = HashDescriptor(b)
    BY <1>3 DEF SignedDescriptor
  <2> QED
    BY <2>1 DEF Descriptors
<1>4. CASE s.kind = "vbmeta"
  <2>1. SignedDescriptor(b, s) = NoDescriptor
    BY <1>4 DEF SignedDescriptor
  <2> QED
    BY <2>1 DEF Descriptors
<1>5. CASE s.kind = "hashtree"
  <2> DEFINE off == IF s.fec THEN Len(data) + Len(tree) ELSE 0
  <2>1. SignedDescriptor(b, s) =
          [kind |-> "hashtree", image_size |-> Len(data), digest |-> data,
           tree_offset |-> Len(data), tree_size |-> Len(tree),
           fec_offset |-> off, fec_size |-> Len(codes)]
    BY <1>5 DEF SignedDescriptor
  <2> HIDE DEF data, tree, codes
  <2>2. off \in Nat
    BY <1>1
  <2> HIDE DEF off
  <2> QED
    BY <1>1, <2>1, <2>2 DEF Descriptors
<1> QED
  BY <1>2, <1>3, <1>4, <1>5

LEMMA BodyType ==
  ASSUME CellsOfCommands, NEW b \in Seq(Cell), NEW s \in SignedType
  PROVE  /\ Body(b, s) \in Seq(Cell) /\ Len(Body(b, s)) \in Nat
         /\ Len(Body(b, s)) % BlockSize = 0
         /\ Len(Body(b, s)) =
              (Len(Padded(b)) + Len(SignedTree(b, s))) + Len(SignedCodes(b, s))
         /\ Len(b) <= Len(Padded(b)) /\ Len(Padded(b)) <= Len(Body(b, s))
         /\ Starts(Body(b, s), b) /\ Starts(Body(b, s), Padded(b))
         /\ NoFooters(b) => NoFooters(Body(b, s))
<1> DEFINE data == Padded(b)
           tree == SignedTree(b, s)
           codes == SignedCodes(b, s)
           ts == IF s.zeroed THEN Zeroed(tree) ELSE tree
           cs == IF s.zeroed THEN Zeroed(codes) ELSE codes
<1>1. /\ data \in Seq(Cell) /\ Len(data) \in Nat /\ Len(data) % BlockSize = 0
      /\ Len(b) <= Len(data) /\ Starts(data, b)
      /\ NoFooters(b) => NoFooters(data)
  BY PaddedType
<1>2. /\ tree \in Seq(Cell) /\ Len(tree) \in Nat /\ Len(tree) % BlockSize = 0
      /\ NoFooters(tree)
      /\ codes \in Seq(Cell) /\ Len(codes) \in Nat /\ Len(codes) % BlockSize = 0
      /\ NoFooters(codes)
  BY PartsType
<1>3. Body(b, s) = data \o (ts \o cs)
  BY DEF Body
<1> HIDE DEF data, tree, codes
<1>4. ts \in Seq(Cell) /\ Len(ts) = Len(tree) /\ NoFooters(ts)
  BY <1>2, ZeroedType
<1>5. cs \in Seq(Cell) /\ Len(cs) = Len(codes) /\ NoFooters(cs)
  BY <1>2, ZeroedType
<1> HIDE DEF ts, cs
<1>6. /\ ts \o cs \in Seq(Cell) /\ Len(ts \o cs) = Len(tree) + Len(codes)
      /\ NoFooters(ts \o cs)
  BY <1>4, <1>5, NoFootersConcat, LengthOfConcat
<1>7. /\ data \o (ts \o cs) \in Seq(Cell)
      /\ Len(data \o (ts \o cs)) = Len(data) + (Len(tree) + Len(codes))
      /\ NoFooters(b) => NoFooters(data \o (ts \o cs))
  BY <1>1, <1>6, NoFootersConcat, LengthOfConcat
<1>8. Starts(data \o (ts \o cs), b)
  BY <1>1, <1>6, StartsConcat
<1>9. Starts(data, data)
  <2>1. SubSeq(data, 1, Len(data)) = data /\ Len(data) <= Len(data)
    BY <1>1
  <2> QED
    BY <2>1 DEF Starts
<1>10. Starts(data \o (ts \o cs), data)
  BY <1>1, <1>6, <1>9, StartsConcat
<1> DEFINE n == Len(data)
           m == Len(tree)
           k == Len(codes)
<1>11. n \in Nat /\ m \in Nat /\ k \in Nat /\ n % BlockSize = 0 /\ m % BlockSize = 0
       /\ k % BlockSize = 0
  BY <1>1, <1>2
<1> HIDE DEF n, m, k
<1>12. /\ (m + k) % BlockSize = 0 /\ m + k \in Nat
  BY <1>11, SumOfMultiples
<1>13. (n + (m + k)) % BlockSize = 0
  BY <1>11, <1>12, SumOfMultiples
<1>14. n + (m + k) = (n + m) + k /\ n <= n + (m + k) /\ n + (m + k) \in Nat
  BY <1>11
<1> QED
  BY <1>1, <1>3, <1>7, <1>8, <1>10, <1>13, <1>14 DEF n, m, k, data, tree, codes

LEMMA MetaType ==
  ASSUME CellsOfCommands, NEW b \in Seq(Cell), NEW s \in SignedType, s.kind # "none"
  PROVE  /\ Padded(VbmetaBlob(SignedDescriptor(b, s))) \in Seq(Cell)
         /\ NoFooters(Padded(VbmetaBlob(SignedDescriptor(b, s))))
         /\ RoundUp(VbmetaLen) \in Nat /\ RoundUp(VbmetaLen) % BlockSize = 0
         /\ RoundUp(VbmetaLen) >= VbmetaLen
         /\ Len(Padded(VbmetaBlob(SignedDescriptor(b, s)))) = RoundUp(VbmetaLen)
         /\ Meta(b, s) \in Seq(Cell) /\ Len(Meta(b, s)) \in Nat
         /\ Len(Meta(b, s)) % BlockSize = 0
         /\ Len(Meta(b, s)) = Len(Body(b, s)) + RoundUp(VbmetaLen)
         /\ Starts(Meta(b, s), b)
         /\ NoFooters(b) => NoFooters(Meta(b, s))
<1> DEFINE d == SignedDescriptor(b, s)
           blob == VbmetaBlob(d)
           p == Padded(blob)
           y == Body(b, s)
<1>1. d \in Descriptors
  BY DescriptorType
<1> HIDE DEF d
<1>2. blob \in Seq(Cell) /\ Len(blob) = VbmetaLen /\ NoFooters(blob)
  BY <1>1, VbmetaBlobType
<1> HIDE DEF blob
<1>3. /\ p \in Seq(Cell) /\ Len(p) = RoundUp(VbmetaLen) /\ Len(p) \in Nat
      /\ Len(p) % BlockSize = 0 /\ NoFooters(p) /\ VbmetaLen <= Len(p)
  BY <1>2, PaddedType
<1>4. /\ y \in Seq(Cell) /\ Len(y) \in Nat /\ Len(y) % BlockSize = 0
      /\ Starts(y, b) /\ (NoFooters(b) => NoFooters(y))
  BY BodyType
<1>5. Meta(b, s) = y \o p
  BY DEF Meta, p, blob, d
<1> HIDE DEF y, p
<1>6. /\ y \o p \in Seq(Cell) /\ Len(y \o p) = Len(y) + Len(p) /\ Len(y \o p) \in Nat
      /\ Starts(y \o p, b) /\ (NoFooters(b) => NoFooters(y \o p))
  BY <1>3, <1>4, LengthOfConcat, StartsConcat, NoFootersConcat
<1>7. (Len(y) + Len(p)) % BlockSize = 0
  BY <1>3, <1>4, SumOfMultiples
<1>8. VbmetaLen \in Nat
  BY FootersAssumption
<1> QED
  BY <1>3, <1>5, <1>6, <1>7, <1>8 DEF y, p, blob, d

LEMMA LayoutIs ==
  ASSUME CellsOfCommands, NEW b \in Seq(Cell), NEW s \in SignedType, s.kind # "none",
         Fits(b, s), NoFooters(b)
  PROVE  LET image  == Layout(b, s)
             filled == Meta(b, s) \o Zeros(Gap(b, s))
             block  == FooterBlock(Len(b), Len(Body(b, s)), VbmetaLen)
         IN  /\ block \in Seq(Cell) /\ Len(block) = BlockSize /\ Clean(block)
             /\ filled \in Seq(Cell) /\ NoFooters(filled) /\ Starts(filled, b)
             /\ Len(filled) = Len(Meta(b, s)) + Gap(b, s)
             /\ Len(filled) % BlockSize = 0
             /\ image = filled \o block
             /\ image \in Seq(Cell) /\ Len(image) \in Nat
             /\ Len(image) = (Len(Meta(b, s)) + Gap(b, s)) + BlockSize
             /\ Len(image) % BlockSize = 0
             /\ image[Len(image)] = FooterOf(b, s) /\ IsFooter(FooterOf(b, s))
             /\ Starts(image, b) /\ Starts(image, Meta(b, s))
             /\ image = Body(b, s) \o SignedTail(b, s)
             /\ SignedTail(b, s) \in Seq(Cell) /\ Clean(SignedTail(b, s))
             /\ Len(SignedTail(b, s)) % BlockSize = 0
             /\ SubSeq(image, Len(Body(b, s)) + 1, Len(Body(b, s)) + VbmetaLen) =
                  VbmetaBlob(SignedDescriptor(b, s))
<1> DEFINE y == Body(b, s)
           d == SignedDescriptor(b, s)
           blob == VbmetaBlob(d)
           p == Padded(blob)
           z == Zeros(Gap(b, s))
           k == FooterBlock(Len(b), Len(y), VbmetaLen)
           n == Len(y)
<1>1. VbmetaLen \in Nat /\ Len(b) \in Nat /\ BlockSize \in Nat /\ BlockSize > 0
      /\ BlockSize % BlockSize = 0
  BY FootersAssumption, SizesAssumption
<1>2. y \in Seq(Cell) /\ n \in Nat /\ NoFooters(y) /\ n % BlockSize = 0
  BY BodyType
<1>3. /\ p \in Seq(Cell) /\ NoFooters(p) /\ Len(p) = RoundUp(VbmetaLen)
      /\ Meta(b, s) \in Seq(Cell) /\ Len(Meta(b, s)) \in Nat
      /\ Len(Meta(b, s)) % BlockSize = 0 /\ Starts(Meta(b, s), b)
      /\ NoFooters(Meta(b, s)) /\ Len(p) \in Nat /\ Len(p) % BlockSize = 0
      /\ VbmetaLen <= Len(p)
  BY MetaType
<1>4. Gap(b, s) \in Nat /\ Gap(b, s) % BlockSize = 0
  BY DEF Fits
<1>5. z \in Seq(Cell) /\ Len(z) = Gap(b, s) /\ NoFooters(z)
  BY <1>4, ZerosType
<1>6. /\ k \in Seq(Cell) /\ Len(k) = BlockSize /\ k[BlockSize] = FooterOf(b, s)
      /\ IsFooter(FooterOf(b, s)) /\ Clean(k)
  BY <1>1, <1>2, FooterBlockType DEF FooterOf
<1>7. Meta(b, s) = y \o p
  BY DEF Meta
<1>8. Layout(b, s) = (Meta(b, s) \o z) \o k
  <2>1. Layout(b, s) = Meta(b, s) \o z \o k
    BY DEF Layout
  <2> QED
    BY <2>1
<1>9. SignedTail(b, s) = p \o (z \o k)
  BY DEF SignedTail
<1>10. blob \in Seq(Cell) /\ Len(blob) = VbmetaLen
  <2>1. d \in Descriptors
    BY DescriptorType
  <2> HIDE DEF d
  <2> QED
    BY <2>1, VbmetaBlobType
<1>11. Starts(p, blob)
  <2> HIDE DEF blob
  <2> QED
    BY <1>10, PaddedType
<1> DEFINE m == Meta(b, s)
           gap == Gap(b, s)
<1>12. /\ m \in Seq(Cell) /\ Len(m) \in Nat /\ Len(m) % BlockSize = 0
       /\ Starts(m, b) /\ NoFooters(m) /\ m = y \o p
       /\ gap \in Nat /\ gap % BlockSize = 0 /\ Len(z) = gap
       /\ Layout(b, s) = (m \o z) \o k
  BY <1>3, <1>4, <1>5, <1>7, <1>8
<1> HIDE DEF y, d, blob, p, z, k, m, gap
<1>13. /\ m \o z \in Seq(Cell) /\ Len(m \o z) = Len(m) + gap /\ NoFooters(m \o z)
       /\ Starts(m \o z, b) /\ Len(m) + gap \in Nat
  BY <1>5, <1>12, LengthOfConcat, NoFootersConcat, StartsConcat
<1>14. (Len(m) + gap) % BlockSize = 0
  BY <1>12, SumOfMultiples
<1> DEFINE f == m \o z
           len == Len(m) + gap
<1>15. /\ f \in Seq(Cell) /\ Len(f) = len /\ NoFooters(f) /\ Starts(f, b)
       /\ len \in Nat /\ len % BlockSize = 0 /\ f = m \o z
  BY <1>13, <1>14
<1> HIDE DEF f, len
<1>16. /\ f \o k \in Seq(Cell) /\ Len(f \o k) = len + BlockSize
       /\ Starts(f \o k, b) /\ Len(f \o k) \in Nat
       /\ (f \o k)[len + BlockSize] = FooterOf(b, s)
  <2>1. /\ f \o k \in Seq(Cell) /\ Len(f \o k) = len + BlockSize /\ Len(f \o k) \in Nat
    BY <1>1, <1>6, <1>15, LengthOfConcat
  <2>2. Starts(f \o k, b)
    BY <1>6, <1>15, StartsConcat
  <2>3. BlockSize \in 1..Len(k)
    BY <1>1, <1>6
  <2>4. (f \o k)[Len(f) + BlockSize] = k[BlockSize]
    BY <1>6, <1>15, <2>3, CellOfConcat
  <2> QED
    BY <1>6, <1>15, <2>1, <2>2, <2>4
<1>17. (len + BlockSize) % BlockSize = 0
  BY <1>1, <1>15, SumOfMultiples
<1>18. Starts(f \o k, m)
  <2>1. Starts(m, m)
    <3>1. SubSeq(m, 1, Len(m)) = m
      BY <1>12
    <3> QED
      BY <1>12, <3>1 DEF Starts
  <2>2. Starts(m \o z, m)
    BY <1>5, <1>12, <2>1, StartsConcat
  <2> QED
    BY <1>6, <1>12, <1>15, <2>2, StartsConcat
<1>19. z \o k \in Seq(Cell) /\ Clean(z \o k) /\ Len(z \o k) = gap + BlockSize
       /\ gap + BlockSize \in Nat /\ (gap + BlockSize) % BlockSize = 0
  <2>1. z \o k \in Seq(Cell) /\ Clean(z \o k) /\ Len(z \o k) = gap + BlockSize
    BY <1>5, <1>6, <1>12, CleanConcat, LengthOfConcat
  <2> QED
    BY <1>1, <1>12, <2>1, SumOfMultiples
<1> DEFINE t == p \o (z \o k)
<1>20. t \in Seq(Cell) /\ Clean(t) /\ Len(t) % BlockSize = 0
  <2> DEFINE u == z \o k
  <2>1. u \in Seq(Cell) /\ Clean(u) /\ Len(u) \in Nat /\ Len(u) % BlockSize = 0
    BY <1>19
  <2> HIDE DEF u
  <2>2. p \o u \in Seq(Cell) /\ Clean(p \o u) /\ Len(p \o u) = Len(p) + Len(u)
    BY <1>3, <2>1, CleanConcat, LengthOfConcat
  <2>3. (Len(p) + Len(u)) % BlockSize = 0
    BY <1>3, <2>1, SumOfMultiples
  <2> QED
    BY <2>2, <2>3 DEF u
<1>21. f \o k = y \o t
  <2> DEFINE u == z \o k
  <2>1. (m \o z) \o k = m \o u
    BY <1>5, <1>6, <1>12, ConcatAssoc
  <2>2. u \in Seq(Cell)
    BY <1>19
  <2> HIDE DEF u
  <2>3. (y \o p) \o u = y \o (p \o u)
    BY <1>2, <1>3, <2>2, ConcatAssoc
  <2> QED
    BY <1>12, <1>15, <2>1, <2>3 DEF u
<1>22. SubSeq(y \o t, n + 1, n + VbmetaLen) = blob
  <2> HIDE DEF t
  <2> DEFINE u == z \o k
  <2>1. u \in Seq(Cell) /\ t = p \o u
    BY <1>19 DEF t
  <2> HIDE DEF u
  <2>2. Starts(p \o u, blob)
    BY <1>3, <1>10, <1>11, <2>1, StartsConcat
  <2>3. SubSeq(t, 1, VbmetaLen) = blob /\ VbmetaLen <= Len(t)
    BY <1>10, <2>1, <2>2 DEF Starts
  <2>4. n = Len(y)
    BY DEF y
  <2> HIDE DEF n
  <2>5. SubSeq(y \o t, n + 1, n + VbmetaLen) = SubSeq(t, 1, VbmetaLen)
    <3>1. /\ Len(y \o t) = Len(y) + Len(t) /\ Len(t) \in Nat
          /\ \A i \in 1..Len(t) : (y \o t)[Len(y) + i] = t[i]
          /\ y \o t \in Seq(Cell)
      BY <1>2, <1>20, CellOfConcat, LengthOfConcat
    <3> DEFINE q == y \o t
    <3> HIDE DEF q
    <3>2. /\ q \in Seq(Cell) /\ n + VbmetaLen <= Len(q)
          /\ \A i \in 1..VbmetaLen : q[n + i] = t[i]
      BY <1>1, <1>2, <2>3, <2>4, <3>1 DEF q
    <3>3. SubSeq(q, n + 1, n + VbmetaLen) = [i \in 1..((n + VbmetaLen) - n) |-> q[n + i]]
      BY <1>1, <1>2, <3>2, PartCells
    <3>4. SubSeq(t, 0 + 1, VbmetaLen) = [i \in 1..(VbmetaLen - 0) |-> t[0 + i]]
      BY <1>1, <1>20, <2>3, PartCells
    <3>5. (n + VbmetaLen) - n = VbmetaLen /\ VbmetaLen - 0 = VbmetaLen /\ 0 + 1 = 1
      BY <1>1, <1>2
    <3>6. \A i \in 1..VbmetaLen : 0 + i = i
      OBVIOUS
    <3>7. SubSeq(q, n + 1, n + VbmetaLen) = [i \in 1..VbmetaLen |-> q[n + i]]
      BY <3>3, <3>5, Zenon
    <3>8. SubSeq(t, 1, VbmetaLen) = [i \in 1..VbmetaLen |-> t[0 + i]]
      BY <3>4, <3>5, Zenon
    <3>9. [i \in 1..VbmetaLen |-> t[0 + i]] = [i \in 1..VbmetaLen |-> t[i]]
      BY <3>6, Zenon
    <3>10. [i \in 1..VbmetaLen |-> q[n + i]] = [i \in 1..VbmetaLen |-> t[i]]
      BY <3>2, Zenon
    <3> QED
      BY <3>7, <3>8, <3>9, <3>10, Zenon DEF q
  <2> QED
    BY <2>3, <2>5
<1>23. Len(f \o k) = (Len(m) + gap) + BlockSize
  BY <1>16 DEF len
<1>24. Layout(b, s) = f \o k
  BY <1>12 DEF f
<1>25. SignedTail(b, s) = t
  BY <1>9
<1> HIDE DEF t
<1>26. /\ SubSeq(f \o k, n + 1, n + VbmetaLen) = blob
       /\ Len(f \o k) % BlockSize = 0
       /\ (f \o k)[Len(f \o k)] = FooterOf(b, s)
  BY <1>16, <1>17, <1>21, <1>22
<1> HIDE DEF n
<1>27. /\ k \in Seq(Cell) /\ Len(k) = BlockSize /\ Clean(k)
       /\ f \in Seq(Cell) /\ NoFooters(f) /\ Starts(f, b)
       /\ Len(f) = Len(m) + gap /\ Len(f) % BlockSize = 0
       /\ Layout(b, s) = f \o k
       /\ f \o k \in Seq(Cell) /\ Len(f \o k) \in Nat
       /\ Len(f \o k) = (Len(m) + gap) + BlockSize
       /\ Len(f \o k) % BlockSize = 0
       /\ (f \o k)[Len(f \o k)] = FooterOf(b, s) /\ IsFooter(FooterOf(b, s))
       /\ Starts(f \o k, b) /\ Starts(f \o k, m)
       /\ f \o k = y \o SignedTail(b, s)
       /\ SignedTail(b, s) \in Seq(Cell) /\ Clean(SignedTail(b, s))
       /\ Len(SignedTail(b, s)) % BlockSize = 0
       /\ SubSeq(f \o k, n + 1, n + VbmetaLen) = blob
  <2>1. Len(f) = Len(m) + gap /\ Len(f) % BlockSize = 0
    BY <1>15 DEF len
  <2> QED
    BY <1>6, <1>15, <1>16, <1>18, <1>20, <1>21, <1>23, <1>24, <1>25, <1>26, <2>1
<1> QED
  BY <1>27, Zenon DEF y, d, blob, z, k, m, gap, f, n

(* A footer in the last cell and the vbmeta blob it points at are found.   *)
LEMMA FooterFound ==
  ASSUME CellsOfCommands, NEW g, NEW image, Holds(g, image), NEW n \in Nat,
         NEW k \in Nat, NEW d \in Descriptors, Len(image) > 0,
         IsFooter(FooterCell(k, n, VbmetaLen)),
         image[Len(image)] = FooterCell(k, n, VbmetaLen), n < Len(image),
         SubSeq(image, n + 1, n + VbmetaLen) = VbmetaBlob(d)
  PROVE  /\ HasFooter(g) /\ Footer(g) = FooterCell(k, n, VbmetaLen)
         /\ ParsesImage(g) /\ Descriptor(g) = d
<1>1. HasFooter(g) /\ Footer(g) = FooterCell(k, n, VbmetaLen)
  BY FooterHeld
<1>2. Footer(g).vbmeta_offset = n
  BY <1>1 DEF FooterCell
<1>3. /\ VbmetaBlob(d)[1] = [vbmeta |-> d, part |-> 1]
      /\ IsVbmeta(VbmetaBlob(d)[1])
  BY VbmetaBlobType
<1>4. VbmetaLen \in Nat /\ VbmetaLen > 0
  BY FootersAssumption
<1>5. image \in Seq(Cell) /\ Len(image) \in Nat
  BY HoldsSize
<1>6. SubSeq(image, n + 1, n + VbmetaLen)[1] = image[n + 1]
  BY <1>4, <1>5
<1>7. Read(g, n, 1).cells = << image[n + 1] >>
  <2>1. Read(g, n, 1).cells = Piece(image, n, 1)
    BY <1>5, ReadHolds
  <2> QED
    BY <1>5, <2>1, LastPiece
<1>8. VbmetaCell(g) = << VbmetaBlob(d)[1] >>
  BY <1>2, <1>6, <1>7 DEF VbmetaCell
<1>9. VbmetaCell(g)[1] = VbmetaBlob(d)[1] /\ VbmetaCell(g) # << >>
  BY <1>8
<1> QED
  BY <1>1, <1>3, <1>9 DEF ParsesImage, Descriptor

(* The image that a descriptor of s covers is the one that b is.           *)
LEMMA DigestOfBase ==
  ASSUME CellsOfCommands, NEW b \in Seq(Cell), NEW s \in SignedType,
         s.kind # "none", NEW image, Starts(image, b), Starts(image, Padded(b)),
         SignedDescriptor(b, s).kind # "none"
  PROVE  SubSeq(image, 1, SignedDescriptor(b, s).image_size) =
           SignedDescriptor(b, s).digest
<1> DEFINE d == SignedDescriptor(b, s)
<1>1. s.kind \in {"hash", "vbmeta", "hashtree"}
  BY DEF SignedType
<1>2. CASE s.kind = "hash"
  <2>1. d.image_size = Len(b) /\ d.digest = b
    BY <1>2 DEF SignedDescriptor, HashDescriptor
  <2> QED
    BY <2>1 DEF Starts
<1>3. CASE s.kind = "vbmeta"
  <2>1. d = NoDescriptor
    BY <1>3 DEF SignedDescriptor
  <2> QED
    BY <2>1 DEF NoDescriptor
<1>4. CASE s.kind = "hashtree"
  <2>1. d.image_size = Len(Padded(b)) /\ d.digest = Padded(b)
    BY <1>4 DEF SignedDescriptor
  <2> QED
    BY <2>1 DEF Starts
<1> QED
  BY <1>1, <1>2, <1>3, <1>4

LEMMA LayoutReads ==
  ASSUME CellsOfCommands, NEW b \in Seq(Cell), NEW s \in SignedType, Fits(b, s),
         NoFooters(b), NEW g, Holds(g, Layout(b, s))
  PROVE  /\ s.kind = "none" => ~HasFooter(g)
         /\ s.kind # "none" =>
              /\ HasFooter(g) /\ Footer(g) = FooterOf(b, s)
              /\ ParsesImage(g) /\ Descriptor(g) = SignedDescriptor(b, s)
         /\ Starts(Layout(b, s), b)
         /\ Harmless(g.file, b)
<1>1. CASE s.kind = "none"
  <2>1. Layout(b, s) = b
    BY <1>1 DEF Layout
  <2>2. Starts(b, b)
    <3>1. SubSeq(b, 1, Len(b)) = b /\ Len(b) <= Len(b)
      OBVIOUS
    <3> QED
      BY <3>1 DEF Starts
  <2> QED
    BY <1>1, <2>1, <2>2, NoFooterHarmless
<1>2. CASE s.kind # "none"
  <2> DEFINE image == Layout(b, s)
             d == SignedDescriptor(b, s)
             n == Len(Body(b, s))
             k == Len(b)
  <2>1. /\ image \in Seq(Cell) /\ Len(image) \in Nat
        /\ Len(image) = (Len(Meta(b, s)) + Gap(b, s)) + BlockSize
        /\ image[Len(image)] = FooterOf(b, s) /\ IsFooter(FooterOf(b, s))
        /\ Starts(image, b) /\ image = Body(b, s) \o SignedTail(b, s)
        /\ SignedTail(b, s) \in Seq(Cell)
        /\ SubSeq(image, n + 1, n + VbmetaLen) = VbmetaBlob(d)
    BY <1>2, LayoutIs
  <2>2. d \in Descriptors
    BY <1>2, DescriptorType
  <2>3. /\ Body(b, s) \in Seq(Cell) /\ n \in Nat /\ k \in Nat
        /\ k <= Len(Padded(b)) /\ Len(Padded(b)) <= n
        /\ Starts(Body(b, s), Padded(b))
    BY BodyType
  <2>4. Padded(b) \in Seq(Cell) /\ Len(Padded(b)) \in Nat
    BY PaddedType
  <2>5. Starts(image, Padded(b))
    BY <2>1, <2>3, <2>4, StartsConcat
  <2>6. Gap(b, s) \in Nat /\ BlockSize \in Nat /\ BlockSize > 0
    BY <1>2, SizesAssumption DEF Fits
  <2>7. Len(Meta(b, s)) = n + RoundUp(VbmetaLen) /\ RoundUp(VbmetaLen) \in Nat
    BY <1>2, MetaType
  <2>8. FooterOf(b, s) = FooterCell(k, n, VbmetaLen)
    BY DEF FooterOf
  <2>9. d.kind # "none" => SubSeq(image, 1, d.image_size) = d.digest
    BY <1>2, <2>1, <2>5, DigestOfBase
  <2> HIDE DEF image, d, n, k
  <2>10. n < Len(image) /\ Len(image) > 0 /\ k <= n
    <3> DEFINE u == Len(image)
               gap == Gap(b, s)
               v == RoundUp(VbmetaLen)
               p == Len(Padded(b))
    <3>1. /\ u = ((n + v) + gap) + BlockSize /\ u \in Nat /\ n \in Nat /\ k \in Nat
          /\ gap \in Nat /\ v \in Nat /\ p \in Nat /\ k <= p /\ p <= n
          /\ BlockSize \in Nat /\ BlockSize > 0
      BY <2>1, <2>3, <2>4, <2>6, <2>7
    <3> HIDE DEF u, gap, v, p
    <3>2. n < u /\ u > 0 /\ k <= n
      BY <3>1
    <3> QED
      BY <3>2 DEF u
  <2>11. Holds(g, image)
    BY DEF image
  <2>12. /\ HasFooter(g) /\ Footer(g) = FooterCell(k, n, VbmetaLen)
         /\ ParsesImage(g) /\ Descriptor(g) = d
    BY <2>1, <2>2, <2>3, <2>8, <2>10, <2>11, FooterFound
  <2>13. g = Open(g.file) /\ Content(g.file) = image
    BY <2>11, HoldsIsOpen DEF Holds
  <2>14. Verifies(g.file)
    <3>1. /\ Footer(g).vbmeta_offset = n /\ Footer(g).vbmeta_size = VbmetaLen
          /\ Footer(g).original_image_size = k
      BY <2>12 DEF FooterCell
    <3> QED
      BY <2>1, <2>9, <2>10, <2>12, <2>13, <3>1 DEF Verifies
  <2>15. Harmless(g.file, b)
    BY <2>1, <2>13, <2>14 DEF Harmless
  <2> QED
    BY <1>2, <2>1, <2>8, <2>12, <2>15 DEF image, d
<1> QED
  BY <1>1, <1>2

-----------------------------------------------------------------------------
(* The inductive invariant: what the file holds at every point of every    *)
(* command, and what the command remembers of it.  Its parts take the      *)
(* handler h, the job j, the base b and what it is signed with, s.         *)

(* What the theorems take of the constants.  The cells that the commands   *)
(* write are cells, told from data as the magic numbers tell them.  A blob *)
(* fits into MAX_VBMETA_SIZE, which the code takes for granted.  The caller*)
(* checks what append_vbmeta_image and zero_hashtree do not.  A flush whose*)
(* error Python discards is left out: behind it a command reports success  *)
(* without its footer.  Where writes fail, Startable follows an image to   *)
(* the first command that does not undo it, which Crashes says.            *)
Justified ==
  /\ CellsOfCommands
  /\ VbmetaLen <= MaxVbmeta
  /\ Careful
  /\ "lost" \notin Faults
  /\ "raise" \in Faults => Crashes

Names == Commands \cup {"none"}
Results == {"none", "ok", "refused", "error", "killed"}
Points == {"idle", "drop", "check", "grow", "tree", "fec", "vbmeta", "gap",
           "footer", "rollback", "cut", "mark", "fill", "markfec", "fillfec", "tail"}
Offsets == {n \in Nat : n % BlockSize = 0}
Footers == [footer : {TRUE}, original_image_size : Nat, vbmeta_offset : Offsets,
            vbmeta_size : Nat]
Jobs == [cmd : Names, psize : Nat, dynamic : BOOLEAN, fec : BOOLEAN,
         no_tree : BOOLEAN, orig : Nat, desc : Descriptors, end : Offsets,
         footer : Footers, tail : Seq(Cell)]

(* What the image is signed with if the command j ends well.               *)
Goal(j, s) ==
  CASE j.cmd = "add_hash_footer"     -> [Unsigned EXCEPT !.kind = "hash", !.psize = j.psize]
    [] j.cmd = "append_vbmeta_image" -> [Unsigned EXCEPT !.kind = "vbmeta", !.psize = j.psize]
    [] j.cmd = "add_hashtree_footer" ->
         [Unsigned EXCEPT !.kind = "hashtree", !.psize = j.psize,
                          !.fec = j.fec, !.no_tree = j.no_tree]
    [] j.cmd = "resize_image"        -> [s EXCEPT !.psize = j.psize]
    [] j.cmd = "zero_hashtree"       -> [s EXCEPT !.zeroed = TRUE]

Adding(j, b) == j.cmd \in Protected /\ j.orig = Len(b)

(* What the commands have checked of the size of the partition.            *)
Room(j, b) ==
  /\ j.cmd = "append_vbmeta_image" =>
       /\ j.psize % BlockSize = 0
       /\ j.psize >= (RoundUp(Len(b)) + RoundUp(VbmetaLen)) + BlockSize
  /\ j.cmd = "add_hashtree_footer" => j.psize % BlockSize = 0

Described(j, b, s) ==
  Fits(b, Goal(j, s)) /\ j.desc = SignedDescriptor(b, Goal(j, s))
Footed(j, b, s) ==
  /\ Fits(b, Goal(j, s)) /\ j.footer = FooterOf(b, Goal(j, s))
  /\ j.cmd # "add_hashtree_footer" =>
       j.end = Len(Meta(b, Goal(j, s))) /\ j.psize > 0
Finishing(j, b, s) ==
  Footed(j, b, s) /\ (Adding(j, b) \/ (j.cmd = "resize_image" /\ s.kind # "none"))
Zeroing(j, b, s) ==
  /\ j.cmd = "zero_hashtree" /\ s.kind = "hashtree" /\ Fits(b, s)
  /\ j.desc = SignedDescriptor(b, s) /\ j.tail = SignedTail(b, s)
  /\ SignedTree(b, s) # << >> /\ (s.fec => SignedCodes(b, s) # << >>)

AtIdle(h, j, r, b, s) ==
  /\ h = Closed(h.file)
  /\ \/ /\ Rests(h.file, Layout(b, s)) /\ Fits(b, s)
        /\ r = "ok" /\ j.cmd # "erase_footer" => s.kind # "none"
     \/ /\ Crashes /\ r \in {"error", "killed"} /\ Harmless(h.file, b)
        /\ ~(r = "error" /\ j.cmd \in Protected /\ ~h.file.sparse)
AtDrop(h, j, b, s) ==
  /\ j.cmd \in Protected /\ Room(j, b) /\ j.desc = NoDescriptor
  /\ Holds(h, Layout(b, s)) /\ Fits(b, s)
AtCheck(h, j, b) ==
  Adding(j, b) /\ Room(j, b) /\ j.desc = NoDescriptor /\ Holds(h, b)
AtGrow(h, j, b, s) ==
  /\ Adding(j, b) /\ j.cmd # "add_hashtree_footer" /\ j.psize > 0
  /\ Described(j, b, s) /\ Holds(h, b)
AtTree(h, j, b) ==
  /\ Adding(j, b) /\ j.cmd = "add_hashtree_footer" /\ Room(j, b)
  /\ Holds(h, Padded(b))
AtFec(h, j, b, s) ==
  /\ Adding(j, b) /\ j.cmd = "add_hashtree_footer" /\ Fits(b, Goal(j, s))
  /\ j.desc = [SignedDescriptor(b, Goal(j, s)) EXCEPT !.fec_offset = 0, !.fec_size = 0]
  /\ Holds(h, Padded(b) \o SignedTree(b, Goal(j, s)))
AtVbmeta(h, j, b, s) ==
  Adding(j, b) /\ Described(j, b, s) /\ Footed(j, b, s) /\ Holds(h, Body(b, Goal(j, s)))
AtGap(h, j, b, s) == Finishing(j, b, s) /\ Holds(h, Meta(b, Goal(j, s)))
AtFooter(h, j, b, s) ==
  Finishing(j, b, s) /\ Holds(h, Meta(b, Goal(j, s)) \o Zeros(Gap(b, Goal(j, s))))
AtCut(h, j, b, s) ==
  /\ s.kind # "none" /\ Fits(b, s) /\ Holds(h, Layout(b, s))
  /\ Zeroing(j, b, s) \/ (j.cmd = "resize_image" /\ Footed(j, b, s))
AtMark(h, j, b, s) == Zeroing(j, b, s) /\ Holds(h, Padded(b))
AtFill(h, j, b, s) == Zeroing(j, b, s) /\ Holds(h, Padded(b) \o MarkBlock)
AtMarkFec(h, j, b, s) ==
  Zeroing(j, b, s) /\ s.fec /\ Holds(h, Padded(b) \o Zeroed(SignedTree(b, s)))
AtFillFec(h, j, b, s) ==
  /\ Zeroing(j, b, s) /\ s.fec
  /\ Holds(h, (Padded(b) \o Zeroed(SignedTree(b, s))) \o MarkBlock)
AtTail(h, j, b, s) == Zeroing(j, b, s) /\ Holds(h, Body(b, Goal(j, s)))
AtRollback(h, j, b) ==
  /\ Adding(j, b) /\ h.raised = TRUE /\ (h.mem.sparse => h.file.sparse)
  /\ Harmless(h.file, b) /\ RollsBackTo(h, b)

At(h, p, j, b, s) ==
  /\ p = "drop" => AtDrop(h, j, b, s)
  /\ p = "check" => AtCheck(h, j, b)
  /\ p = "grow" => AtGrow(h, j, b, s)
  /\ p = "tree" => AtTree(h, j, b)
  /\ p = "fec" => AtFec(h, j, b, s)
  /\ p = "vbmeta" => AtVbmeta(h, j, b, s)
  /\ p = "gap" => AtGap(h, j, b, s)
  /\ p = "footer" => AtFooter(h, j, b, s)
  /\ p = "cut" => AtCut(h, j, b, s)
  /\ p = "mark" => AtMark(h, j, b, s)
  /\ p = "fill" => AtFill(h, j, b, s)
  /\ p = "markfec" => AtMarkFec(h, j, b, s)
  /\ p = "fillfec" => AtFillFec(h, j, b, s)
  /\ p = "tail" => AtTail(h, j, b, s)
  /\ p = "rollback" => AtRollback(h, j, b)

Inv(h, p, j, r, b, s) ==
  /\ p \in Points /\ j \in Jobs /\ r \in Results /\ s \in SignedType
  /\ h.mem.image_size \in Nat /\ h.raised \in BOOLEAN
  /\ BaseOK(b, h.file.sparse)
  /\ p = "idle" => AtIdle(h, j, r, b, s)
  /\ At(h, p, j, b, s)

IInv == Inv(disk, pc, job, result, base, signed)

-----------------------------------------------------------------------------
(* What the invariant gives and what it takes to establish it.             *)

LEMMA HoldsTypes ==
  ASSUME NEW h, NEW t, Holds(h, t)
  PROVE  /\ h.mem.image_size \in Nat /\ h.raised \in BOOLEAN /\ ~h.raised
         /\ h.raised = FALSE
<1>1. h.mem.image_size \in Nat
  BY HoldsSize
<1>2. h \in Handler /\ ~h.raised
  BY DEF Holds, Sound
<1> QED
  BY <1>1, <1>2 DEF Handler

LEMMA NamesInJobs ==
  ASSUME NEW cmd \in Names, NEW psize \in Nat
  PROVE  /\ Job(cmd, psize) \in Jobs /\ Job(cmd, psize).cmd = cmd
         /\ Job(cmd, psize).psize = psize /\ Job(cmd, psize).desc = NoDescriptor
<1>1. 0 \in Offsets
  BY SizesAssumption DEF Offsets
<1>2. NoFooter \in Footers
  BY <1>1 DEF NoFooter, FooterCell, Footers
<1>3. NoDescriptor \in Descriptors
  BY DEF Descriptors
<1>4. << >> \in Seq(Cell) /\ (psize = 0) \in BOOLEAN
  OBVIOUS
<1> HIDE DEF Offsets, Footers, Descriptors, NoFooter, NoDescriptor
<1> QED
  BY <1>1, <1>2, <1>3, <1>4 DEF Job, Jobs

LEMMA UnsignedType ==
  /\ Unsigned \in SignedType /\ Unsigned.kind = "none"
  /\ Unsigned = [kind |-> "none", psize |-> 0, fec |-> FALSE, no_tree |-> FALSE,
                 zeroed |-> FALSE]
BY DEF Unsigned, SignedType

LEMMA GoalType ==
  ASSUME NEW j \in Jobs, NEW s \in SignedType,
         j.cmd \in Protected \cup {"resize_image", "zero_hashtree"}
  PROVE  Goal(j, s) \in SignedType
BY UnsignedType DEF Goal, Jobs, SignedType, Protected

LEMMA ClosedFields ==
  ASSUME NEW f
  PROVE  /\ Closed(f).file = f /\ Closed(f).mem.image_size \in Nat
         /\ Closed(f).raised \in BOOLEAN /\ Closed(f) = Closed(Closed(f).file)
BY DEF Closed, Unread

(* A command that ends leaves an image at rest.                            *)
LEMMA EndIdle ==
  ASSUME NEW f, NEW j, j.cmd \in Names, NEW r \in Results, NEW b, NEW s \in SignedType,
         BaseOK(b, f.sparse),
         \/ /\ Rests(f, Layout(b, s)) /\ Fits(b, s)
            /\ r = "ok" /\ j.cmd # "erase_footer" => s.kind # "none"
         \/ /\ Crashes /\ r \in {"error", "killed"} /\ Harmless(f, b)
            /\ ~(r = "error" /\ j.cmd \in Protected /\ ~f.sparse)
  PROVE  Inv(Closed(f), "idle", Job(j.cmd, 0), r, b, s)
<1> DEFINE h == Closed(f)
           k == Job(j.cmd, 0)
<1>1. /\ h.file = f /\ h.mem.image_size \in Nat /\ h.raised \in BOOLEAN
      /\ h = Closed(h.file)
  BY ClosedFields
<1>2. k \in Jobs /\ k.cmd = j.cmd
  BY NamesInJobs
<1> HIDE DEF h, k
<1>3. AtIdle(h, k, r, b, s)
  BY <1>1, <1>2 DEF AtIdle
<1>4. At(h, "idle", k, b, s) /\ "idle" \in Points
  BY DEF At, Points
<1> QED
  BY <1>1, <1>2, <1>3, <1>4 DEF Inv, h, k

LEMMA BaseSigned ==
  ASSUME NEW b
  PROVE  Layout(b, Unsigned) = b /\ Fits(b, Unsigned)
BY UnsignedType DEF Layout, Fits

LEMMA BaseStarts ==
  ASSUME NEW b \in Seq(Cell)
  PROVE  Starts(b, b)
<1>1. SubSeq(b, 1, Len(b)) = b /\ Len(b) <= Len(b)
  OBVIOUS
<1> QED
  BY <1>1 DEF Starts

-----------------------------------------------------------------------------
(* What a file holds while a command runs has no footer in it.             *)

Clear(t, b) == t \in Seq(Cell) /\ NoFooters(t) /\ Starts(t, b)

LEMMA GoalIs ==
  ASSUME NEW j \in Jobs, NEW s \in SignedType
  PROVE  /\ j.cmd = "add_hash_footer" =>
              Goal(j, s) = [kind |-> "hash", psize |-> j.psize, fec |-> FALSE,
                            no_tree |-> FALSE, zeroed |-> FALSE]
         /\ j.cmd = "append_vbmeta_image" =>
              Goal(j, s) = [kind |-> "vbmeta", psize |-> j.psize, fec |-> FALSE,
                            no_tree |-> FALSE, zeroed |-> FALSE]
         /\ j.cmd = "add_hashtree_footer" =>
              Goal(j, s) = [kind |-> "hashtree", psize |-> j.psize, fec |-> j.fec,
                            no_tree |-> j.no_tree, zeroed |-> FALSE]
         /\ j.cmd = "resize_image" =>
              Goal(j, s) = [kind |-> s.kind, psize |-> j.psize, fec |-> s.fec,
                            no_tree |-> s.no_tree, zeroed |-> s.zeroed]
         /\ j.cmd = "zero_hashtree" =>
              Goal(j, s) = [kind |-> s.kind, psize |-> s.psize, fec |-> s.fec,
                            no_tree |-> s.no_tree, zeroed |-> TRUE]
<1>1. ASSUME j.cmd = "add_hash_footer"
      PROVE  Goal(j, s) = [kind |-> "hash", psize |-> j.psize, fec |-> FALSE,
                            no_tree |-> FALSE, zeroed |-> FALSE]
  <2>1. Goal(j, s) = [Unsigned EXCEPT !.kind = "hash", !.psize = j.psize]
    BY <1>1 DEF Goal
  <2> QED
    BY <2>1 DEF Unsigned
<1>2. ASSUME j.cmd = "append_vbmeta_image"
      PROVE  Goal(j, s) = [kind |-> "vbmeta", psize |-> j.psize, fec |-> FALSE,
                            no_tree |-> FALSE, zeroed |-> FALSE]
  <2>1. Goal(j, s) = [Unsigned EXCEPT !.kind = "vbmeta", !.psize = j.psize]
    BY <1>2 DEF Goal
  <2> QED
    BY <2>1 DEF Unsigned
<1>3. ASSUME j.cmd = "add_hashtree_footer"
      PROVE  Goal(j, s) = [kind |-> "hashtree", psize |-> j.psize, fec |-> j.fec,
                            no_tree |-> j.no_tree, zeroed |-> FALSE]
  <2>1. Goal(j, s) = [Unsigned EXCEPT !.kind = "hashtree", !.psize = j.psize,
                                      !.fec = j.fec, !.no_tree = j.no_tree]
    BY <1>3 DEF Goal
  <2> QED
    BY <2>1 DEF Unsigned
<1>4. ASSUME j.cmd = "resize_image"
      PROVE  Goal(j, s) = [kind |-> s.kind, psize |-> j.psize, fec |-> s.fec,
                            no_tree |-> s.no_tree, zeroed |-> s.zeroed]
  <2>1. Goal(j, s) = [s EXCEPT !.psize = j.psize]
    BY <1>4 DEF Goal
  <2> QED
    BY <2>1 DEF SignedType
<1>5. ASSUME j.cmd = "zero_hashtree"
      PROVE  Goal(j, s) = [kind |-> s.kind, psize |-> s.psize, fec |-> s.fec,
                            no_tree |-> s.no_tree, zeroed |-> TRUE]
  <2>1. Goal(j, s) = [s EXCEPT !.zeroed = TRUE]
    BY <1>5 DEF Goal
  <2> QED
    BY <2>1 DEF SignedType
<1> QED
  BY <1>1, <1>2, <1>3, <1>4, <1>5

LEMMA GoalKind ==
  ASSUME NEW j \in Jobs, NEW s \in SignedType,
         \/ j.cmd \in Protected
         \/ j.cmd \in {"resize_image", "zero_hashtree"} /\ s.kind # "none"
  PROVE  Goal(j, s) \in SignedType /\ Goal(j, s).kind # "none"
<1>1. Goal(j, s) \in SignedType
  BY GoalType DEF Protected
<1>2. j.cmd = "add_hash_footer" => Goal(j, s).kind = "hash"
  BY GoalIs
<1>3. j.cmd = "append_vbmeta_image" => Goal(j, s).kind = "vbmeta"
  BY GoalIs
<1>4. j.cmd = "add_hashtree_footer" => Goal(j, s).kind = "hashtree"
  BY GoalIs
<1>5. j.cmd \in {"resize_image", "zero_hashtree"} => Goal(j, s).kind = s.kind
  BY GoalIs
<1> QED
  BY <1>1, <1>2, <1>3, <1>4, <1>5 DEF Protected

LEMMA ClearConcat ==
  ASSUME NEW b \in Seq(Cell), NEW t, Clear(t, b), NEW u \in Seq(Cell), NoFooters(u)
  PROVE  Clear(t \o u, b)
<1>1. t \in Seq(Cell) /\ NoFooters(t) /\ Starts(t, b)
  BY DEF Clear
<1> QED
  BY <1>1, LengthOfConcat, NoFootersConcat, StartsConcat DEF Clear

LEMMA ClearParts ==
  ASSUME CellsOfCommands, NEW b \in Seq(Cell), NoFooters(b), NEW s \in SignedType
  PROVE  /\ Clear(b, b) /\ Clear(Padded(b), b)
         /\ Clear(Padded(b) \o MarkBlock, b)
         /\ Clear(Padded(b) \o SignedTree(b, s), b)
         /\ Clear(Padded(b) \o Zeroed(SignedTree(b, s)), b)
         /\ Clear((Padded(b) \o Zeroed(SignedTree(b, s))) \o MarkBlock, b)
         /\ Clear(Body(b, s), b)
         /\ s.kind # "none" => Clear(Meta(b, s), b)
         /\ s.kind # "none" /\ Fits(b, s) => Clear(Meta(b, s) \o Zeros(Gap(b, s)), b)
<1> DEFINE p == Padded(b)
           tree == SignedTree(b, s)
           zeroed == Zeroed(tree)
<1>1. Clear(b, b)
  BY BaseStarts DEF Clear
<1>2. Clear(p, b)
  BY PaddedType DEF Clear
<1>3. MarkBlock \in Seq(Cell) /\ NoFooters(MarkBlock)
  BY MarkBlockType
<1>4. tree \in Seq(Cell) /\ NoFooters(tree) /\ Len(tree) % BlockSize = 0
  BY PartsType
<1> HIDE DEF p, tree
<1>5. zeroed \in Seq(Cell) /\ NoFooters(zeroed)
  BY <1>4, ZeroedType
<1> HIDE DEF zeroed
<1>6. Clear(p \o MarkBlock, b)
  BY <1>2, <1>3, ClearConcat
<1>7. Clear(p \o tree, b)
  BY <1>2, <1>4, ClearConcat
<1>8. Clear(p \o zeroed, b)
  BY <1>2, <1>5, ClearConcat
<1> DEFINE pz == p \o zeroed
<1>9. Clear(pz \o MarkBlock, b)
  <2>1. Clear(pz, b)
    BY <1>8
  <2> HIDE DEF pz
  <2> QED
    BY <2>1, <1>3, ClearConcat
<1>10. Clear(Body(b, s), b)
  BY BodyType DEF Clear
<1>11. ASSUME s.kind # "none" PROVE Clear(Meta(b, s), b)
  BY <1>11, MetaType DEF Clear
<1>12. ASSUME s.kind # "none", Fits(b, s)
       PROVE  Clear(Meta(b, s) \o Zeros(Gap(b, s)), b)
  <2> DEFINE gap == Gap(b, s)
             m == Meta(b, s)
  <2>1. gap \in Nat
    BY <1>12 DEF Fits
  <2>2. Clear(m, b)
    BY <1>11, <1>12
  <2> HIDE DEF gap, m
  <2>3. Zeros(gap) \in Seq(Cell) /\ NoFooters(Zeros(gap))
    BY <2>1, ZerosType
  <2>4. Clear(m \o Zeros(gap), b)
    BY <2>2, <2>3, ClearConcat
  <2> QED
    BY <2>4 DEF gap, m
<1> QED
  BY <1>1, <1>2, <1>6, <1>7, <1>8, <1>9, <1>10, <1>11, <1>12 DEF p, tree, zeroed

LEMMA ClearHarmless ==
  ASSUME NEW h, NEW t, Holds(h, t), NEW b, Clear(t, b)
  PROVE  Harmless(h.file, b)
BY NoFooterHarmless DEF Clear

LEMMA SignedHarmless ==
  ASSUME CellsOfCommands, NEW b \in Seq(Cell), NoFooters(b), NEW s \in SignedType,
         Fits(b, s), NEW h, Holds(h, Layout(b, s))
  PROVE  Harmless(h.file, b)
BY LayoutReads

LEMMA BaseTypes ==
  ASSUME NEW b, NEW sparse \in BOOLEAN, BaseOK(b, sparse)
  PROVE  /\ b \in Seq(Cell) /\ NoFooters(b) /\ Len(b) \in Nat
         /\ sparse => Len(b) % BlockSize = 0
         /\ ~sparse => Len(b) >= HeaderLen
BY DEF BaseOK

(* Whatever the point, the image starts with the original image, and       *)
(* verifies if it ends with a footer.                                      *)
LEMMA InvHarmless ==
  ASSUME CellsOfCommands, NEW h, NEW p, NEW j, NEW r, NEW b, NEW s,
         Inv(h, p, j, r, b, s)
  PROVE  Harmless(h.file, b)
<1>1. /\ p \in Points /\ j \in Jobs /\ s \in SignedType
      /\ b \in Seq(Cell) /\ NoFooters(b)
      /\ p = "idle" => AtIdle(h, j, r, b, s)
      /\ At(h, p, j, b, s)
  BY DEF Inv, BaseOK
<1>2. ASSUME NEW t, Holds(h, t), Clear(t, b) PROVE Harmless(h.file, b)
  BY <1>2, ClearHarmless
<1>3. CASE p = "idle"
  <2>1. CASE Rests(h.file, Layout(b, s)) /\ Fits(b, s)
    <3>1. Holds(Open(h.file), Layout(b, s)) /\ Open(h.file).file = h.file
      BY <2>1, RestsOpens
    <3> QED
      BY <1>1, <2>1, <3>1, SignedHarmless
  <2>2. CASE Harmless(h.file, b)
    BY <2>2
  <2> QED
    BY <1>1, <1>3, <2>1, <2>2 DEF AtIdle
<1>4. CASE p = "rollback"
  BY <1>1, <1>4 DEF At, AtRollback
<1>5. CASE p \in {"drop", "cut"}
  <2>1. Fits(b, s) /\ Holds(h, Layout(b, s))
    BY <1>1, <1>5 DEF At, AtDrop, AtCut
  <2> QED
    BY <1>1, <2>1, SignedHarmless
<1>6. CASE p \in {"check", "grow"}
  <2>1. Holds(h, b)
    BY <1>1, <1>6 DEF At, AtCheck, AtGrow
  <2> QED
    BY <1>1, <2>1, <1>2, ClearParts
<1>7. CASE p \in {"tree", "mark"}
  <2>1. Holds(h, Padded(b))
    BY <1>1, <1>7 DEF At, AtTree, AtMark
  <2> QED
    BY <1>1, <2>1, <1>2, ClearParts
<1>8. CASE p = "fec"
  <2> DEFINE g == Goal(j, s)
  <2>1. Holds(h, Padded(b) \o SignedTree(b, g)) /\ j.cmd \in Protected
    BY <1>1, <1>8 DEF At, AtFec, Adding
  <2>2. g \in SignedType
    BY <1>1, <2>1, GoalKind
  <2> HIDE DEF g
  <2>3. Clear(Padded(b) \o SignedTree(b, g), b)
    BY <1>1, <2>2, ClearParts
  <2> QED
    BY <2>1, <2>3, <1>2
<1>9. CASE p \in {"vbmeta", "tail"}
  <2> DEFINE g == Goal(j, s)
  <2>1. Holds(h, Body(b, g)) /\ j.cmd \in Protected \cup {"zero_hashtree"}
    BY <1>1, <1>9 DEF At, AtVbmeta, AtTail, Adding, Zeroing
  <2>2. g \in SignedType
    BY <1>1, <2>1, GoalType
  <2> HIDE DEF g
  <2>3. Clear(Body(b, g), b)
    BY <1>1, <2>2, ClearParts
  <2> QED
    BY <2>1, <2>3, <1>2
<1>10. CASE p = "gap"
  <2> DEFINE g == Goal(j, s)
  <2>1. /\ Holds(h, Meta(b, g))
        /\ j.cmd \in Protected \/ (j.cmd = "resize_image" /\ s.kind # "none")
    BY <1>1, <1>10 DEF At, AtGap, Finishing, Adding
  <2>2. g \in SignedType /\ g.kind # "none"
    BY <1>1, <2>1, GoalKind
  <2> HIDE DEF g
  <2>3. Clear(Meta(b, g), b)
    BY <1>1, <2>2, ClearParts
  <2> QED
    BY <2>1, <2>3, <1>2
<1>11. CASE p = "footer"
  <2> DEFINE g == Goal(j, s)
  <2>1. /\ Holds(h, Meta(b, g) \o Zeros(Gap(b, g))) /\ Fits(b, g)
        /\ j.cmd \in Protected \/ (j.cmd = "resize_image" /\ s.kind # "none")
    BY <1>1, <1>11 DEF At, AtFooter, Finishing, Footed, Adding
  <2>2. g \in SignedType /\ g.kind # "none"
    BY <1>1, <2>1, GoalKind
  <2> HIDE DEF g
  <2>3. Clear(Meta(b, g) \o Zeros(Gap(b, g)), b)
    BY <1>1, <2>1, <2>2, ClearParts
  <2> QED
    BY <2>1, <2>3, <1>2
<1>12. CASE p = "fill"
  <2>1. Holds(h, Padded(b) \o MarkBlock)
    BY <1>1, <1>12 DEF At, AtFill
  <2> QED
    BY <1>1, <2>1, <1>2, ClearParts
<1>13. CASE p = "markfec"
  <2>1. Holds(h, Padded(b) \o Zeroed(SignedTree(b, s)))
    BY <1>1, <1>13 DEF At, AtMarkFec
  <2>2. Clear(Padded(b) \o Zeroed(SignedTree(b, s)), b)
    BY <1>1, ClearParts
  <2> QED
    BY <2>1, <2>2, <1>2
<1>14. CASE p = "fillfec"
  <2>1. Holds(h, (Padded(b) \o Zeroed(SignedTree(b, s))) \o MarkBlock)
    BY <1>1, <1>14 DEF At, AtFillFec
  <2>2. Clear((Padded(b) \o Zeroed(SignedTree(b, s))) \o MarkBlock, b)
    BY <1>1, ClearParts
  <2> QED
    BY <2>1, <2>2, <1>2
<1> QED
  BY <1>1, <1>3, <1>4, <1>5, <1>6, <1>7, <1>8, <1>9, <1>10, <1>11, <1>12, <1>13, <1>14
     DEF Points

-----------------------------------------------------------------------------
(* How a step of a command ends.                                           *)

LEMMA InvTypes ==
  ASSUME IInv
  PROVE  /\ pc \in Points /\ job \in Jobs /\ result \in Results /\ signed \in SignedType
         /\ base \in Seq(Cell) /\ NoFooters(base) /\ Len(base) \in Nat
         /\ BaseOK(base, disk.file.sparse)
         /\ disk.mem.image_size \in Nat
         /\ At(disk, pc, job, base, signed)
BY DEF IInv, Inv, BaseOK

LEMMA PrimedInv ==
  ASSUME NEW h, NEW p, NEW j, NEW r, NEW b, NEW s, Inv(h, p, j, r, b, s),
         disk' = h, pc' = p, job' = j, result' = r, base' = b, signed' = s
  PROVE  IInv'
BY DEF IInv

LEMMA NextPoint ==
  ASSUME NEW h, NEW t, Holds(h, t), NEW p \in Points, p # "idle", NEW j \in Jobs,
         NEW r \in Results, NEW b, NEW s \in SignedType, BaseOK(b, h.file.sparse),
         At(h, p, j, b, s)
  PROVE  Inv(h, p, j, r, b, s)
BY HoldsTypes DEF Inv

LEMMA RollbackPoint ==
  ASSUME NEW h, NEW g, NEW b, Stopped(h, g, b), BaseOK(b, g.file.sparse),
         NEW j \in Jobs, Adding(j, b), NEW r \in Results, NEW s \in SignedType
  PROVE  Inv(h, "rollback", j, r, b, s)
<1>1. /\ h.raised = TRUE /\ h.mem.image_size \in Nat
      /\ h.file.sparse = g.file.sparse /\ BaseOK(b, h.file.sparse)
      /\ AtRollback(h, j, b)
  BY DEF Stopped, AtRollback
<1>2. At(h, "rollback", j, b, s) /\ "rollback" \in Points
  BY <1>1 DEF At, Points
<1> QED
  BY <1>1, <1>2 DEF Inv

LEMMA FailedPoint ==
  ASSUME NEW h, NEW g, NEW b, Stopped(h, g, b), BaseOK(b, g.file.sparse), Crashes,
         NEW j, j.cmd \in Names, j.cmd \notin Protected
  PROVE  Inv(Closed(h.file), "idle", Job(j.cmd, 0), "error", b, Unsigned)
<1>1. Harmless(h.file, b) /\ BaseOK(b, h.file.sparse)
  BY DEF Stopped
<1>2. "error" \in Results /\ Unsigned \in SignedType
  BY UnsignedType DEF Results
<1> QED
  BY <1>1, <1>2, EndIdle

(* The handler has raised: the command rolls back, or ends.                *)
LEMMA RaisedStep ==
  ASSUME Justified, IInv, pc # "idle", NEW j \in Jobs,
         j.cmd = job.cmd, NEW h, Stopped(h, disk, base),
         "raise" \in Faults, j.cmd \in Protected => Adding(j, base),
         \/ job.cmd \in Protected /\ Continue(h, j, "rollback")
         \/ job.cmd \notin Protected /\ Fail(h.file, j),
         base' = base
  PROVE  IInv'
<1>1. /\ result \in Results /\ signed \in SignedType /\ BaseOK(base, disk.file.sparse)
      /\ j.cmd \in Names
  BY InvTypes DEF Jobs
<1>2. CASE job.cmd \in Protected
  <2>1. Inv(h, "rollback", j, result, base, signed)
    BY <1>1, <1>2, RollbackPoint
  <2>2. /\ disk' = h /\ pc' = "rollback" /\ job' = j /\ result' = result
        /\ signed' = signed
    BY <1>2 DEF Continue
  <2> QED
    BY <2>1, <2>2, PrimedInv
<1>3. CASE job.cmd \notin Protected
  <2>1. Crashes
    BY DEF Justified
  <2>2. Inv(Closed(h.file), "idle", Job(j.cmd, 0), "error", base, Unsigned)
    BY <1>1, <1>3, <2>1, FailedPoint
  <2>3. /\ disk' = Closed(h.file) /\ pc' = "idle" /\ job' = Job(j.cmd, 0)
        /\ result' = "error" /\ signed' = Unsigned
    BY <1>3 DEF Fail, End
  <2> QED
    BY <2>2, <2>3, PrimedInv
<1> QED
  BY <1>2, <1>3

(* A step that calls the handler goes on with what it has written, or it   *)
(* has raised and the command rolls back or ends.                          *)
LEMMA AttemptStep ==
  ASSUME Justified, IInv, pc # "idle", NEW t, NEW j \in Jobs, j.cmd = job.cmd,
         j.cmd \in Protected => Adding(j, base),
         NEW outcomes, \A h \in outcomes : Written(h, disk, base, t),
         NEW next, Attempt(outcomes, j, next), base' = base
  PROVE  \/ /\ Done(disk', disk, t) /\ pc' = next /\ job' = j
            /\ result' = result /\ signed' = signed
         \/ IInv'
<1>1. /\ result \in Results /\ signed \in SignedType /\ BaseOK(base, disk.file.sparse)
  BY InvTypes
<1>2. PICK h \in outcomes :
        CASE ~h.raised -> Continue(h, j, next)
          [] h.raised /\ job.cmd \in Protected -> Continue(h, j, "rollback")
          [] h.raised /\ job.cmd \notin Protected -> Fail(h.file, j)
  BY DEF Attempt
<1>3. Written(h, disk, base, t)
  BY <1>2
<1>4. CASE Done(h, disk, t)
  <2>1. h.raised = FALSE
    BY <1>4, HoldsTypes DEF Done
  <2>2. Continue(h, j, next)
    BY <1>2, <2>1
  <2> QED
    BY <1>4, <2>2 DEF Continue
<1>5. CASE "raise" \in Faults /\ Stopped(h, disk, base)
  <2>1. h.raised = TRUE
    BY <1>5 DEF Stopped
  <2>2. \/ job.cmd \in Protected /\ Continue(h, j, "rollback")
        \/ job.cmd \notin Protected /\ Fail(h.file, j)
    BY <1>2, <2>1
  <2> QED
    BY <1>5, <2>2, RaisedStep
<1> QED
  BY <1>3, <1>4, <1>5 DEF Written

(* A call that cannot fail.                                                *)
LEMMA SureStep ==
  ASSUME NEW t, NEW h, Done(h, disk, t), NEW j, NEW next, Attempt({h}, j, next)
  PROVE  /\ disk' = h /\ pc' = next /\ job' = j
         /\ result' = result /\ signed' = signed
<1>1. h.raised = FALSE
  BY HoldsTypes DEF Done
<1>2. \E g \in {h} :
        CASE ~g.raised -> Continue(g, j, next)
          [] g.raised /\ job.cmd \in Protected -> Continue(g, j, "rollback")
          [] g.raised /\ job.cmd \notin Protected -> Fail(g.file, j)
  BY DEF Attempt
<1>3. Continue(h, j, next)
  BY <1>1, <1>2
<1> QED
  BY <1>3 DEF Continue

(* The command raises although the image is as it should be.               *)
LEMMA RaisingStep ==
  ASSUME IInv, NEW t, Holds(disk, t), Clear(t, base), NEW j \in Jobs,
         Adding(j, base), Continue(Raising(disk), j, "rollback"), base' = base
  PROVE  IInv'
<1>1. /\ result \in Results /\ signed \in SignedType /\ BaseOK(base, disk.file.sparse)
  BY InvTypes
<1>2. Stopped(Raising(disk), disk, base)
  BY <1>1, RaisingStopped DEF Clear
<1>3. Inv(Raising(disk), "rollback", j, result, base, signed)
  BY <1>1, <1>2, RollbackPoint
<1>4. /\ disk' = Raising(disk) /\ pc' = "rollback" /\ job' = j /\ result' = result
      /\ signed' = signed
  BY DEF Continue
<1> QED
  BY <1>3, <1>4, PrimedInv

(* A command that raises before it has written leaves the image alone.     *)
LEMMA RefusedStep ==
  ASSUME IInv, NEW f, NEW s \in SignedType, Rests(f, Layout(base, s)), Fits(base, s),
         f.sparse = disk.file.sparse, NEW j, j.cmd \in Names,
         NEW how \in {"refused", "error"}, End(f, j, how, s), base' = base
  PROVE  IInv'
<1>1. BaseOK(base, f.sparse) /\ how \in Results /\ how # "ok"
  BY InvTypes DEF Results
<1>2. Inv(Closed(f), "idle", Job(j.cmd, 0), how, base, s)
  BY <1>1, EndIdle
<1>3. /\ disk' = Closed(f) /\ pc' = "idle" /\ job' = Job(j.cmd, 0)
      /\ result' = how /\ signed' = s
  BY DEF End
<1> QED
  BY <1>2, <1>3, PrimedInv

(* A command that ends well.                                               *)
LEMMA EndedStep ==
  ASSUME NEW f, NEW b, NEW s \in SignedType, Rests(f, Layout(b, s)), Fits(b, s),
         BaseOK(b, f.sparse), NEW j, j.cmd \in Names,
         j.cmd # "erase_footer" => s.kind # "none",
         End(f, j, "ok", s), base' = b
  PROVE  IInv'
<1>1. "ok" \in Results
  BY DEF Results
<1>2. Inv(Closed(f), "idle", Job(j.cmd, 0), "ok", b, s)
  BY <1>1, EndIdle
<1>3. /\ disk' = Closed(f) /\ pc' = "idle" /\ job' = Job(j.cmd, 0)
      /\ result' = "ok" /\ signed' = s
  BY DEF End
<1> QED
  BY <1>2, <1>3, PrimedInv

-----------------------------------------------------------------------------
(* A kill and a rollback, from any point.                                  *)

LEMMA KillKeeps ==
  ASSUME Justified, IInv, Kill
  PROVE  IInv'
<1>1. /\ Crashes /\ base' = base
      /\ disk' = Closed(disk.file) /\ pc' = "idle" /\ job' = Job(job.cmd, 0)
      /\ result' = "killed" /\ signed' = Unsigned
  BY DEF Kill, End
<1>2. Harmless(disk.file, base)
  BY InvHarmless DEF Justified, IInv
<1>3. BaseOK(base, disk.file.sparse) /\ job.cmd \in Names
  BY InvTypes DEF Jobs
<1>4. "killed" \in Results /\ Unsigned \in SignedType
  BY UnsignedType DEF Results
<1>5. Inv(Closed(disk.file), "idle", Job(job.cmd, 0), "killed", base, Unsigned)
  BY <1>1, <1>2, <1>3, <1>4, EndIdle
<1> QED
  BY <1>1, <1>5, PrimedInv

LEMMA RollbackKeeps ==
  ASSUME Justified, IInv, Rollback
  PROVE  IInv'
<1>1. /\ job.cmd \in Names /\ BaseOK(base, disk.file.sparse)
      /\ Adding(job, base) /\ (disk.mem.sparse => disk.file.sparse)
      /\ Harmless(disk.file, base) /\ RollsBackTo(disk, base)
  BY InvTypes DEF Rollback, At, AtRollback, Jobs
<1>2. "error" \in Results /\ Unsigned \in SignedType
  BY UnsignedType DEF Results
<1>3. base' = base /\ pc = "rollback"
  BY DEF Rollback
<1> DEFINE f == Truncate([disk EXCEPT !.raised = FALSE], Len(base)).file
<1>4. CASE Fail(Truncate([disk EXCEPT !.raised = FALSE], job.orig).file, job)
  <2>1. Fail(f, job)
    BY <1>1, <1>4 DEF Adding
  <2>2. /\ f.sparse = disk.file.sparse
        /\ Rests(f, base) \/ ("raise" \in Faults /\ f.sparse /\ Harmless(f, base))
    BY <1>1 DEF RollsBackTo
  <2> HIDE DEF f
  <2>3. \/ Rests(f, Layout(base, Unsigned)) /\ Fits(base, Unsigned)
        \/ Crashes /\ Harmless(f, base) /\ f.sparse
    BY <2>2, BaseSigned DEF Justified
  <2>4. BaseOK(base, f.sparse)
    BY <1>1, <2>2
  <2>5. Inv(Closed(f), "idle", Job(job.cmd, 0), "error", base, Unsigned)
    BY <1>1, <1>2, <2>3, <2>4, EndIdle
  <2>6. /\ disk' = Closed(f) /\ pc' = "idle" /\ job' = Job(job.cmd, 0)
        /\ result' = "error" /\ signed' = Unsigned
    BY <1>3, <2>1 DEF Fail, End
  <2> QED
    BY <1>3, <2>5, <2>6, PrimedInv
<1>5. CASE disk.mem.sparse /\ "raise" \in Faults /\ Fail(disk.file, job)
  <2>1. Crashes /\ disk.file.sparse
    BY <1>1, <1>5 DEF Justified
  <2>2. Inv(Closed(disk.file), "idle", Job(job.cmd, 0), "error", base, Unsigned)
    BY <1>1, <1>2, <2>1, EndIdle
  <2>3. /\ disk' = Closed(disk.file) /\ pc' = "idle" /\ job' = Job(job.cmd, 0)
        /\ result' = "error" /\ signed' = Unsigned
    BY <1>3, <1>5 DEF Fail, End
  <2> QED
    BY <1>3, <2>2, <2>3, PrimedInv
<1> QED
  BY <1>4, <1>5 DEF Rollback

-----------------------------------------------------------------------------
(* The layouts of the images that the commands make of one base.           *)

LEMMA RoundUpShift ==
  ASSUME NEW n \in Nat, n % BlockSize = 0, NEW m \in Nat
  PROVE  RoundUp(n + m) = n + RoundUp(m)
<1> DEFINE r == RoundUp(m)
           q == RoundUp(n + m)
<1>1. r \in Nat /\ r % BlockSize = 0 /\ m <= r
  BY RoundUpIs
<1>2. n + m \in Nat
  OBVIOUS
<1>3. q \in Nat /\ q % BlockSize = 0 /\ n + m <= q
  BY <1>2, RoundUpIs
<1>4. q <= n + r
  <2> HIDE DEF r
  <2>1. n + r \in Nat /\ n + m <= n + r /\ (n + r) % BlockSize = 0
    BY <1>1, SumOfMultiples
  <2> QED
    BY <1>2, <2>1, RoundUpLeast
<1>5. r <= q - n
  <2> HIDE DEF q
  <2>1. q - n \in Nat /\ m <= q - n
    BY <1>3
  <2>2. (q - n) % BlockSize = 0
    BY <1>3, <2>1, SumOfMultiples
  <2> QED
    BY <2>1, <2>2, RoundUpLeast
<1> HIDE DEF r, q
<1>6. q = n + r
  BY <1>1, <1>3, <1>4, <1>5
<1> QED
  BY <1>6 DEF q, r

LEMMA GapFits ==
  ASSUME CellsOfCommands, NEW b \in Seq(Cell), NEW s \in SignedType, s.kind # "none",
         s.psize % BlockSize = 0, s.psize > 0, s.psize >= Len(Meta(b, s)) + BlockSize
  PROVE  Fits(b, s) /\ Gap(b, s) = (s.psize - Len(Meta(b, s))) - BlockSize
<1> DEFINE n == Len(Meta(b, s))
           p == s.psize
<1>1. n \in Nat /\ n % BlockSize = 0
  BY MetaType
<1>2. p \in Nat /\ p % BlockSize = 0 /\ p >= n + BlockSize /\ p > 0
  BY DEF SignedType
<1>3. Gap(b, s) = (p - n) - BlockSize
  BY <1>2 DEF Gap
<1> HIDE DEF n, p
<1>4. BlockSize \in Nat /\ BlockSize % BlockSize = 0
  BY SizesAssumption
<1>5. p - n \in Nat /\ (p - n) % BlockSize = 0
  <2>1. p - n \in Nat /\ p \in Int /\ n \in Int
    BY <1>1, <1>2, <1>4
  <2>2. (p - n) % BlockSize = 0
    BY <1>1, <1>2, <2>1, SumOfMultiples
  <2> QED
    BY <2>1, <2>2
<1>6. (p - n) - BlockSize \in Nat /\ ((p - n) - BlockSize) % BlockSize = 0
  <2> DEFINE k == p - n
  <2>1. k \in Nat /\ k % BlockSize = 0 /\ k >= BlockSize
    BY <1>1, <1>2, <1>4, <1>5
  <2> HIDE DEF k
  <2>2. k - BlockSize \in Nat
    BY <1>4, <2>1
  <2>3. k \in Int /\ BlockSize \in Int
    BY <1>4, <2>1
  <2>4. (k - BlockSize) % BlockSize = 0
    BY <1>4, <2>1, <2>3, SumOfMultiples
  <2> QED
    BY <2>2, <2>4 DEF k
<1> QED
  BY <1>3, <1>6 DEF Fits, n, p

LEMMA GapDynamic ==
  ASSUME NEW b, NEW s, s.psize = 0
  PROVE  Fits(b, s) /\ Gap(b, s) = 0
<1>1. Gap(b, s) = 0
  BY DEF Gap
<1>2. 0 % BlockSize = 0
  BY SizesAssumption
<1> QED
  BY <1>1, <1>2 DEF Fits

(* The zeros of a hash tree make a difference to the body only, and the    *)
(* size of the partition only to the gap.                                  *)
LEMMA SignedAlike ==
  ASSUME CellsOfCommands, NEW b \in Seq(Cell), NEW s \in SignedType,
         NEW u \in SignedType, u.kind = s.kind, u.fec = s.fec, u.no_tree = s.no_tree
  PROVE  /\ SignedTree(b, u) = SignedTree(b, s)
         /\ SignedCodes(b, u) = SignedCodes(b, s)
         /\ SignedDescriptor(b, u) = SignedDescriptor(b, s)
         /\ Len(Body(b, u)) = Len(Body(b, s))
         /\ FooterOf(b, u) = FooterOf(b, s)
         /\ s.kind # "none" => Len(Meta(b, u)) = Len(Meta(b, s))
         /\ s.kind # "none" /\ u.psize = s.psize => Gap(b, u) = Gap(b, s)
         /\ s.kind # "none" /\ u.psize = s.psize => SignedTail(b, u) = SignedTail(b, s)
         /\ u.zeroed = s.zeroed => Body(b, u) = Body(b, s)
         /\ u.zeroed = s.zeroed => Meta(b, u) = Meta(b, s)
<1>1. HasTreeCells(u) <=> HasTreeCells(s)
  BY DEF HasTreeCells
<1>2. SignedTree(b, u) = SignedTree(b, s)
  BY <1>1 DEF SignedTree
<1>3. SignedCodes(b, u) = SignedCodes(b, s)
  <2>1. (HasTreeCells(u) /\ u.fec) <=> (HasTreeCells(s) /\ s.fec)
    BY <1>1
  <2> QED
    BY <1>2, <2>1 DEF SignedCodes
<1>4. SignedDescriptor(b, u) = SignedDescriptor(b, s)
  BY <1>2, <1>3 DEF SignedDescriptor
<1>5. Len(Body(b, u)) = Len(Body(b, s))
  <2>1. /\ Len(Body(b, u)) =
             (Len(Padded(b)) + Len(SignedTree(b, u))) + Len(SignedCodes(b, u))
        /\ Len(Body(b, s)) =
             (Len(Padded(b)) + Len(SignedTree(b, s))) + Len(SignedCodes(b, s))
    BY BodyType
  <2> QED
    BY <1>2, <1>3, <2>1
<1>6. FooterOf(b, u) = FooterOf(b, s)
  BY <1>5 DEF FooterOf
<1>7. s.kind # "none" => Len(Meta(b, u)) = Len(Meta(b, s))
  BY <1>5, MetaType
<1>8. s.kind # "none" /\ u.psize = s.psize => Gap(b, u) = Gap(b, s)
  BY <1>7 DEF Gap
<1>9. s.kind # "none" /\ u.psize = s.psize => SignedTail(b, u) = SignedTail(b, s)
  BY <1>4, <1>5, <1>8 DEF SignedTail
<1>10. u.zeroed = s.zeroed => Body(b, u) = Body(b, s)
  BY <1>2, <1>3 DEF Body
<1>11. u.zeroed = s.zeroed => Meta(b, u) = Meta(b, s)
  BY <1>4, <1>10 DEF Meta
<1> QED
  BY <1>2, <1>3, <1>4, <1>5, <1>6, <1>7, <1>8, <1>9, <1>10, <1>11

LEMMA PlainBody ==
  ASSUME NEW b \in Seq(Cell), NEW s, s.kind \in {"hash", "vbmeta"}
  PROVE  /\ SignedTree(b, s) = << >> /\ SignedCodes(b, s) = << >>
         /\ Body(b, s) = Padded(b)
<1>1. SignedTree(b, s) = << >> /\ SignedCodes(b, s) = << >>
  BY DEF SignedTree, SignedCodes, HasTreeCells
<1>2. Body(b, s) = Padded(b) \o (<< >> \o << >>)
  BY <1>1 DEF Body, Zeroed
<1>3. Padded(b) \in Seq(Cell)
  BY PaddedType
<1>4. << >> \o << >> = << >> /\ Padded(b) \o << >> = Padded(b)
  BY <1>3
<1> QED
  BY <1>1, <1>2, <1>4

LEMMA TreeBody ==
  ASSUME CellsOfCommands, NEW b \in Seq(Cell), NEW s \in SignedType
  PROVE  /\ ~s.zeroed => Body(b, s) =
              (Padded(b) \o SignedTree(b, s)) \o SignedCodes(b, s)
         /\ s.zeroed => Body(b, s) =
              (Padded(b) \o Zeroed(SignedTree(b, s))) \o Zeroed(SignedCodes(b, s))
<1> DEFINE p == Padded(b)
           tree == SignedTree(b, s)
           codes == SignedCodes(b, s)
<1>1. /\ ~s.zeroed => Body(b, s) = p \o (tree \o codes)
      /\ s.zeroed => Body(b, s) = p \o (Zeroed(tree) \o Zeroed(codes))
  BY DEF Body
<1>2. p \in Seq(Cell)
  BY PaddedType
<1>3. /\ tree \in Seq(Cell) /\ codes \in Seq(Cell)
      /\ Len(tree) % BlockSize = 0 /\ Len(codes) % BlockSize = 0
  BY PartsType
<1> HIDE DEF p, tree, codes
<1>4. Zeroed(tree) \in Seq(Cell) /\ Zeroed(codes) \in Seq(Cell)
  BY <1>3, ZeroedType
<1>5. p \o (tree \o codes) = (p \o tree) \o codes
  BY <1>2, <1>3, ConcatAssoc
<1>6. p \o (Zeroed(tree) \o Zeroed(codes)) = (p \o Zeroed(tree)) \o Zeroed(codes)
  BY <1>2, <1>4, ConcatAssoc
<1> QED
  BY <1>1, <1>5, <1>6 DEF p, tree, codes

(* What is read of an image that is held.                                  *)
LEMMA WholeImage ==
  ASSUME NEW g, NEW s, Holds(g, s)
  PROVE  Read(g, 0, g.mem.image_size).cells = s
<1>1. /\ s \in Seq(Cell) /\ Len(s) \in Nat /\ g.mem.image_size = Len(s)
      /\ g.mem.sparse = g.file.sparse /\ g.file.sparse \in BOOLEAN
      /\ ~g.file.sparse => Len(s) >= HeaderLen
  BY HoldsSize
<1>2. CASE Len(s) > 0
  <2>1. Read(g, 0, Len(s)).cells = Piece(s, 0, Len(s))
    BY <1>1, <1>2, ReadHolds
  <2>2. Piece(s, 0, Len(s)) = SubSeq(s, 1, Len(s))
    BY <1>1 DEF Piece
  <2>3. SubSeq(s, 1, Len(s)) = s
    BY <1>1
  <2> QED
    BY <1>1, <2>1, <2>2, <2>3
<1>3. CASE ~(Len(s) > 0)
  <2>1. Len(s) = 0 /\ g.mem.sparse
    BY <1>1, <1>3, SizesAssumption
  <2>2. Read(g, 0, 0).cells = << >>
    BY <2>1 DEF Read
  <2>3. s = << >>
    BY <1>1, <2>1
  <2> QED
    BY <1>1, <2>1, <2>2, <2>3
<1> QED
  BY <1>2, <1>3

(* Growing an image to whole blocks.                                       *)
LEMMA GrownToBlocks ==
  ASSUME NEW b \in Seq(Cell)
  PROVE  Resized(b, RoundUp(Len(b))) = Padded(b)
<1> DEFINE n == RoundUp(Len(b))
<1>1. n \in Nat /\ Len(b) <= n /\ Len(b) \in Nat
  BY RoundUpIs
<1>2. Padded(b) = b \o Zeros(n - Len(b))
  BY DEF Padded
<1> HIDE DEF n
<1>3. ASSUME n = Len(b) PROVE Resized(b, n) = Padded(b)
  <2>1. Resized(b, n) = SubSeq(b, 1, n)
    BY <1>1, <1>3 DEF Resized
  <2>2. SubSeq(b, 1, n) = b
    BY <1>1, <1>3
  <2>3. Zeros(n - Len(b)) = << >>
    <3>1. n - Len(b) = 0
      BY <1>1, <1>3
    <3> QED
      BY <3>1 DEF Zeros
  <2>4. b \o << >> = b
    OBVIOUS
  <2>5. Padded(b) = b
    BY <1>2, <2>3, <2>4, Zenon
  <2> QED
    BY <2>1, <2>2, <2>5
<1>4. ASSUME n # Len(b) PROVE Resized(b, n) = Padded(b)
  <2>1. Resized(b, n) = b \o [i \in 1..(n - Len(b)) |-> Zero]
    BY <1>1, <1>4 DEF Resized
  <2>2. Zeros(n - Len(b)) = [i \in 1..(n - Len(b)) |-> Zero]
    BY Zenon DEF Zeros
  <2> QED
    BY <1>2, <2>1, <2>2, Zenon
<1>5. Resized(b, n) = Padded(b)
  BY <1>3, <1>4
<1> QED
  BY <1>5 DEF n

(* Cutting an image back to what it starts with.                           *)
LEMMA CutTo ==
  ASSUME NEW g, NEW s, Holds(g, s), NEW t \in Seq(Cell), Starts(s, t),
         g.file.sparse => Len(t) % BlockSize = 0,
         ~g.file.sparse => Len(t) >= HeaderLen
  PROVE  Done(Truncate(g, Len(t)), g, t)
<1>1. s \in Seq(Cell)
  BY HoldsSize
<1>2. Resized(s, Len(t)) = t /\ Len(t) \in Nat
  BY <1>1, CutBack
<1>3. /\ Holds(Truncate(g, Len(t)), Resized(s, Len(t)))
      /\ Truncate(g, Len(t)).file.sparse = g.file.sparse
  BY <1>2, TruncateHolds
<1> QED
  BY <1>2, <1>3 DEF Done

(* Appending cells with no footer among them but the last.                 *)
LEMMA WriteStep ==
  ASSUME NEW g, NEW t, Holds(g, t), NEW b, Clear(t, b), BaseOK(b, g.file.sparse),
         "lost" \notin Faults, NEW data \in Seq(Cell), Clean(data),
         g.file.sparse => Len(data) % BlockSize = 0
  PROVE  \A h \in AppendRawOutcomes(g, data) : Written(h, g, b, t \o data)
<1>1. t \in Seq(Cell) /\ NoFooters(t) /\ Starts(t, b)
  BY DEF Clear
<1>2. \A p \in Prefixes(data) : NoFooters(t \o p)
  BY <1>1, CleanPrefixes
<1> QED
  BY <1>1, <1>2, AppendRawOutcome

LEMMA FillStep ==
  ASSUME NEW g, NEW t, Holds(g, t), NEW b, Clear(t, b), BaseOK(b, g.file.sparse),
         "lost" \notin Faults, NEW n \in Nat, n % BlockSize = 0
  PROVE  \A h \in AppendFillOutcomes(g, Zeros(FillLen), n) :
           Written(h, g, b, t \o Zeros(n))
<1> DEFINE fill == Zeros(FillLen)
<1>1. t \in Seq(Cell) /\ NoFooters(t) /\ Starts(t, b)
  BY DEF Clear
<1>2. FillLen \in Nat /\ FillLen > 0
  BY SizesAssumption
<1>3. fill \in [1..FillLen -> Cell]
  BY ZeroAssumption DEF Zeros
<1>4. Repeat(fill, n) = Zeros(n)
  <2>1. \A i \in 1..n : ((i - 1) % FillLen) + 1 \in 1..FillLen
    BY <1>2
  <2>2. \A i \in 1..n : fill[((i - 1) % FillLen) + 1] = Zero
    BY <2>1 DEF Zeros
  <2>3. Repeat(fill, n) = [i \in 1..n |-> fill[((i - 1) % FillLen) + 1]]
    BY DEF Repeat
  <2> QED
    BY <2>2, <2>3, Zenon DEF Zeros
<1>5. Zeros(n) \in Seq(Cell) /\ NoFooters(Zeros(n))
  BY ZerosType
<1>6. Clean(Zeros(n))
  BY <1>5, NoFootersClean
<1>7. \A p \in Prefixes(Repeat(fill, n)) : NoFooters(t \o p)
  BY <1>1, <1>4, <1>5, <1>6, CleanPrefixes
<1> HIDE DEF fill
<1>8. \A h \in AppendFillOutcomes(g, fill, n) : Written(h, g, b, t \o Repeat(fill, n))
  BY <1>1, <1>3, <1>7, AppendFillOutcome
<1> QED
  BY <1>4, <1>8 DEF fill

-----------------------------------------------------------------------------
(* The commands that add a footer.                                         *)

LEMMA DropFooterKeeps ==
  ASSUME Justified, IInv, DropFooter
  PROVE  IInv'
<1> DEFINE orig == IF HasFooter(disk) THEN Footer(disk).original_image_size
                   ELSE disk.mem.image_size
           h == IF HasFooter(disk) THEN Truncate(disk, orig) ELSE disk
           psize == IF job.dynamic /\ job.cmd = "add_hash_footer"
                    THEN RoundUp(orig + MaxMetadata) ELSE job.psize
           j == [job EXCEPT !.orig = orig, !.psize = psize]
<1>1. /\ job \in Jobs /\ result \in Results /\ signed \in SignedType
      /\ base \in Seq(Cell) /\ NoFooters(base) /\ Len(base) \in Nat
      /\ BaseOK(base, disk.file.sparse)
      /\ AtDrop(disk, job, base, signed)
  BY InvTypes DEF DropFooter, At
<1>2. Holds(disk, Layout(base, signed)) /\ Fits(base, signed)
  BY <1>1 DEF AtDrop
<1>3. /\ signed.kind = "none" => ~HasFooter(disk)
      /\ signed.kind # "none" =>
           HasFooter(disk) /\ Footer(disk) = FooterOf(base, signed)
      /\ Starts(Layout(base, signed), base)
  BY <1>1, <1>2, LayoutReads DEF Justified
<1>5. signed.kind = "none" => Layout(base, signed) = base
  BY DEF Layout
<1>6. orig = Len(base)
  <2>1. CASE signed.kind = "none"
    BY <1>2, <1>3, <1>5, <2>1, HoldsSize
  <2>2. CASE signed.kind # "none"
    BY <1>3, <2>2 DEF FooterOf, FooterCell
  <2> QED
    BY <2>1, <2>2
<1>7. Done(h, disk, base)
  <2>1. CASE signed.kind = "none"
    BY <1>2, <1>3, <1>5, <2>1 DEF Done
  <2>2. CASE signed.kind # "none"
    <3>1. Done(Truncate(disk, Len(base)), disk, base)
      BY <1>1, <1>2, <1>3, CutTo DEF BaseOK
    <3> QED
      BY <1>3, <1>6, <2>2, <3>1
  <2> QED
    BY <2>1, <2>2
<1>8. psize \in Nat
  <2>1. RoundUp(Len(base) + MaxMetadata) \in Nat
    <3>1. Len(base) + MaxMetadata \in Nat
      BY <1>1, FootersAssumption, SizesAssumption DEF MaxMetadata, FooterLen
    <3> QED
      BY <3>1, RoundUpIs
  <2> QED
    BY <1>1, <1>6, <2>1 DEF Jobs
<1>9. /\ h.raised = FALSE => Continue(h, j, "check")
      /\ base' = base
  BY DEF DropFooter
<1>10. job.cmd # "add_hash_footer" => psize = job.psize
  OBVIOUS
<1> HIDE DEF orig, h, psize
<1>11. /\ j \in Jobs /\ j.cmd = job.cmd /\ j.orig = orig /\ j.psize = psize
       /\ j.desc = job.desc
  BY <1>1, <1>6, <1>8 DEF Jobs
<1> HIDE DEF j
<1>12. AtCheck(h, j, base)
  <2>1. Adding(j, base)
    BY <1>1, <1>6, <1>11 DEF AtDrop, Adding
  <2>2. Room(j, base)
    BY <1>1, <1>10, <1>11 DEF AtDrop, Room
  <2> QED
    BY <1>1, <1>7, <1>11, <2>1, <2>2 DEF AtCheck, AtDrop, Done
<1>13. h.raised = FALSE /\ Holds(h, base) /\ h.file.sparse = disk.file.sparse
  BY <1>7, HoldsTypes DEF Done
<1>14. Inv(h, "check", j, result, base, signed)
  <2>1. At(h, "check", j, base, signed) /\ "check" \in Points
    BY <1>12 DEF At, Points
  <2> QED
    BY <1>1, <1>11, <1>13, <2>1, NextPoint
<1>15. /\ disk' = h /\ pc' = "check" /\ job' = j /\ result' = result
       /\ signed' = signed /\ base' = base
  BY <1>9, <1>13 DEF Continue
<1> QED
  BY <1>14, <1>15, PrimedInv

(* An image with room for MAX_METADATA_SIZE has room for the blob and the  *)
(* footer: this is where VbmetaLen <= MaxVbmeta is needed.                 *)
LEMMA MetadataFits ==
  ASSUME Justified, NEW n \in Nat, NEW p \in Nat, p % BlockSize = 0,
         n <= p - MaxMetadata
  PROVE  p >= (RoundUp(n) + RoundUp(VbmetaLen)) + BlockSize /\ p > 0
<1>1. /\ MaxVbmeta \in Nat /\ MaxVbmeta % BlockSize = 0 /\ BlockSize \in Nat
      /\ BlockSize > 0 /\ BlockSize % BlockSize = 0
      /\ VbmetaLen \in Nat /\ VbmetaLen <= MaxVbmeta
      /\ MaxMetadata = MaxVbmeta + BlockSize
  BY FootersAssumption, SizesAssumption DEF Justified, MaxMetadata, FooterLen
<1>2. RoundUp(VbmetaLen) <= MaxVbmeta /\ RoundUp(VbmetaLen) \in Nat
  BY <1>1, RoundUpLeast, RoundUpIs
<1> DEFINE m == MaxVbmeta + BlockSize
           k == p - m
<1>3. m \in Nat /\ m % BlockSize = 0 /\ m >= BlockSize
  BY <1>1, SumOfMultiples
<1>4. k \in Nat /\ n <= k
  BY <1>1, <1>3
<1>5. k % BlockSize = 0
  <2> HIDE DEF m
  <2>1. p \in Int /\ m \in Int
    BY <1>3
  <2> QED
    BY <1>3, <2>1, SumOfMultiples
<1>6. RoundUp(n) <= k /\ RoundUp(n) \in Nat
  <2> HIDE DEF k
  <2> QED
    BY <1>4, <1>5, RoundUpLeast, RoundUpIs
<1> DEFINE r == RoundUp(n)
           v == RoundUp(VbmetaLen)
<1>7. r <= p - (MaxVbmeta + BlockSize) /\ v <= MaxVbmeta /\ r \in Nat /\ v \in Nat
  BY <1>2, <1>6
<1> HIDE DEF r, v
<1>8. p >= (r + v) + BlockSize /\ p > 0
  BY <1>1, <1>7
<1> QED
  BY <1>8 DEF r, v

LEMMA CheckHashKeeps ==
  ASSUME Justified, IInv, CheckHash
  PROVE  IInv'
<1>1. /\ job \in Jobs /\ result \in Results /\ signed \in SignedType
      /\ base \in Seq(Cell) /\ NoFooters(base) /\ Len(base) \in Nat
      /\ BaseOK(base, disk.file.sparse) /\ disk.mem.image_size \in Nat
      /\ AtCheck(disk, job, base)
      /\ pc = "check" /\ job.cmd = "add_hash_footer" /\ base' = base
      /\ job.psize \in Nat
  BY InvTypes DEF CheckHash, At, Jobs
<1>2. Holds(disk, base) /\ Adding(job, base)
  BY <1>1 DEF AtCheck
<1>3. disk.mem.image_size = Len(base) /\ Rests(disk.file, base) /\ Clear(base, base)
  BY <1>1, <1>2, HoldsSize, HoldsIsOpen, ClearParts DEF Justified
<1>4. MaxMetadata \in Nat
  BY FootersAssumption, SizesAssumption DEF MaxMetadata, FooterLen
<1>7. CASE ~Aligned(job.psize)
  <2>1. Fail(disk.file, job)
    BY <1>7 DEF CheckHash
  <2>2. End(disk.file, job, "error", Unsigned)
    BY <1>1, <2>1 DEF Fail
  <2>3. Rests(disk.file, Layout(base, Unsigned)) /\ Fits(base, Unsigned)
    BY <1>3, BaseSigned
  <2>4. job.cmd \in Names
    BY <1>1 DEF Jobs
  <2> QED
    BY <1>1, <2>2, <2>3, <2>4, UnsignedType, RefusedStep
<1>5. CASE Aligned(job.psize) /\ disk.mem.image_size > job.psize - MaxMetadata
  <2>1. Continue(Raising(disk), job, "rollback")
    <3>1. ~(disk.mem.image_size <= job.psize - MaxMetadata)
      BY <1>1, <1>4, <1>5
    <3> QED
      BY <1>5, <3>1 DEF CheckHash
  <2> QED
    BY <1>1, <1>2, <1>3, <2>1, RaisingStep
<1>6. CASE Aligned(job.psize) /\ disk.mem.image_size <= job.psize - MaxMetadata
  <2> DEFINE j == [job EXCEPT !.desc = HashDescriptor(Image)]
             g == Goal(j, signed)
  <2>1. Continue(disk, j, "grow")
    BY <1>6 DEF CheckHash
  <2>2. Image = base
    BY <1>2, WholeImage DEF Image
  <2>3. HashDescriptor(base) \in Descriptors
    BY <1>1 DEF Descriptors
  <2>4. /\ j \in Jobs /\ j.cmd = job.cmd /\ j.orig = job.orig /\ j.psize = job.psize
        /\ j.desc = HashDescriptor(base)
    BY <1>1, <2>2, <2>3 DEF Jobs
  <2> HIDE DEF j
  <2>5. g = [kind |-> "hash", psize |-> j.psize, fec |-> FALSE,
             no_tree |-> FALSE, zeroed |-> FALSE]
    BY <1>1, <2>4, GoalIs
  <2>6. g \in SignedType /\ g.kind = "hash" /\ g.psize = job.psize
    BY <1>1, <2>4, <2>5 DEF SignedType
  <2> HIDE DEF g
  <2>7. /\ job.psize % BlockSize = 0 /\ job.psize > 0
        /\ job.psize >= (RoundUp(Len(base)) + RoundUp(VbmetaLen)) + BlockSize
    BY <1>1, <1>3, <1>6, MetadataFits DEF Aligned
  <2>8. Len(Meta(base, g)) = RoundUp(Len(base)) + RoundUp(VbmetaLen)
    <3>1. Len(Meta(base, g)) = Len(Body(base, g)) + RoundUp(VbmetaLen)
      BY <1>1, <2>6, MetaType DEF Justified
    <3>2. Body(base, g) = Padded(base)
      BY <1>1, <2>6, PlainBody
    <3>3. Len(Padded(base)) = RoundUp(Len(base))
      BY <1>1, PaddedType
    <3> QED
      BY <3>1, <3>2, <3>3
  <2>9. Fits(base, g)
    BY <1>1, <2>6, <2>7, <2>8, GapFits DEF Justified
  <2>10. SignedDescriptor(base, g) = HashDescriptor(base)
    BY <2>6 DEF SignedDescriptor
  <2>11. AtGrow(disk, j, base, signed)
    <3>1. Described(j, base, signed)
      BY <2>4, <2>9, <2>10 DEF Described, g
    <3>2. Adding(j, base)
      BY <1>2, <2>4 DEF Adding
    <3> QED
      BY <1>1, <1>2, <2>4, <2>7, <3>1, <3>2 DEF AtGrow
  <2>12. Inv(disk, "grow", j, result, base, signed)
    <3>1. At(disk, "grow", j, base, signed) /\ "grow" \in Points
      BY <2>11 DEF At, Points
    <3> QED
      BY <1>1, <1>2, <2>4, <3>1, NextPoint
  <2>13. /\ disk' = disk /\ pc' = "grow" /\ job' = j /\ result' = result
         /\ signed' = signed
    BY <2>1 DEF Continue
  <2> QED
    BY <1>1, <2>12, <2>13, PrimedInv
<1> QED
  BY <1>1, <1>4, <1>5, <1>6, <1>7

LEMMA CheckVbmetaKeeps ==
  ASSUME Justified, IInv, CheckVbmeta
  PROVE  IInv'
<1>1. /\ job \in Jobs /\ result \in Results /\ signed \in SignedType
      /\ base \in Seq(Cell) /\ NoFooters(base) /\ Len(base) \in Nat
      /\ BaseOK(base, disk.file.sparse)
      /\ AtCheck(disk, job, base)
      /\ pc = "check" /\ job.cmd = "append_vbmeta_image" /\ base' = base
      /\ job.psize \in Nat
  BY InvTypes DEF CheckVbmeta, At, Jobs
<1>2. /\ Holds(disk, base) /\ Adding(job, base) /\ Room(job, base)
      /\ job.desc = NoDescriptor
  BY <1>1 DEF AtCheck
<1>3. Clear(base, base)
  BY <1>1, ClearParts DEF Justified
<1>4. CASE Continue(Raising(disk), job, "rollback")
  BY <1>1, <1>2, <1>3, <1>4, RaisingStep
<1>5. CASE Continue(disk, job, "grow")
  <2> DEFINE g == Goal(job, signed)
  <2>1. g = [kind |-> "vbmeta", psize |-> job.psize, fec |-> FALSE,
             no_tree |-> FALSE, zeroed |-> FALSE]
    BY <1>1, GoalIs
  <2>2. g \in SignedType /\ g.kind = "vbmeta" /\ g.psize = job.psize
    BY <1>1, <2>1 DEF SignedType
  <2> HIDE DEF g
  <2>3. /\ job.psize % BlockSize = 0
        /\ job.psize >= (RoundUp(Len(base)) + RoundUp(VbmetaLen)) + BlockSize
    BY <1>1, <1>2 DEF Room
  <2>4. Len(Meta(base, g)) = RoundUp(Len(base)) + RoundUp(VbmetaLen)
    <3>1. Len(Meta(base, g)) = Len(Body(base, g)) + RoundUp(VbmetaLen)
      BY <1>1, <2>2, MetaType DEF Justified
    <3>2. Body(base, g) = Padded(base)
      BY <1>1, <2>2, PlainBody
    <3>3. Len(Padded(base)) = RoundUp(Len(base))
      BY <1>1, PaddedType
    <3> QED
      BY <3>1, <3>2, <3>3
  <2>5. job.psize > 0
    <3>1. RoundUp(Len(base)) \in Nat /\ RoundUp(VbmetaLen) \in Nat
      BY <1>1, RoundUpIs, FootersAssumption
    <3>2. BlockSize \in Nat /\ BlockSize > 0
      BY SizesAssumption
    <3> QED
      BY <1>1, <2>3, <3>1, <3>2
  <2>6. Fits(base, g)
    BY <1>1, <2>2, <2>3, <2>4, <2>5, GapFits DEF Justified
  <2>7. SignedDescriptor(base, g) = NoDescriptor
    BY <2>2 DEF SignedDescriptor
  <2>8. AtGrow(disk, job, base, signed)
    <3>1. Described(job, base, signed)
      BY <1>2, <2>6, <2>7 DEF Described, g
    <3> QED
      BY <1>1, <1>2, <2>5, <3>1 DEF AtGrow
  <2>9. Inv(disk, "grow", job, result, base, signed)
    <3>1. At(disk, "grow", job, base, signed) /\ "grow" \in Points
      BY <2>8 DEF At, Points
    <3> QED
      BY <1>1, <1>2, <3>1, NextPoint
  <2>10. /\ disk' = disk /\ pc' = "grow" /\ job' = job /\ result' = result
         /\ signed' = signed
    BY <1>5 DEF Continue
  <2> QED
    BY <1>1, <2>9, <2>10, PrimedInv
<1> QED
  BY <1>4, <1>5 DEF CheckVbmeta

LEMMA GoalSame ==
  ASSUME NEW j \in Jobs, NEW k \in Jobs, NEW s \in SignedType,
         j.cmd \in Protected \cup {"resize_image", "zero_hashtree"},
         k.cmd = j.cmd, k.psize = j.psize, k.fec = j.fec, k.no_tree = j.no_tree
  PROVE  Goal(k, s) = Goal(j, s)
<1>1. CASE j.cmd = "add_hash_footer"
  <2>1. Goal(j, s) = [kind |-> "hash", psize |-> j.psize, fec |-> FALSE,
             no_tree |-> FALSE, zeroed |-> FALSE]
    BY <1>1, GoalIs
  <2>2. Goal(k, s) = [kind |-> "hash", psize |-> k.psize, fec |-> FALSE,
             no_tree |-> FALSE, zeroed |-> FALSE]
    BY <1>1, GoalIs
  <2> QED
    BY <2>1, <2>2, Zenon
<1>2. CASE j.cmd = "append_vbmeta_image"
  <2>1. Goal(j, s) = [kind |-> "vbmeta", psize |-> j.psize, fec |-> FALSE,
             no_tree |-> FALSE, zeroed |-> FALSE]
    BY <1>2, GoalIs
  <2>2. Goal(k, s) = [kind |-> "vbmeta", psize |-> k.psize, fec |-> FALSE,
             no_tree |-> FALSE, zeroed |-> FALSE]
    BY <1>2, GoalIs
  <2> QED
    BY <2>1, <2>2, Zenon
<1>3. CASE j.cmd = "add_hashtree_footer"
  <2>1. Goal(j, s) = [kind |-> "hashtree", psize |-> j.psize, fec |-> j.fec,
             no_tree |-> j.no_tree, zeroed |-> FALSE]
    BY <1>3, GoalIs
  <2>2. Goal(k, s) = [kind |-> "hashtree", psize |-> k.psize, fec |-> k.fec,
             no_tree |-> k.no_tree, zeroed |-> FALSE]
    BY <1>3, GoalIs
  <2> QED
    BY <2>1, <2>2, Zenon
<1>4. CASE j.cmd = "resize_image"
  BY <1>4, GoalIs
<1>5. CASE j.cmd = "zero_hashtree"
  BY <1>5, GoalIs
<1> QED
  BY <1>1, <1>2, <1>3, <1>4, <1>5 DEF Protected

LEMMA FooterType ==
  ASSUME NEW n \in Nat, NEW m \in Nat, m % BlockSize = 0
  PROVE  FooterCell(n, m, VbmetaLen) \in Footers
<1>1. VbmetaLen \in Nat
  BY FootersAssumption
<1> QED
  BY <1>1 DEF FooterCell, Footers, Offsets

LEMMA GrowKeeps ==
  ASSUME Justified, IInv, Grow
  PROVE  IInv'
<1> DEFINE size == disk.mem.image_size
           h == IF Aligned(size) THEN disk ELSE Truncate(disk, RoundUp(size))
           off == h.mem.image_size
           j == [job EXCEPT !.footer = FooterCell(job.orig, off, VbmetaLen),
                            !.end = off + RoundUp(VbmetaLen)]
           g == Goal(job, signed)
<1>1. /\ job \in Jobs /\ result \in Results /\ signed \in SignedType
      /\ base \in Seq(Cell) /\ NoFooters(base) /\ Len(base) \in Nat
      /\ BaseOK(base, disk.file.sparse)
      /\ AtGrow(disk, job, base, signed)
      /\ pc = "grow" /\ base' = base
      /\ Attempt({h}, j, "vbmeta")
  BY InvTypes DEF Grow, At
<1>2. /\ Holds(disk, base) /\ Adding(job, base) /\ job.psize > 0
      /\ Described(job, base, signed)
      /\ job.cmd \in {"add_hash_footer", "append_vbmeta_image"}
  BY <1>1 DEF AtGrow, Adding, Protected
<1>3. size = Len(base)
  BY <1>2, HoldsSize
<1>4. /\ Padded(base) \in Seq(Cell) /\ Len(Padded(base)) = RoundUp(Len(base))
      /\ Len(Padded(base)) \in Nat /\ Len(Padded(base)) % BlockSize = 0
      /\ Len(base) <= Len(Padded(base))
      /\ Len(base) % BlockSize = 0 => Padded(base) = base
  BY <1>1, PaddedType
<1>5. Done(h, disk, Padded(base))
  <2>1. CASE Aligned(size)
    BY <1>2, <1>3, <1>4, <2>1 DEF Done, Aligned
  <2>2. CASE ~Aligned(size)
    <3> DEFINE n == RoundUp(Len(base))
    <3>1. /\ n \in Nat /\ n % BlockSize = 0 /\ Len(base) <= n
      BY <1>4
    <3>2. ~disk.file.sparse => Len(base) >= HeaderLen
      BY <1>1 DEF BaseOK
    <3>3. ~disk.file.sparse => n >= HeaderLen
      <4> HIDE DEF n
      <4>1. HeaderLen \in Nat
        BY SizesAssumption
      <4> QED
        BY <1>1, <3>1, <3>2, <4>1
    <3>4. /\ Holds(Truncate(disk, n), Resized(base, n))
          /\ Truncate(disk, n).file.sparse = disk.file.sparse
      <4> HIDE DEF n
      <4> QED
        BY <1>2, <3>1, <3>3, TruncateHolds
    <3>5. Resized(base, n) = Padded(base)
      BY <1>1, GrownToBlocks
    <3> QED
      BY <1>3, <2>2, <3>4, <3>5 DEF Done
  <2> QED
    BY <2>1, <2>2
<1>6. off = Len(Padded(base))
  BY <1>5, HoldsSize DEF Done
<1> HIDE DEF h, size
<1>7. /\ RoundUp(VbmetaLen) \in Nat /\ RoundUp(VbmetaLen) % BlockSize = 0
  BY RoundUpIs, FootersAssumption
<1>8. off \in Nat /\ off % BlockSize = 0 /\ off + RoundUp(VbmetaLen) \in Offsets
  <2>1. off \in Nat /\ off % BlockSize = 0
    BY <1>4, <1>6
  <2> HIDE DEF off
  <2> DEFINE v == RoundUp(VbmetaLen)
  <2>2. v \in Nat /\ v % BlockSize = 0
    BY <1>7
  <2> HIDE DEF v
  <2>3. (off + v) % BlockSize = 0
    BY <2>1, <2>2, SumOfMultiples
  <2>4. off + v \in Offsets
    BY <2>1, <2>2, <2>3 DEF Offsets
  <2> QED
    BY <2>1, <2>4 DEF v
<1> HIDE DEF off
<1>9. FooterCell(job.orig, off, VbmetaLen) \in Footers
  BY <1>1, <1>8, FooterType DEF Jobs
<1>10. /\ j \in Jobs /\ j.cmd = job.cmd /\ j.orig = job.orig /\ j.psize = job.psize
       /\ j.desc = job.desc /\ j.fec = job.fec /\ j.no_tree = job.no_tree
       /\ j.footer = FooterCell(job.orig, off, VbmetaLen)
       /\ j.end = off + RoundUp(VbmetaLen)
  BY <1>1, <1>8, <1>9 DEF Jobs
<1> HIDE DEF j
<1>11. Goal(j, signed) = g
  BY <1>1, <1>2, <1>10, GoalSame DEF Protected
<1>12. g \in SignedType /\ g.kind \in {"hash", "vbmeta"}
  <2>1. g \in SignedType
    BY <1>1, <1>2, GoalKind DEF Protected
  <2>2. job.cmd = "add_hash_footer" => g.kind = "hash"
    BY <1>1, GoalIs
  <2>3. job.cmd = "append_vbmeta_image" => g.kind = "vbmeta"
    BY <1>1, GoalIs
  <2> QED
    BY <1>2, <2>1, <2>2, <2>3
<1>13. Fits(base, g) /\ job.desc = SignedDescriptor(base, g)
  BY <1>2 DEF Described
<1> HIDE DEF g
<1>14. Body(base, g) = Padded(base)
  BY <1>1, <1>12, PlainBody
<1>15. Len(Meta(base, g)) = off + RoundUp(VbmetaLen)
  BY <1>1, <1>6, <1>12, <1>14, MetaType DEF Justified
<1>16. FooterOf(base, g) = FooterCell(job.orig, off, VbmetaLen)
  BY <1>2, <1>6, <1>14 DEF FooterOf, Adding
<1>17. AtVbmeta(h, j, base, signed)
  <2>1. Adding(j, base)
    BY <1>2, <1>10 DEF Adding
  <2>2. Described(j, base, signed)
    BY <1>10, <1>11, <1>13 DEF Described
  <2>3. Footed(j, base, signed)
    BY <1>2, <1>10, <1>11, <1>13, <1>15, <1>16 DEF Footed
  <2> QED
    BY <1>5, <1>11, <1>14, <2>1, <2>2, <2>3 DEF AtVbmeta, Done
<1>18. Inv(h, "vbmeta", j, result, base, signed)
  <2>1. At(h, "vbmeta", j, base, signed) /\ "vbmeta" \in Points
    BY <1>17 DEF At, Points
  <2>2. Holds(h, Padded(base)) /\ BaseOK(base, h.file.sparse)
    BY <1>1, <1>5 DEF Done
  <2> QED
    BY <1>1, <1>10, <2>1, <2>2, NextPoint
<1>19. /\ disk' = h /\ pc' = "vbmeta" /\ job' = j /\ result' = result
       /\ signed' = signed
  BY <1>1, <1>5, SureStep
<1> QED
  BY <1>1, <1>18, <1>19, PrimedInv

LEMMA RoundImageKeeps ==
  ASSUME Justified, IInv, RoundImage
  PROVE  IInv'
<1> DEFINE pad == Zeros(RoundUp(disk.mem.image_size) - disk.mem.image_size)
           outcomes == IF pad = << >> THEN {disk} ELSE AppendRawOutcomes(disk, pad)
<1>1. /\ job \in Jobs /\ result \in Results /\ signed \in SignedType
      /\ base \in Seq(Cell) /\ NoFooters(base) /\ Len(base) \in Nat
      /\ BaseOK(base, disk.file.sparse)
      /\ AtCheck(disk, job, base)
      /\ pc = "check" /\ pc # "idle" /\ base' = base /\ job.cmd = "add_hashtree_footer"
      /\ Attempt(outcomes, job, "tree")
  BY InvTypes DEF RoundImage, At
<1>2. Holds(disk, base) /\ Adding(job, base) /\ Room(job, base)
  BY <1>1 DEF AtCheck
<1>3. disk.mem.image_size = Len(base) /\ disk.file.sparse \in BOOLEAN
  BY <1>2, HoldsSize
<1>4. Padded(base) = base \o pad
  BY <1>3 DEF Padded
<1>5. /\ pad \in Seq(Cell) /\ Clean(pad) /\ (disk.file.sparse => Len(pad) % BlockSize = 0)
  <2> DEFINE n == RoundUp(Len(base)) - Len(base)
  <2>1. n \in Nat /\ (Len(base) % BlockSize = 0 => n = 0)
    <3>1. RoundUp(Len(base)) \in Nat /\ Len(base) <= RoundUp(Len(base))
      BY <1>1, RoundUpIs
    <3>2. Len(base) % BlockSize = 0 => RoundUp(Len(base)) = Len(base)
      BY <1>1, RoundUpAligned
    <3> QED
      BY <1>1, <3>1, <3>2
  <2>2. disk.file.sparse => n = 0
    BY <1>1, <2>1 DEF BaseOK
  <2>3. pad = Zeros(n)
    BY <1>3
  <2> HIDE DEF n, pad
  <2>4. Zeros(n) \in Seq(Cell) /\ Len(Zeros(n)) = n /\ NoFooters(Zeros(n))
    BY <2>1, ZerosType
  <2>5. 0 % BlockSize = 0
    BY SizesAssumption
  <2> QED
    BY <2>2, <2>3, <2>4, <2>5, NoFootersClean
<1>6. Clear(base, base)
  BY <1>1, ClearParts DEF Justified
<1> HIDE DEF pad
<1>7. \A h \in outcomes : Written(h, disk, base, base \o pad)
  <2>1. CASE pad = << >>
    <3>1. base \o pad = base
      BY <1>1, <2>1
    <3> QED
      BY <1>2, <2>1, <3>1 DEF Written, Done
  <2>2. CASE pad # << >>
    <3>1. \A h \in AppendRawOutcomes(disk, pad) : Written(h, disk, base, base \o pad)
      BY <1>1, <1>2, <1>5, <1>6, WriteStep DEF Justified
    <3> QED
      BY <2>2, <3>1
  <2> QED
    BY <2>1, <2>2
<1> HIDE DEF outcomes
<1>8. \/ /\ Done(disk', disk, base \o pad) /\ pc' = "tree" /\ job' = job
         /\ result' = result /\ signed' = signed
      \/ IInv'
  BY <1>1, <1>2, <1>7, AttemptStep
<1>9. ASSUME Done(disk', disk, base \o pad), pc' = "tree", job' = job,
             result' = result, signed' = signed
      PROVE  IInv'
  <2>1. Holds(disk', Padded(base)) /\ BaseOK(base, disk'.file.sparse)
    BY <1>1, <1>4, <1>9 DEF Done
  <2>2. AtTree(disk', job, base)
    BY <1>1, <1>2, <2>1 DEF AtTree
  <2>3. At(disk', "tree", job, base, signed) /\ "tree" \in Points
    BY <2>2 DEF At, Points
  <2>4. Inv(disk', "tree", job, result, base, signed)
    BY <1>1, <2>1, <2>3, NextPoint
  <2> QED
    BY <1>1, <1>9, <2>4, PrimedInv
<1> QED
  BY <1>8, <1>9

(* The size that add_hashtree_footer allows leaves room for the tree and   *)
(* the codes of the image: a larger partition has no smaller tree.         *)
LEMMA TreeFits ==
  ASSUME Justified, NEW b \in Seq(Cell), NEW g \in SignedType, g.kind = "hashtree",
         g.psize % BlockSize = 0, NEW n, n = Len(Padded(b)),
         g.psize > 0 =>
           n <= (g.psize - MaxMetadata)
                  - (IF g.no_tree THEN 0
                     ELSE TreeSize(g.psize) + (IF g.fec THEN FecLen ELSE 0))
  PROVE  Fits(b, g)
<1>1. CASE g.psize = 0
  BY <1>1, GapDynamic
<1>2. CASE g.psize # 0
  <2> DEFINE p == g.psize
             tree == Len(SignedTree(b, g))
             codes == Len(SignedCodes(b, g))
             v == RoundUp(VbmetaLen)
             all == TreeSize(p)
             fec == IF g.fec THEN FecLen ELSE 0
  <2>1. p \in Nat /\ p > 0 /\ g.no_tree \in BOOLEAN /\ g.fec \in BOOLEAN
    BY <1>2 DEF SignedType
  <2>2. /\ MaxVbmeta \in Nat /\ MaxVbmeta % BlockSize = 0 /\ BlockSize \in Nat
        /\ VbmetaLen \in Nat /\ VbmetaLen <= MaxVbmeta
        /\ MaxMetadata = MaxVbmeta + BlockSize /\ FecLen \in Nat
    BY FootersAssumption, SizesAssumption DEF Justified, MaxMetadata, FooterLen
  <2>3. v \in Nat /\ v <= MaxVbmeta
    BY <2>2, RoundUpLeast, RoundUpIs
  <2>4. n \in Nat /\ tree \in Nat /\ codes \in Nat
    BY PaddedType, PartsType DEF Justified
  <2>5. all \in Nat
    BY <2>1, TreeSizeType
  <2>6. fec \in Nat
    BY <2>2
  <2>7. Len(Meta(b, g)) = ((n + tree) + codes) + v
    <3>1. Len(Meta(b, g)) = Len(Body(b, g)) + v
      BY MetaType DEF Justified
    <3>2. Len(Body(b, g)) = (n + tree) + codes
      BY BodyType DEF Justified
    <3> QED
      BY <3>1, <3>2
  <2>8. tree = IF g.no_tree THEN 0 ELSE TreeSize(n)
    <3>1. CASE g.no_tree
      <4>1. SignedTree(b, g) = << >>
        BY <3>1 DEF SignedTree, HasTreeCells
      <4> QED
        BY <3>1, <4>1
    <3>2. CASE ~g.no_tree
      <4>1. SignedTree(b, g) = TreeCells(Padded(b))
        BY <3>2 DEF SignedTree, HasTreeCells
      <4>2. Padded(b) \in Seq(Cell)
        BY PaddedType
      <4>3. Len(TreeCells(Padded(b))) = TreeSize(Len(Padded(b)))
        BY <4>2, TreeCellsType DEF Justified
      <4> QED
        BY <3>2, <4>1, <4>3
    <3> QED
      BY <2>1, <3>1, <3>2
  <2>9. codes = IF g.no_tree THEN 0 ELSE fec
    <3>1. CASE ~g.no_tree /\ g.fec
      <4>1. SignedCodes(b, g) = FecCells(Padded(b) \o SignedTree(b, g))
        BY <3>1 DEF SignedCodes, HasTreeCells
      <4>2. Padded(b) \o SignedTree(b, g) \in Seq(Cell)
        BY PaddedType, PartsType, LengthOfConcat DEF Justified
      <4>3. Len(FecCells(Padded(b) \o SignedTree(b, g))) = FecLen
        BY <4>2, FecCellsType DEF Justified
      <4> QED
        BY <3>1, <4>1, <4>3
    <3>2. CASE ~(~g.no_tree /\ g.fec)
      <4>1. SignedCodes(b, g) = << >>
        BY <3>2 DEF SignedCodes, HasTreeCells
      <4> QED
        BY <3>2, <4>1
    <3> QED
      BY <3>1, <3>2
  <2>10. n <= (p - MaxMetadata) - (IF g.no_tree THEN 0 ELSE all + fec)
    BY <2>1
  <2> HIDE DEF v, all, fec, p, tree, codes
  <2>11. n <= p
    BY <2>1, <2>2, <2>4, <2>5, <2>6, <2>10
  <2>12. TreeSize(n) <= all
    BY <2>1, <2>4, <2>11, TreeSizeMonotone DEF all
  <2>13. TreeSize(n) \in Nat
    BY <2>4, TreeSizeType
  <2> DEFINE t == TreeSize(n)
  <2> HIDE DEF t
  <2>14. /\ t <= all /\ t \in Nat /\ tree = IF g.no_tree THEN 0 ELSE t
    BY <2>8, <2>12, <2>13 DEF t
  <2>15. p >= (((n + tree) + codes) + v) + BlockSize
    <3>1. CASE g.no_tree
      <4>1. tree = 0 /\ codes = 0 /\ n <= p - (MaxVbmeta + BlockSize)
        BY <2>1, <2>2, <2>9, <2>10, <2>14, <3>1
      <4> QED
        BY <2>1, <2>2, <2>3, <2>4, <4>1
    <3>2. CASE ~g.no_tree
      <4>1. tree = t /\ codes = fec /\ n <= (p - (MaxVbmeta + BlockSize)) - (all + fec)
        BY <2>1, <2>2, <2>9, <2>10, <2>14, <3>2
      <4> QED
        BY <2>1, <2>2, <2>3, <2>4, <2>5, <2>6, <2>14, <4>1
    <3> QED
      BY <3>1, <3>2
  <2>16. p >= Len(Meta(b, g)) + BlockSize
    BY <2>7, <2>15
  <2> QED
    BY <2>1, <2>16, GapFits DEF Justified, p
<1> QED
  BY <1>1, <1>2

LEMMA TreeDescriptor ==
  ASSUME NEW b, NEW g, g.kind = "hashtree"
  PROVE  SignedDescriptor(b, g) =
           [kind |-> "hashtree", image_size |-> Len(Padded(b)), digest |-> Padded(b),
            tree_offset |-> Len(Padded(b)), tree_size |-> Len(SignedTree(b, g)),
            fec_offset |-> IF g.fec THEN Len(Padded(b)) + Len(SignedTree(b, g)) ELSE 0,
            fec_size |-> Len(SignedCodes(b, g))]
BY DEF SignedDescriptor

(* The descriptor of the tree before and after the codes are known.        *)
LEMMA CodesDescribed ==
  ASSUME NEW b, NEW g, g.kind = "hashtree", NEW v, NEW w
  PROVE  [SignedDescriptor(b, g) EXCEPT !.fec_offset = v, !.fec_size = w] =
           [kind |-> "hashtree", image_size |-> Len(Padded(b)), digest |-> Padded(b),
            tree_offset |-> Len(Padded(b)), tree_size |-> Len(SignedTree(b, g)),
            fec_offset |-> v, fec_size |-> w]
<1> DEFINE n == Len(Padded(b))
           d == Padded(b)
           z == Len(SignedTree(b, g))
           x == IF g.fec THEN Len(Padded(b)) + Len(SignedTree(b, g)) ELSE 0
           y == Len(SignedCodes(b, g))
           r == SignedDescriptor(b, g)
<1>1. r =
        [kind |-> "hashtree", image_size |-> n, digest |-> d, tree_offset |-> n,
         tree_size |-> z, fec_offset |-> x, fec_size |-> y]
  BY TreeDescriptor
<1> HIDE DEF n, d, z, x, y, r
<1> DEFINE u == [r EXCEPT !.fec_offset = v]
<1>2. u = [kind |-> "hashtree", image_size |-> n, digest |-> d, tree_offset |-> n,
           tree_size |-> z, fec_offset |-> v, fec_size |-> y]
  BY <1>1
<1> HIDE DEF u
<1>3. [u EXCEPT !.fec_size = w] =
        [kind |-> "hashtree", image_size |-> n, digest |-> d, tree_offset |-> n,
         tree_size |-> z, fec_offset |-> v, fec_size |-> w]
  BY <1>2
<1>4. [r EXCEPT !.fec_offset = v, !.fec_size = w] = [u EXCEPT !.fec_size = w]
  BY DEF u
<1> QED
  BY <1>3, <1>4, Zenon DEF n, d, z, r

LEMMA AppendTreeKeeps ==
  ASSUME Justified, IInv, AppendTree
  PROVE  IInv'
<1> DEFINE size == disk.mem.image_size
           tree == IF job.no_tree THEN << >> ELSE TreeCells(Image)
           desc == [kind |-> "hashtree", image_size |-> size, digest |-> Image,
                    tree_offset |-> size, tree_size |-> Len(tree),
                    fec_offset |-> 0, fec_size |-> 0]
           j == [job EXCEPT !.desc = desc]
           outcomes == IF tree = << >> THEN {disk} ELSE AppendRawOutcomes(disk, Padded(tree))
           refused == size = 0 \/ (job.psize > 0 /\ size > MaxTreeImage)
           g == Goal(job, signed)
           p == Padded(base)
<1>1. /\ job \in Jobs /\ result \in Results /\ signed \in SignedType
      /\ base \in Seq(Cell) /\ NoFooters(base) /\ Len(base) \in Nat
      /\ BaseOK(base, disk.file.sparse)
      /\ AtTree(disk, job, base)
      /\ pc = "tree" /\ pc # "idle" /\ base' = base
      /\ IF refused THEN Continue(Raising(disk), job, "rollback")
         ELSE Attempt(outcomes, j, "fec")
  BY InvTypes DEF AppendTree, At
<1>2. /\ Holds(disk, p) /\ Adding(job, base) /\ job.cmd = "add_hashtree_footer"
      /\ Room(job, base)
  BY <1>1 DEF AtTree
<1>3. p \in Seq(Cell) /\ Len(p) \in Nat /\ Clear(p, base)
  BY <1>1, PaddedType, ClearParts DEF Justified
<1>4. CASE refused
  BY <1>1, <1>2, <1>3, <1>4, RaisingStep
<1>5. CASE ~refused
  <2>1. Attempt(outcomes, j, "fec")
    BY <1>1, <1>5
  <2>2. size = Len(p)
    BY <1>2, HoldsSize
  <2>3. Image = p
    BY <1>2, WholeImage DEF Image
  <2>4. g = [kind |-> "hashtree", psize |-> job.psize, fec |-> job.fec,
             no_tree |-> job.no_tree, zeroed |-> FALSE]
    BY <1>1, <1>2, GoalIs
  <2>5. /\ g \in SignedType /\ g.kind = "hashtree" /\ g.psize = job.psize
        /\ g.fec = job.fec /\ g.no_tree = job.no_tree
    BY <1>1, <2>4 DEF SignedType, Jobs
  <2> HIDE DEF g
  <2>6. tree = SignedTree(base, g)
    BY <2>3, <2>5 DEF SignedTree, HasTreeCells
  <2>7. /\ tree \in Seq(Cell) /\ Len(tree) \in Nat /\ Len(tree) % BlockSize = 0
        /\ NoFooters(tree)
    BY <1>1, <2>5, <2>6, PartsType DEF Justified
  <2> HIDE DEF tree
  <2>8. desc \in Descriptors
    <3>1. /\ 0 \in Nat /\ size \in Nat /\ Len(tree) \in Nat /\ Image \in Seq(Cell)
      BY <1>3, <2>2, <2>3, <2>7
    <3> HIDE DEF size
    <3>2. desc \in [kind : {"hashtree"}, image_size : Nat, digest : Seq(Cell),
                    tree_offset : Nat, tree_size : Nat, fec_offset : Nat, fec_size : Nat]
      BY <3>1
    <3> HIDE DEF desc
    <3> QED
      BY <3>2 DEF Descriptors
  <2> HIDE DEF desc
  <2>9. /\ j \in Jobs /\ j.cmd = job.cmd /\ j.orig = job.orig /\ j.psize = job.psize
        /\ j.fec = job.fec /\ j.no_tree = job.no_tree /\ j.desc = desc
    BY <1>1, <2>8 DEF Jobs
  <2> HIDE DEF j
  <2>10. Goal(j, signed) = g
    BY <1>1, <1>2, <2>9, GoalSame DEF Protected, g
  <2>11. Fits(base, g)
    <3>1. g.psize % BlockSize = 0
      BY <1>2, <2>5 DEF Room
    <3>2. g.psize > 0 => Len(p) <= MaxTreeImage
      <4>1. /\ TreeSize(job.psize) \in Nat /\ MaxMetadata \in Nat /\ FecLen \in Nat
            /\ job.psize \in Nat
        BY <1>1, TreeSizeType, FootersAssumption, SizesAssumption
           DEF MaxMetadata, FooterLen, Jobs
      <4>2. MaxTreeImage \in Int
        BY <4>1 DEF MaxTreeImage
      <4> QED
        BY <1>3, <1>5, <2>2, <2>5, <4>2
    <3>3. MaxTreeImage =
            (g.psize - MaxMetadata)
              - (IF g.no_tree THEN 0
                 ELSE TreeSize(g.psize) + (IF g.fec THEN FecLen ELSE 0))
      BY <2>5 DEF MaxTreeImage
    <3> QED
      BY <1>1, <2>5, <3>1, <3>2, <3>3, TreeFits
  <2>12. \A h \in outcomes : Written(h, disk, base, p \o tree)
    <3>1. CASE tree = << >>
      <4>1. p \o tree = p
        BY <1>3, <3>1
      <4> QED
        BY <1>2, <3>1, <4>1 DEF Written, Done
    <3>2. CASE tree # << >>
      <4>1. Padded(tree) = tree
        BY <2>7, PaddedType
      <4>2. Clean(tree)
        BY <2>7, NoFootersClean
      <4>3. \A h \in AppendRawOutcomes(disk, tree) : Written(h, disk, base, p \o tree)
        <5> HIDE DEF p
        <5> QED
          BY <1>1, <1>2, <1>3, <2>7, <4>2, WriteStep DEF Justified
      <4> QED
        BY <3>2, <4>1, <4>3
    <3> QED
      BY <3>1, <3>2
  <2>13. Adding(j, base)
    BY <1>2, <2>9 DEF Adding
  <2> HIDE DEF outcomes, p
  <2>14. \/ /\ Done(disk', disk, p \o tree) /\ pc' = "fec" /\ job' = j
            /\ result' = result /\ signed' = signed
         \/ IInv'
    BY <1>1, <2>1, <2>9, <2>12, <2>13, AttemptStep
  <2>15. ASSUME Done(disk', disk, p \o tree), pc' = "fec", job' = j,
                result' = result, signed' = signed
         PROVE  IInv'
    <3>1. Holds(disk', p \o tree) /\ BaseOK(base, disk'.file.sparse)
      BY <1>1, <2>15 DEF Done
    <3>2. desc = [SignedDescriptor(base, g) EXCEPT !.fec_offset = 0, !.fec_size = 0]
      <4>1. [SignedDescriptor(base, g) EXCEPT !.fec_offset = 0, !.fec_size = 0] =
              [kind |-> "hashtree", image_size |-> Len(Padded(base)),
               digest |-> Padded(base), tree_offset |-> Len(Padded(base)),
               tree_size |-> Len(SignedTree(base, g)), fec_offset |-> 0, fec_size |-> 0]
        BY <2>5, CodesDescribed
      <4> QED
        BY <2>2, <2>3, <2>6, <4>1 DEF desc, p
    <3>3. AtFec(disk', j, base, signed)
      BY <1>2, <2>6, <2>9, <2>10, <2>11, <2>13, <3>1, <3>2 DEF AtFec, p
    <3>4. At(disk', "fec", j, base, signed) /\ "fec" \in Points
      BY <3>3 DEF At, Points
    <3>5. Inv(disk', "fec", j, result, base, signed)
      BY <1>1, <2>9, <3>1, <3>4, NextPoint
    <3> QED
      BY <1>1, <2>15, <3>5, PrimedInv
  <2> QED
    BY <2>14, <2>15
<1> QED
  BY <1>4, <1>5

LEMMA AppendFecKeeps ==
  ASSUME Justified, IInv, AppendFec
  PROVE  IInv'
<1> DEFINE fec == IF job.no_tree THEN << >> ELSE FecCells(Image)
           desc == [job.desc EXCEPT !.fec_offset = disk.mem.image_size,
                                    !.fec_size = Len(fec)]
           off == job.desc.tree_offset + RoundUp(job.desc.tree_size)
           j(d, n) == [job EXCEPT !.desc = d,
                                  !.footer = FooterCell(job.orig, off + n, VbmetaLen)]
           g == Goal(job, signed)
           p == Padded(base)
           tree == SignedTree(base, g)
           codes == SignedCodes(base, g)
           full == SignedDescriptor(base, g)
           foot == FooterOf(base, g)
           k == [job EXCEPT !.desc = full, !.footer = foot]
           t == p \o tree
<1>1. /\ job \in Jobs /\ result \in Results /\ signed \in SignedType
      /\ base \in Seq(Cell) /\ NoFooters(base) /\ Len(base) \in Nat
      /\ BaseOK(base, disk.file.sparse)
      /\ AtFec(disk, job, base, signed)
      /\ pc = "fec" /\ pc # "idle" /\ base' = base
      /\ IF job.fec
         THEN Attempt(AppendRawOutcomes(disk, Padded(fec)),
                      j(desc, RoundUp(Len(fec))), "vbmeta")
         ELSE Continue(disk, j(job.desc, 0), "vbmeta")
  BY InvTypes DEF AppendFec, At
<1>2. /\ Adding(job, base) /\ job.cmd = "add_hashtree_footer" /\ Fits(base, g)
      /\ job.desc = [full EXCEPT !.fec_offset = 0, !.fec_size = 0]
      /\ Holds(disk, t)
  BY <1>1 DEF AtFec
<1>3. g = [kind |-> "hashtree", psize |-> job.psize, fec |-> job.fec,
           no_tree |-> job.no_tree, zeroed |-> FALSE]
  BY <1>1, <1>2, GoalIs
<1>4. /\ g \in SignedType /\ g.kind = "hashtree" /\ g.psize = job.psize
      /\ g.fec = job.fec /\ g.no_tree = job.no_tree /\ ~g.zeroed /\ job.fec \in BOOLEAN
  BY <1>1, <1>3 DEF SignedType, Jobs
<1> HIDE DEF g
<1>5. /\ tree \in Seq(Cell) /\ Len(tree) \in Nat /\ Len(tree) % BlockSize = 0
      /\ codes \in Seq(Cell) /\ Len(codes) \in Nat /\ Len(codes) % BlockSize = 0
      /\ NoFooters(codes)
  BY <1>1, <1>4, PartsType DEF Justified
<1>6. p \in Seq(Cell) /\ Len(p) \in Nat /\ Len(p) % BlockSize = 0
  BY <1>1, PaddedType
<1>7. Clear(t, base)
  BY <1>1, <1>4, ClearParts DEF Justified
<1>8. Len(t) = Len(p) + Len(tree) /\ t \in Seq(Cell)
  BY <1>5, <1>6, LengthOfConcat
<1>9. disk.mem.image_size = Len(p) + Len(tree) /\ Image = t
  BY <1>2, <1>8, HoldsSize, WholeImage DEF Image
<1>10. full = [kind |-> "hashtree", image_size |-> Len(p), digest |-> p,
               tree_offset |-> Len(p), tree_size |-> Len(tree),
               fec_offset |-> IF g.fec THEN Len(p) + Len(tree) ELSE 0,
               fec_size |-> Len(codes)]
  BY <1>4, TreeDescriptor
<1>11. /\ Body(base, g) = t \o codes
       /\ Len(Body(base, g)) = (Len(p) + Len(tree)) + Len(codes)
  BY <1>1, <1>4, BodyType, TreeBody DEF Justified
<1>12. full \in Descriptors
  BY <1>1, <1>4, DescriptorType DEF Justified
<1>13. foot = FooterCell(job.orig, (Len(p) + Len(tree)) + Len(codes), VbmetaLen)
  BY <1>2, <1>11 DEF FooterOf, Adding
<1>14. foot \in Footers
  <2>1. Len(Body(base, g)) \in Nat /\ Len(Body(base, g)) % BlockSize = 0
    BY <1>1, <1>4, BodyType DEF Justified
  <2> QED
    BY <1>1, <2>1, FooterType DEF FooterOf
<1>15. off = Len(p) + Len(tree)
  <2>1. job.desc.tree_offset = Len(p) /\ job.desc.tree_size = Len(tree)
    BY <1>2, <1>10
  <2>2. RoundUp(Len(tree)) = Len(tree)
    BY <1>5, RoundUpAligned
  <2> QED
    BY <2>1, <2>2
<1>16. job.fec => fec = codes
  BY <1>4, <1>9 DEF SignedCodes, HasTreeCells
<1>17. ~job.fec => codes = << >>
  BY <1>4 DEF SignedCodes
<1> HIDE DEF p, tree, codes, full, foot, t, off, fec
<1>18. /\ k \in Jobs /\ k.cmd = job.cmd /\ k.orig = job.orig /\ k.psize = job.psize
       /\ k.fec = job.fec /\ k.no_tree = job.no_tree /\ k.desc = full /\ k.footer = foot
  BY <1>1, <1>12, <1>14 DEF Jobs
<1>19. Goal(k, signed) = g
  <2> HIDE DEF k
  <2> QED
    BY <1>1, <1>2, <1>18, GoalSame DEF Protected, g
<1>20. Adding(k, base)
  <2> HIDE DEF k
  <2> QED
    BY <1>2, <1>18 DEF Adding
<1>21. ASSUME NEW h, Holds(h, Body(base, g)), BaseOK(base, h.file.sparse)
       PROVE  Inv(h, "vbmeta", k, result, base, signed)
  <2> HIDE DEF k
  <2>1. Described(k, base, signed)
    BY <1>2, <1>18, <1>19 DEF Described, full
  <2>2. Footed(k, base, signed)
    BY <1>2, <1>18, <1>19 DEF Footed, foot
  <2>3. AtVbmeta(h, k, base, signed)
    BY <1>19, <1>20, <1>21, <2>1, <2>2 DEF AtVbmeta
  <2>4. At(h, "vbmeta", k, base, signed) /\ "vbmeta" \in Points
    BY <2>3 DEF At, Points
  <2> QED
    BY <1>1, <1>18, <1>21, <2>4, NextPoint
<1>22. CASE job.fec
  <2>1. RoundUp(Len(codes)) = Len(codes) /\ Padded(codes) = codes
    BY <1>5, RoundUpAligned, PaddedType
  <2>2. desc = full
    <3> DEFINE n == Len(p)
               z == Len(tree)
               x == Len(p) + Len(tree)
               y == Len(codes)
    <3>1. g.kind = "hashtree"
      BY <1>4
    <3>2. /\ [full EXCEPT !.fec_offset = 0, !.fec_size = 0] =
               [kind |-> "hashtree", image_size |-> n, digest |-> p, tree_offset |-> n,
                tree_size |-> z, fec_offset |-> 0, fec_size |-> 0]
          /\ [full EXCEPT !.fec_offset = x, !.fec_size = y] =
               [kind |-> "hashtree", image_size |-> n, digest |-> p, tree_offset |-> n,
                tree_size |-> z, fec_offset |-> x, fec_size |-> y]
      BY <3>1, CodesDescribed, Zenon DEF full, p, tree
    <3>3. full = [kind |-> "hashtree", image_size |-> n, digest |-> p, tree_offset |-> n,
                  tree_size |-> z, fec_offset |-> x, fec_size |-> y]
      BY <1>4, <1>10, <1>22
    <3>4. desc = [job.desc EXCEPT !.fec_offset = x, !.fec_size = y]
      BY <1>9, <1>16, <1>22, Zenon
    <3> HIDE DEF n, z, x, y, desc
    <3> DEFINE u == [job.desc EXCEPT !.fec_offset = x]
    <3>5. job.desc = [kind |-> "hashtree", image_size |-> n, digest |-> p,
                      tree_offset |-> n, tree_size |-> z, fec_offset |-> 0, fec_size |-> 0]
      BY <1>2, <3>2
    <3>6. u = [kind |-> "hashtree", image_size |-> n, digest |-> p,
               tree_offset |-> n, tree_size |-> z, fec_offset |-> x, fec_size |-> 0]
      BY <3>5
    <3> HIDE DEF u
    <3>7. [u EXCEPT !.fec_size = y] =
            [kind |-> "hashtree", image_size |-> n, digest |-> p,
             tree_offset |-> n, tree_size |-> z, fec_offset |-> x, fec_size |-> y]
      BY <3>6
    <3>8. desc = [u EXCEPT !.fec_size = y]
      BY <3>4 DEF u
    <3> QED
      BY <3>3, <3>7, <3>8, Zenon
  <2>3. j(desc, RoundUp(Len(fec))) = k
    BY <1>13, <1>15, <1>16, <1>22, <2>1, <2>2
  <2>4. Attempt(AppendRawOutcomes(disk, codes), k, "vbmeta")
    BY <1>1, <1>16, <1>22, <2>1, <2>3
  <2> HIDE DEF k, j, desc
  <2>5. \A h \in AppendRawOutcomes(disk, codes) : Written(h, disk, base, t \o codes)
    <3>1. Clean(codes)
      BY <1>5, NoFootersClean
    <3> QED
      BY <1>1, <1>2, <1>5, <1>7, <3>1, WriteStep DEF Justified
  <2>6. \/ /\ Done(disk', disk, t \o codes) /\ pc' = "vbmeta" /\ job' = k
           /\ result' = result /\ signed' = signed
        \/ IInv'
    BY <1>1, <1>18, <1>20, <2>4, <2>5, AttemptStep
  <2>7. ASSUME Done(disk', disk, t \o codes), pc' = "vbmeta", job' = k,
               result' = result, signed' = signed
        PROVE  IInv'
    <3>1. Holds(disk', Body(base, g)) /\ BaseOK(base, disk'.file.sparse)
      BY <1>1, <1>11, <2>7 DEF Done
    <3>2. Inv(disk', "vbmeta", k, result, base, signed)
      BY <1>21, <3>1
    <3> QED
      BY <1>1, <2>7, <3>2, PrimedInv
  <2> QED
    BY <2>6, <2>7
<1>23. CASE ~job.fec
  <2>1. Continue(disk, j(job.desc, 0), "vbmeta")
    BY <1>1, <1>23
  <2>2. codes = << >> /\ Len(codes) = 0
    BY <1>17, <1>23
  <2>3. job.desc = full
    BY <1>2, <1>4, <1>10, <1>23, <2>2
  <2>4. Len(p) + Len(tree) \in Nat
    BY <1>5, <1>6
  <2>5. j(job.desc, 0) = k
    <3>1. off + 0 = (Len(p) + Len(tree)) + Len(codes)
      BY <1>15, <2>2, <2>4
    <3> QED
      BY <1>13, <2>3, <3>1
  <2>6. Body(base, g) = t
    <3>1. t \o << >> = t
      BY <1>8
    <3> QED
      BY <1>11, <2>2, <3>1
  <2>7. Continue(disk, k, "vbmeta")
    BY <2>1, <2>5
  <2> HIDE DEF k, j, desc
  <2>8. Inv(disk, "vbmeta", k, result, base, signed)
    BY <1>1, <1>2, <1>21, <2>6
  <2>9. /\ disk' = disk /\ pc' = "vbmeta" /\ job' = k /\ result' = result
        /\ signed' = signed
    BY <2>7 DEF Continue
  <2> QED
    BY <1>1, <2>8, <2>9, PrimedInv
<1> QED
  BY <1>22, <1>23

LEMMA GoalSize ==
  ASSUME NEW j \in Jobs, NEW s \in SignedType,
         j.cmd \in Protected \cup {"resize_image"}
  PROVE  Goal(j, s).psize = j.psize
<1>1. ASSUME j.cmd = "add_hash_footer" PROVE Goal(j, s).psize = j.psize
  <2>1. Goal(j, s) = [kind |-> "hash", psize |-> j.psize, fec |-> FALSE,
                      no_tree |-> FALSE, zeroed |-> FALSE]
    BY <1>1, GoalIs
  <2> QED
    BY <2>1
<1>2. ASSUME j.cmd = "append_vbmeta_image" PROVE Goal(j, s).psize = j.psize
  <2>1. Goal(j, s) = [kind |-> "vbmeta", psize |-> j.psize, fec |-> FALSE,
                      no_tree |-> FALSE, zeroed |-> FALSE]
    BY <1>2, GoalIs
  <2> QED
    BY <2>1
<1>3. ASSUME j.cmd = "add_hashtree_footer" PROVE Goal(j, s).psize = j.psize
  <2>1. Goal(j, s) = [kind |-> "hashtree", psize |-> j.psize, fec |-> j.fec,
                      no_tree |-> j.no_tree, zeroed |-> FALSE]
    BY <1>3, GoalIs
  <2> QED
    BY <2>1
<1>4. ASSUME j.cmd = "resize_image" PROVE Goal(j, s).psize = j.psize
  <2>1. Goal(j, s) = [kind |-> s.kind, psize |-> j.psize, fec |-> s.fec,
                      no_tree |-> s.no_tree, zeroed |-> s.zeroed]
    BY <1>4, GoalIs
  <2> QED
    BY <2>1
<1> QED
  BY <1>1, <1>2, <1>3, <1>4 DEF Protected

(* What a command that ends with a footer has signed the image with.       *)
LEMMA FinishingGoal ==
  ASSUME NEW j \in Jobs, NEW s \in SignedType, NEW b, Finishing(j, b, s)
  PROVE  /\ Goal(j, s) \in SignedType /\ Goal(j, s).kind # "none"
         /\ Goal(j, s).psize = j.psize /\ Fits(b, Goal(j, s))
         /\ j.footer = FooterOf(b, Goal(j, s))
         /\ j.cmd \in Protected => Adding(j, b)
<1>1. /\ Footed(j, b, s)
      /\ Adding(j, b) \/ (j.cmd = "resize_image" /\ s.kind # "none")
  BY DEF Finishing
<1>2. j.cmd \in Protected \/ (j.cmd = "resize_image" /\ s.kind # "none")
  BY <1>1 DEF Adding
<1>3. Goal(j, s) \in SignedType /\ Goal(j, s).kind # "none"
  BY <1>2, GoalKind
<1>4. Goal(j, s).psize = j.psize
  BY <1>2, GoalSize
<1>5. "resize_image" \notin Protected
  BY DEF Protected
<1> QED
  BY <1>1, <1>3, <1>4, <1>5 DEF Footed

LEMMA AppendVbmetaKeeps ==
  ASSUME Justified, IInv, AppendVbmeta
  PROVE  IInv'
<1> DEFINE g == Goal(job, signed)
           data == Padded(VbmetaBlob(job.desc))
           t == Body(base, g)
<1>1. /\ job \in Jobs /\ result \in Results /\ signed \in SignedType
      /\ base \in Seq(Cell) /\ NoFooters(base) /\ Len(base) \in Nat
      /\ BaseOK(base, disk.file.sparse)
      /\ AtVbmeta(disk, job, base, signed)
      /\ pc = "vbmeta" /\ pc # "idle" /\ base' = base
      /\ Attempt(AppendRawOutcomes(disk, data), job, "gap")
  BY InvTypes DEF AppendVbmeta, At
<1>2. /\ Adding(job, base) /\ Footed(job, base, signed) /\ Holds(disk, t)
      /\ job.desc = SignedDescriptor(base, g)
  BY <1>1 DEF AtVbmeta, Described
<1>3. g \in SignedType /\ g.kind # "none"
  BY <1>1, <1>2, GoalKind DEF Adding
<1> HIDE DEF g
<1>4. /\ data \in Seq(Cell) /\ NoFooters(data)
      /\ Len(data) = RoundUp(VbmetaLen) /\ RoundUp(VbmetaLen) % BlockSize = 0
  BY <1>1, <1>2, <1>3, MetaType DEF Justified
<1>5. Meta(base, g) = t \o data
  BY <1>2 DEF Meta
<1>6. Clear(t, base)
  BY <1>1, <1>3, ClearParts DEF Justified
<1> HIDE DEF t, data
<1>7. \A h \in AppendRawOutcomes(disk, data) : Written(h, disk, base, t \o data)
  BY <1>1, <1>2, <1>4, <1>6, NoFootersClean, WriteStep DEF Justified
<1>8. \/ /\ Done(disk', disk, t \o data) /\ pc' = "gap" /\ job' = job
         /\ result' = result /\ signed' = signed
      \/ IInv'
  BY <1>1, <1>2, <1>7, AttemptStep
<1>9. ASSUME Done(disk', disk, t \o data), pc' = "gap", job' = job,
             result' = result, signed' = signed
      PROVE  IInv'
  <2>1. Holds(disk', Meta(base, g)) /\ BaseOK(base, disk'.file.sparse)
    BY <1>1, <1>5, <1>9 DEF Done
  <2>2. AtGap(disk', job, base, signed)
    BY <1>2, <2>1 DEF AtGap, Finishing, g
  <2>3. At(disk', "gap", job, base, signed) /\ "gap" \in Points
    BY <2>2 DEF At, Points
  <2>4. Inv(disk', "gap", job, result, base, signed)
    BY <1>1, <2>1, <2>3, NextPoint
  <2> QED
    BY <1>1, <1>9, <2>4, PrimedInv
<1> QED
  BY <1>8, <1>9

LEMMA AppendGapKeeps ==
  ASSUME Justified, IInv, AppendGap
  PROVE  IInv'
<1> DEFINE g == Goal(job, signed)
           end == IF job.cmd = "add_hashtree_footer" THEN disk.mem.image_size
                  ELSE job.end
           size == job.psize - end - BlockSize
           m == Meta(base, g)
           gap == Gap(base, g)
           outcomes == AppendDontCareOutcomes(disk, size)
           dynamic == job.cmd = "add_hashtree_footer" /\ job.psize = 0
<1>1. /\ job \in Jobs /\ result \in Results /\ signed \in SignedType
      /\ base \in Seq(Cell) /\ NoFooters(base) /\ Len(base) \in Nat
      /\ BaseOK(base, disk.file.sparse)
      /\ AtGap(disk, job, base, signed)
      /\ pc = "gap" /\ pc # "idle" /\ base' = base
      /\ IF dynamic THEN Continue(disk, job, "footer")
         ELSE Attempt(outcomes, job, "footer")
  BY InvTypes DEF AppendGap, At
<1>2. Finishing(job, base, signed) /\ Holds(disk, m)
  BY <1>1 DEF AtGap
<1>3. /\ g \in SignedType /\ g.kind # "none" /\ g.psize = job.psize /\ Fits(base, g)
      /\ job.cmd \in Protected => Adding(job, base)
  BY <1>1, <1>2, FinishingGoal
<1>4. job.cmd # "add_hashtree_footer" => job.end = Len(m) /\ job.psize > 0
  BY <1>2 DEF Finishing, Footed
<1>5. gap \in Nat /\ gap % BlockSize = 0
  BY <1>3 DEF Fits
<1>6. disk.mem.image_size = Len(m) /\ m \in Seq(Cell)
  BY <1>2, HoldsSize
<1>7. ASSUME NEW h, Done(h, disk, m \o Zeros(gap))
      PROVE  Inv(h, "footer", job, result, base, signed)
  <2>1. Holds(h, m \o Zeros(gap)) /\ BaseOK(base, h.file.sparse)
    BY <1>1, <1>7 DEF Done
  <2>2. AtFooter(h, job, base, signed)
    BY <1>2, <2>1 DEF AtFooter
  <2>3. At(h, "footer", job, base, signed) /\ "footer" \in Points
    BY <2>2 DEF At, Points
  <2> HIDE DEF m, gap
  <2> QED
    BY <1>1, <2>1, <2>3, NextPoint
<1>8. CASE dynamic
  <2>1. gap = 0
    BY <1>3, <1>8 DEF Gap
  <2>2. m \o Zeros(gap) = m
    <3>1. Zeros(gap) = << >>
      BY <2>1 DEF Zeros
    <3> HIDE DEF m
    <3>2. m \o << >> = m
      BY <1>6
    <3> QED
      BY <3>1, <3>2
  <2>3. Inv(disk, "footer", job, result, base, signed)
    <3>1. Done(disk, disk, m \o Zeros(gap))
      BY <1>2, <2>2 DEF Done
    <3> HIDE DEF m, gap
    <3> QED
      BY <1>7, <3>1
  <2>4. /\ disk' = disk /\ pc' = "footer" /\ job' = job /\ result' = result
        /\ signed' = signed
    BY <1>1, <1>8 DEF Continue
  <2> QED
    BY <1>1, <2>3, <2>4, PrimedInv
<1>9. CASE ~dynamic
  <2>1. end = Len(m)
    BY <1>4, <1>6
  <2>2. job.psize # 0
    BY <1>4, <1>9
  <2>3. gap = job.psize - Len(m) - BlockSize
    BY <1>3, <2>2 DEF Gap
  <2>4. size = gap
    BY <2>1, <2>3
  <2>5. Attempt(AppendDontCareOutcomes(disk, gap), job, "footer")
    BY <1>1, <1>9, <2>4
  <2>6. \A h \in AppendDontCareOutcomes(disk, gap) : Done(h, disk, m \o Zeros(gap))
    <3> HIDE DEF m, gap
    <3>1. \A h \in AppendDontCareOutcomes(disk, gap) :
            Done(h, disk, m \o [i \in 1..gap |-> Zero])
      BY <1>2, <1>5, AppendDontCareOutcome DEF Justified
    <3>2. Zeros(gap) = [i \in 1..gap |-> Zero]
      BY Zenon DEF Zeros
    <3> QED
      BY <3>1, <3>2, Zenon
  <2> HIDE DEF m, gap
  <2>7. \A h \in AppendDontCareOutcomes(disk, gap) : Written(h, disk, base, m \o Zeros(gap))
    BY <2>6 DEF Written
  <2>8. \/ /\ Done(disk', disk, m \o Zeros(gap)) /\ pc' = "footer" /\ job' = job
           /\ result' = result /\ signed' = signed
        \/ IInv'
    BY <1>1, <1>3, <2>5, <2>7, AttemptStep
  <2>9. ASSUME Done(disk', disk, m \o Zeros(gap)), pc' = "footer", job' = job,
               result' = result, signed' = signed
        PROVE  IInv'
    <3>1. Inv(disk', "footer", job, result, base, signed)
      BY <1>7, <2>9
    <3> QED
      BY <1>1, <2>9, <3>1, PrimedInv
  <2> QED
    BY <2>8, <2>9
<1> QED
  BY <1>8, <1>9

LEMMA AppendFooterKeeps ==
  ASSUME Justified, IInv, AppendFooter
  PROVE  IInv'
<1> DEFINE g == Goal(job, signed)
           f == job.footer
           block == FooterBlock(f.original_image_size, f.vbmeta_offset, f.vbmeta_size)
           t == Meta(base, g) \o Zeros(Gap(base, g))
<1>1. /\ job \in Jobs /\ job.cmd \in Names /\ result \in Results
      /\ signed \in SignedType
      /\ base \in Seq(Cell) /\ NoFooters(base) /\ Len(base) \in Nat
      /\ BaseOK(base, disk.file.sparse)
      /\ AtFooter(disk, job, base, signed)
      /\ pc = "footer" /\ pc # "idle" /\ base' = base
  BY InvTypes DEF AppendFooter, At, Jobs
<1>2. PICK h \in AppendRawOutcomes(disk, block) :
        IF h.raised THEN Attempt({h}, job, "rollback")
        ELSE End(h.file, job, "ok", SignedBy(job))
  BY DEF AppendFooter
<1>3. Finishing(job, base, signed) /\ Holds(disk, t)
  BY <1>1 DEF AtFooter
<1>4. /\ g \in SignedType /\ g.kind # "none" /\ Fits(base, g)
      /\ f = FooterOf(base, g)
      /\ job.cmd \in Protected => Adding(job, base)
  BY <1>1, <1>3, FinishingGoal
<1>5. SignedBy(job) = g
  BY <1>3 DEF SignedBy, Goal, Finishing, Adding, Protected
<1> HIDE DEF g
<1>6. block = FooterBlock(Len(base), Len(Body(base, g)), VbmetaLen)
  BY <1>4 DEF FooterOf, FooterCell
<1>7. /\ block \in Seq(Cell) /\ Len(block) = BlockSize /\ Clean(block)
      /\ Layout(base, g) = t \o block
  <2> DEFINE u == FooterBlock(Len(base), Len(Body(base, g)), VbmetaLen)
             image == Layout(base, g)
  <2>1. /\ u \in Seq(Cell) /\ Len(u) = BlockSize /\ Clean(u) /\ image = t \o u
    BY <1>1, <1>4, LayoutIs DEF Justified
  <2> HIDE DEF u, image
  <2>2. block = u
    BY <1>6 DEF u
  <2> HIDE DEF block, t
  <2> QED
    BY <2>1, <2>2 DEF image
<1>8. Clear(t, base)
  BY <1>1, <1>4, ClearParts DEF Justified
<1> HIDE DEF block, t
<1>9. BlockSize % BlockSize = 0
  BY SizesAssumption
<1>10. Written(h, disk, base, t \o block)
  BY <1>1, <1>2, <1>3, <1>7, <1>8, <1>9, WriteStep DEF Justified
<1>11. CASE Done(h, disk, t \o block)
  <2>1. h.raised = FALSE
    BY <1>11, HoldsTypes DEF Done
  <2>2. End(h.file, job, "ok", g)
    BY <1>2, <1>5, <2>1
  <2>3. Rests(h.file, Layout(base, g)) /\ BaseOK(base, h.file.sparse)
    BY <1>1, <1>7, <1>11, HoldsIsOpen DEF Done
  <2> QED
    BY <1>1, <1>4, <2>2, <2>3, EndedStep
<1>12. CASE "raise" \in Faults /\ Stopped(h, disk, base)
  <2>1. h.raised = TRUE
    BY <1>12 DEF Stopped
  <2>2. \E k \in {h} :
          CASE ~k.raised -> Continue(k, job, "rollback")
            [] k.raised /\ job.cmd \in Protected -> Continue(k, job, "rollback")
            [] k.raised /\ job.cmd \notin Protected -> Fail(k.file, job)
    BY <1>2, <2>1 DEF Attempt
  <2>3. \/ job.cmd \in Protected /\ Continue(h, job, "rollback")
        \/ job.cmd \notin Protected /\ Fail(h.file, job)
    BY <2>1, <2>2
  <2> QED
    BY <1>1, <1>4, <1>12, <2>3, RaisedStep
<1> QED
  BY <1>10, <1>11, <1>12 DEF Written

LEMMA ToolFailsKeeps ==
  ASSUME Justified, IInv, ToolFails
  PROVE  IInv'
<1> DEFINE g == Goal(job, signed)
<1>1. /\ job \in Jobs /\ signed \in SignedType
      /\ base \in Seq(Cell) /\ NoFooters(base)
      /\ At(disk, pc, job, base, signed)
      /\ base' = base /\ Continue(Raising(disk), job, "rollback")
      /\ pc \in {"check", "fec", "vbmeta"}
  BY InvTypes DEF ToolFails
<1>2. CASE pc = "check"
  <2>1. Holds(disk, base) /\ Adding(job, base)
    BY <1>1, <1>2 DEF At, AtCheck
  <2>2. Clear(base, base)
    BY <1>1, ClearParts DEF Justified
  <2> QED
    BY <1>1, <2>1, <2>2, RaisingStep
<1>3. CASE pc = "fec"
  <2>1. Holds(disk, Padded(base) \o SignedTree(base, g)) /\ Adding(job, base)
    BY <1>1, <1>3 DEF At, AtFec
  <2>2. g \in SignedType
    BY <1>1, <2>1, GoalKind DEF Adding
  <2> HIDE DEF g
  <2>3. Clear(Padded(base) \o SignedTree(base, g), base)
    BY <1>1, <2>2, ClearParts DEF Justified
  <2> QED
    BY <1>1, <2>1, <2>3, RaisingStep
<1>4. CASE pc = "vbmeta"
  <2>1. Holds(disk, Body(base, g)) /\ Adding(job, base)
    BY <1>1, <1>4 DEF At, AtVbmeta
  <2>2. g \in SignedType
    BY <1>1, <2>1, GoalKind DEF Adding
  <2> HIDE DEF g
  <2>3. Clear(Body(base, g), base)
    BY <1>1, <2>2, ClearParts DEF Justified
  <2> QED
    BY <1>1, <2>1, <2>3, RaisingStep
<1> QED
  BY <1>1, <1>2, <1>3, <1>4

-----------------------------------------------------------------------------
(* resize_image and zero_hashtree.                                         *)

(* An image that is signed can be cut at any block the signing wrote.      *)
LEMMA CutLayout ==
  ASSUME Justified, NEW h, NEW b \in Seq(Cell), NEW s \in SignedType,
         s.kind # "none", Fits(b, s), NoFooters(b), BaseOK(b, h.file.sparse),
         Holds(h, Layout(b, s)), NEW t \in Seq(Cell), Starts(Layout(b, s), t),
         Len(b) <= Len(t), Len(t) % BlockSize = 0
  PROVE  Done(Truncate(h, Len(t)), h, t)
<1>1. ~h.file.sparse => Len(t) >= HeaderLen
  <2>1. ~h.file.sparse => Len(b) >= HeaderLen
    BY DEF BaseOK
  <2>2. HeaderLen \in Nat /\ Len(b) \in Nat /\ Len(t) \in Nat
    BY SizesAssumption
  <2> QED
    BY <2>1, <2>2
<1> QED
  BY <1>1, CutTo

LEMMA CutForResizeKeeps ==
  ASSUME Justified, IInv, CutForResize
  PROVE  IInv'
<1> DEFINE g == Goal(job, signed)
           m == Meta(base, signed)
           h == Truncate(disk, job.end)
<1>1. /\ job \in Jobs /\ result \in Results /\ signed \in SignedType
      /\ base \in Seq(Cell) /\ NoFooters(base) /\ Len(base) \in Nat
      /\ BaseOK(base, disk.file.sparse)
      /\ AtCut(disk, job, base, signed)
      /\ base' = base /\ job.cmd = "resize_image"
      /\ Attempt({h}, job, "gap")
  BY InvTypes DEF CutForResize, At
<1>2. /\ signed.kind # "none" /\ Fits(base, signed)
      /\ Holds(disk, Layout(base, signed)) /\ Footed(job, base, signed)
  BY <1>1 DEF AtCut, Zeroing
<1>3. g = [kind |-> signed.kind, psize |-> job.psize, fec |-> signed.fec,
           no_tree |-> signed.no_tree, zeroed |-> signed.zeroed]
  BY <1>1, GoalIs
<1>4. /\ g \in SignedType /\ g.kind = signed.kind /\ g.fec = signed.fec
      /\ g.no_tree = signed.no_tree /\ g.zeroed = signed.zeroed
  BY <1>1, <1>3 DEF SignedType, Jobs
<1> HIDE DEF g
<1>5. Meta(base, g) = m
  BY <1>1, <1>4, SignedAlike DEF Justified
<1>6. job.end = Len(m)
  BY <1>1, <1>2, <1>5 DEF Footed, g
<1>7. /\ m \in Seq(Cell) /\ Len(m) % BlockSize = 0 /\ Len(base) <= Len(m)
  BY <1>1, <1>2, MetaType DEF Justified, Starts
<1>8. Starts(Layout(base, signed), m)
  BY <1>1, <1>2, LayoutIs DEF Justified
<1>9. Done(h, disk, m)
  <2> HIDE DEF m
  <2>1. Done(Truncate(disk, Len(m)), disk, m)
    BY <1>1, <1>2, <1>7, <1>8, CutLayout
  <2> QED
    BY <1>6, <2>1
<1>10. /\ disk' = h /\ pc' = "gap" /\ job' = job /\ result' = result
       /\ signed' = signed
  <2> HIDE DEF h, m
  <2> QED
    BY <1>1, <1>9, SureStep
<1>11. Holds(h, m) /\ BaseOK(base, h.file.sparse)
  BY <1>1, <1>9 DEF Done
<1>12. AtGap(h, job, base, signed)
  <2>1. Finishing(job, base, signed)
    BY <1>1, <1>2 DEF Finishing
  <2> QED
    BY <1>5, <1>11, <2>1 DEF AtGap, g
<1>13. Inv(h, "gap", job, result, base, signed)
  <2>1. At(h, "gap", job, base, signed) /\ "gap" \in Points
    BY <1>12 DEF At, Points
  <2> HIDE DEF h, m
  <2> QED
    BY <1>1, <1>11, <2>1, NextPoint
<1> QED
  BY <1>1, <1>10, <1>13, PrimedInv

LEMMA CutForZeroKeeps ==
  ASSUME Justified, IInv, CutForZero
  PROVE  IInv'
<1> DEFINE p == Padded(base)
           h == Truncate(disk, job.desc.tree_offset)
<1>1. /\ job \in Jobs /\ result \in Results /\ signed \in SignedType
      /\ base \in Seq(Cell) /\ NoFooters(base) /\ Len(base) \in Nat
      /\ BaseOK(base, disk.file.sparse)
      /\ AtCut(disk, job, base, signed)
      /\ base' = base /\ job.cmd = "zero_hashtree"
      /\ Attempt({h}, job, "mark")
  BY InvTypes DEF CutForZero, At
<1>2. /\ signed.kind = "hashtree" /\ Fits(base, signed)
      /\ Holds(disk, Layout(base, signed)) /\ Zeroing(job, base, signed)
      /\ job.desc = SignedDescriptor(base, signed)
  BY <1>1 DEF AtCut, Zeroing
<1>3. job.desc.tree_offset = Len(p)
  BY <1>2, TreeDescriptor
<1>4. p \in Seq(Cell) /\ Len(p) % BlockSize = 0 /\ Len(base) <= Len(p)
  BY <1>1, PaddedType
<1>5. Starts(Layout(base, signed), p)
  <2> DEFINE body == Body(base, signed)
             tail == SignedTail(base, signed)
  <2>1. Layout(base, signed) = body \o tail /\ tail \in Seq(Cell)
    BY <1>1, <1>2, LayoutIs DEF Justified
  <2>2. body \in Seq(Cell) /\ Starts(body, p)
    BY <1>1, BodyType DEF Justified
  <2> HIDE DEF body, tail, p
  <2> QED
    BY <1>4, <2>1, <2>2, StartsConcat
<1>6. Done(h, disk, p)
  <2> HIDE DEF p
  <2>1. Done(Truncate(disk, Len(p)), disk, p)
    BY <1>1, <1>2, <1>4, <1>5, CutLayout
  <2> QED
    BY <1>3, <2>1
<1>7. /\ disk' = h /\ pc' = "mark" /\ job' = job /\ result' = result
      /\ signed' = signed
  <2> HIDE DEF h, p
  <2> QED
    BY <1>1, <1>6, SureStep
<1>8. Holds(h, p) /\ BaseOK(base, h.file.sparse)
  BY <1>1, <1>6 DEF Done
<1>9. AtMark(h, job, base, signed)
  BY <1>2, <1>8 DEF AtMark
<1>10. Inv(h, "mark", job, result, base, signed)
  <2>1. At(h, "mark", job, base, signed) /\ "mark" \in Points
    BY <1>9 DEF At, Points
  <2> HIDE DEF h, p
  <2> QED
    BY <1>1, <1>8, <2>1, NextPoint
<1> QED
  BY <1>1, <1>7, <1>10, PrimedInv

(* A step of zero_hashtree that writes u behind t.                         *)
LEMMA ZeroingStep ==
  ASSUME Justified, IInv, pc # "idle", Zeroing(job, base, signed),
         NEW t, NEW u, NEW outcomes,
         \A h \in outcomes : Written(h, disk, base, t \o u),
         NEW next \in Points, next # "idle", Attempt(outcomes, job, next), base' = base,
         \A h : Holds(h, t \o u) => At(h, next, job, base, signed)
  PROVE  IInv'
<1>1. /\ job \in Jobs /\ result \in Results /\ signed \in SignedType
      /\ BaseOK(base, disk.file.sparse)
  BY InvTypes
<1>2. job.cmd \notin Protected
  BY DEF Zeroing, Protected
<1>3. \/ /\ Done(disk', disk, t \o u) /\ pc' = next /\ job' = job
         /\ result' = result /\ signed' = signed
      \/ IInv'
  BY <1>1, <1>2, AttemptStep
<1>4. ASSUME Done(disk', disk, t \o u), pc' = next, job' = job,
             result' = result, signed' = signed
      PROVE  IInv'
  <2>1. Holds(disk', t \o u) /\ BaseOK(base, disk'.file.sparse)
    BY <1>1, <1>4 DEF Done
  <2>2. At(disk', next, job, base, signed)
    BY <2>1
  <2>3. Inv(disk', next, job, result, base, signed)
    BY <1>1, <2>1, <2>2, NextPoint
  <2> QED
    BY <1>4, <2>3, PrimedInv
<1> QED
  BY <1>3, <1>4

LEMMA MarkTreeKeeps ==
  ASSUME Justified, IInv, MarkTree
  PROVE  IInv'
<1> DEFINE p == Padded(base)
           outcomes == AppendRawOutcomes(disk, MarkBlock)
<1>1. /\ base \in Seq(Cell) /\ NoFooters(base) /\ signed \in SignedType
      /\ BaseOK(base, disk.file.sparse) /\ AtMark(disk, job, base, signed)
      /\ pc # "idle" /\ base' = base /\ Attempt(outcomes, job, "fill")
  BY InvTypes DEF MarkTree, ZeroStep, At
<1>2. Zeroing(job, base, signed) /\ Holds(disk, p)
  BY <1>1 DEF AtMark
<1>3. Clear(p, base)
  BY <1>1, ClearParts DEF Justified
<1>4. MarkBlock \in Seq(Cell) /\ Len(MarkBlock) % BlockSize = 0 /\ Clean(MarkBlock)
  BY MarkBlockType, SizesAssumption, NoFootersClean DEF Justified
<1>5. \A h : Holds(h, p \o MarkBlock) => At(h, "fill", job, base, signed)
  BY <1>2 DEF At, AtFill
<1> HIDE DEF p
<1>6. \A h \in outcomes : Written(h, disk, base, p \o MarkBlock)
  BY <1>1, <1>2, <1>3, <1>4, WriteStep DEF Justified
<1>7. "fill" \in Points
  BY DEF Points
<1> HIDE DEF outcomes
<1> QED
  BY <1>1, <1>2, <1>5, <1>6, <1>7, ZeroingStep

LEMMA ZeroingGoal ==
  ASSUME Justified, NEW b \in Seq(Cell), NEW s \in SignedType, NEW j \in Jobs,
         Zeroing(j, b, s)
  PROVE  LET g     == Goal(j, s)
             p     == Padded(b)
             tree  == SignedTree(b, s)
             codes == SignedCodes(b, s)
         IN  /\ g \in SignedType /\ g.kind = "hashtree" /\ Fits(b, g)
             /\ g = [s EXCEPT !.zeroed = TRUE]
             /\ SignedTail(b, g) = j.tail
             /\ Body(b, g) = (p \o Zeroed(tree)) \o Zeroed(codes)
             /\ p \in Seq(Cell)
             /\ tree \in Seq(Cell) /\ Len(tree) % BlockSize = 0 /\ tree # << >>
             /\ codes \in Seq(Cell) /\ Len(codes) % BlockSize = 0
             /\ s.fec => codes # << >>
             /\ ~s.fec => Zeroed(codes) = << >>
             /\ j.desc.tree_size = Len(tree) /\ j.desc.fec_size = Len(codes)
             /\ j.desc.fec_offset > 0 <=> s.fec
<1> DEFINE g == Goal(j, s)
           p == Padded(b)
           tree == SignedTree(b, s)
           codes == SignedCodes(b, s)
<1>1. /\ j.cmd = "zero_hashtree" /\ s.kind = "hashtree" /\ Fits(b, s)
      /\ j.desc = SignedDescriptor(b, s) /\ j.tail = SignedTail(b, s)
      /\ tree # << >> /\ (s.fec => codes # << >>) /\ CellsOfCommands
      /\ s.fec \in BOOLEAN
  BY DEF Zeroing, Justified, SignedType
<1>2. g = [kind |-> s.kind, psize |-> s.psize, fec |-> s.fec,
           no_tree |-> s.no_tree, zeroed |-> TRUE]
  BY <1>1, GoalIs
<1>3. g = [s EXCEPT !.zeroed = TRUE]
  BY <1>1 DEF Goal
<1>4. /\ g \in SignedType /\ g.kind = s.kind /\ g.fec = s.fec /\ g.psize = s.psize
      /\ g.no_tree = s.no_tree /\ g.zeroed
  BY <1>2 DEF SignedType
<1> HIDE DEF g
<1>5. /\ SignedTree(b, g) = tree /\ SignedCodes(b, g) = codes
      /\ Gap(b, g) = Gap(b, s) /\ SignedTail(b, g) = SignedTail(b, s)
  BY <1>1, <1>4, SignedAlike
<1>6. Fits(b, g)
  BY <1>1, <1>4, <1>5 DEF Fits
<1>7. Body(b, g) = (p \o Zeroed(tree)) \o Zeroed(codes)
  BY <1>1, <1>4, <1>5, TreeBody
<1>8. /\ tree \in Seq(Cell) /\ Len(tree) \in Nat /\ Len(tree) % BlockSize = 0
      /\ codes \in Seq(Cell) /\ Len(codes) % BlockSize = 0
  BY <1>1, PartsType
<1>9. p \in Seq(Cell) /\ Len(p) \in Nat
  BY PaddedType
<1>10. ~s.fec => Zeroed(codes) = << >>
  <2>1. ~s.fec => codes = << >>
    BY DEF SignedCodes
  <2> QED
    BY <2>1 DEF Zeroed
<1>11. /\ j.desc.tree_size = Len(tree) /\ j.desc.fec_size = Len(codes)
       /\ j.desc.fec_offset = IF s.fec THEN Len(p) + Len(tree) ELSE 0
  BY <1>1, TreeDescriptor
<1> HIDE DEF p, tree, codes
<1>12. Len(tree) > 0
  BY <1>1, <1>8
<1>13. j.desc.fec_offset > 0 <=> s.fec
  <2>1. CASE s.fec
    BY <1>8, <1>9, <1>11, <1>12, <2>1
  <2>2. CASE ~s.fec
    BY <1>11, <2>2
  <2> QED
    BY <2>1, <2>2
<1> QED
  BY <1>1, <1>3, <1>4, <1>5, <1>6, <1>7, <1>8, <1>9, <1>10, <1>11, <1>13
     DEF g, p, tree, codes

LEMMA FillTreeKeeps ==
  ASSUME Justified, IInv, FillTree
  PROVE  IInv'
<1> DEFINE p == Padded(base)
           tree == SignedTree(base, signed)
           codes == SignedCodes(base, signed)
           n == job.desc.tree_size - BlockSize
           outcomes == AppendFillOutcomes(disk, Zeros(FillLen), n)
           next == IF job.desc.fec_offset > 0 THEN "markfec" ELSE "tail"
           t == p \o MarkBlock
           g == Goal(job, signed)
<1>1. /\ base \in Seq(Cell) /\ NoFooters(base) /\ signed \in SignedType /\ job \in Jobs
      /\ BaseOK(base, disk.file.sparse) /\ AtFill(disk, job, base, signed)
      /\ pc # "idle" /\ base' = base /\ Attempt(outcomes, job, next)
  BY InvTypes DEF FillTree, ZeroStep, At
<1>2. Zeroing(job, base, signed) /\ Holds(disk, t)
  BY <1>1 DEF AtFill
<1>3. /\ Body(base, g) = (p \o Zeroed(tree)) \o Zeroed(codes)
      /\ p \in Seq(Cell)
      /\ tree \in Seq(Cell) /\ Len(tree) % BlockSize = 0 /\ tree # << >>
      /\ ~signed.fec => Zeroed(codes) = << >>
      /\ job.desc.tree_size = Len(tree)
      /\ job.desc.fec_offset > 0 <=> signed.fec
  BY <1>1, <1>2, ZeroingGoal
<1>4. Clear(t, base)
  BY <1>1, ClearParts DEF Justified
<1> HIDE DEF g, p, tree, codes
<1>5. /\ n \in Nat /\ n % BlockSize = 0 /\ Zeroed(tree) = MarkBlock \o Zeros(n)
      /\ Zeroed(tree) \in Seq(Cell)
  BY <1>3, ZeroedType DEF Justified
<1>6. t \o Zeros(n) = p \o Zeroed(tree)
  <2> DEFINE z == Zeros(n)
  <2>1. MarkBlock \in Seq(Cell)
    BY MarkBlockType DEF Justified
  <2>2. z \in Seq(Cell)
    BY <1>5, ZerosType
  <2>3. Zeroed(tree) = MarkBlock \o z
    BY <1>5
  <2> HIDE DEF z
  <2>4. (p \o MarkBlock) \o z = p \o (MarkBlock \o z)
    BY <1>3, <2>1, <2>2, ConcatAssoc
  <2> QED
    BY <2>3, <2>4 DEF z
<1>7. ASSUME NEW h, Holds(h, t \o Zeros(n)) PROVE At(h, next, job, base, signed)
  <2>1. Holds(h, p \o Zeroed(tree))
    BY <1>6, <1>7
  <2>2. CASE signed.fec
    <3>1. next = "markfec"
      BY <1>3, <2>2
    <3>2. AtMarkFec(h, job, base, signed)
      BY <1>2, <2>1, <2>2 DEF AtMarkFec, p, tree
    <3> QED
      BY <3>1, <3>2 DEF At
  <2>3. CASE ~signed.fec
    <3>1. next = "tail"
      BY <1>3, <2>3
    <3>2. Body(base, g) = p \o Zeroed(tree)
      <4> DEFINE w == p \o Zeroed(tree)
      <4>1. w \in Seq(Cell)
        BY <1>3, <1>5, LengthOfConcat
      <4>2. Body(base, g) = w \o << >>
        BY <1>3, <2>3
      <4> HIDE DEF w
      <4>3. w \o << >> = w
        BY <4>1
      <4> QED
        BY <4>2, <4>3 DEF w
    <3>3. AtTail(h, job, base, signed)
      BY <1>2, <2>1, <3>2 DEF AtTail, g
    <3> QED
      BY <3>1, <3>3 DEF At
  <2> QED
    BY <2>2, <2>3
<1> HIDE DEF n, t
<1>8. \A h \in outcomes : Written(h, disk, base, t \o Zeros(n))
  BY <1>1, <1>2, <1>4, <1>5, FillStep DEF Justified
<1>9. next \in Points /\ next # "idle"
  BY DEF Points
<1> HIDE DEF outcomes, next
<1> QED
  BY <1>1, <1>2, <1>7, <1>8, <1>9, ZeroingStep

LEMMA MarkFecKeeps ==
  ASSUME Justified, IInv, MarkFec
  PROVE  IInv'
<1> DEFINE t == Padded(base) \o Zeroed(SignedTree(base, signed))
           outcomes == AppendRawOutcomes(disk, MarkBlock)
<1>1. /\ base \in Seq(Cell) /\ NoFooters(base) /\ signed \in SignedType
      /\ BaseOK(base, disk.file.sparse) /\ AtMarkFec(disk, job, base, signed)
      /\ pc # "idle" /\ base' = base /\ Attempt(outcomes, job, "fillfec")
  BY InvTypes DEF MarkFec, ZeroStep, At
<1>2. Zeroing(job, base, signed) /\ signed.fec /\ Holds(disk, t)
  BY <1>1 DEF AtMarkFec
<1>3. Clear(t, base)
  BY <1>1, ClearParts DEF Justified
<1>4. MarkBlock \in Seq(Cell) /\ Len(MarkBlock) % BlockSize = 0 /\ Clean(MarkBlock)
  BY MarkBlockType, SizesAssumption, NoFootersClean DEF Justified
<1>5. \A h : Holds(h, t \o MarkBlock) => At(h, "fillfec", job, base, signed)
  BY <1>2 DEF At, AtFillFec
<1> HIDE DEF t
<1>6. \A h \in outcomes : Written(h, disk, base, t \o MarkBlock)
  BY <1>1, <1>2, <1>3, <1>4, WriteStep DEF Justified
<1>7. "fillfec" \in Points
  BY DEF Points
<1> HIDE DEF outcomes
<1> QED
  BY <1>1, <1>2, <1>5, <1>6, <1>7, ZeroingStep

LEMMA FillFecKeeps ==
  ASSUME Justified, IInv, FillFec
  PROVE  IInv'
<1> DEFINE w == Padded(base) \o Zeroed(SignedTree(base, signed))
           tree == SignedTree(base, signed)
           codes == SignedCodes(base, signed)
           n == job.desc.fec_size - BlockSize
           outcomes == AppendFillOutcomes(disk, Zeros(FillLen), n)
           t == w \o MarkBlock
           g == Goal(job, signed)
<1>1. /\ base \in Seq(Cell) /\ NoFooters(base) /\ signed \in SignedType /\ job \in Jobs
      /\ BaseOK(base, disk.file.sparse) /\ AtFillFec(disk, job, base, signed)
      /\ pc # "idle" /\ base' = base /\ Attempt(outcomes, job, "tail")
  BY InvTypes DEF FillFec, ZeroStep, At
<1>2. Zeroing(job, base, signed) /\ signed.fec /\ Holds(disk, t)
  BY <1>1 DEF AtFillFec
<1>3. /\ Body(base, g) = w \o Zeroed(codes)
      /\ codes \in Seq(Cell) /\ Len(codes) % BlockSize = 0 /\ codes # << >>
      /\ job.desc.fec_size = Len(codes)
  BY <1>1, <1>2, ZeroingGoal
<1>4. Clear(t, base) /\ Clear(w, base)
  BY <1>1, ClearParts DEF Justified
<1> HIDE DEF g, w, codes
<1>5. /\ n \in Nat /\ n % BlockSize = 0 /\ Zeroed(codes) = MarkBlock \o Zeros(n)
  BY <1>3, ZeroedType DEF Justified
<1>6. t \o Zeros(n) = Body(base, g)
  <2> DEFINE z == Zeros(n)
  <2>1. MarkBlock \in Seq(Cell) /\ w \in Seq(Cell)
    BY <1>4, MarkBlockType DEF Justified, Clear
  <2>2. z \in Seq(Cell)
    BY <1>5, ZerosType
  <2>3. Zeroed(codes) = MarkBlock \o z
    BY <1>5
  <2> HIDE DEF z
  <2>4. (w \o MarkBlock) \o z = w \o (MarkBlock \o z)
    BY <2>1, <2>2, ConcatAssoc
  <2> QED
    BY <1>3, <2>3, <2>4 DEF z
<1>7. ASSUME NEW h, Holds(h, t \o Zeros(n)) PROVE At(h, "tail", job, base, signed)
  <2>1. AtTail(h, job, base, signed)
    BY <1>2, <1>6, <1>7 DEF AtTail, g
  <2> QED
    BY <2>1 DEF At
<1> HIDE DEF n, t
<1>8. \A h \in outcomes : Written(h, disk, base, t \o Zeros(n))
  BY <1>1, <1>2, <1>4, <1>5, FillStep DEF Justified
<1>9. "tail" \in Points
  BY DEF Points
<1> HIDE DEF outcomes
<1> QED
  BY <1>1, <1>2, <1>7, <1>8, <1>9, ZeroingStep

LEMMA AppendTailKeeps ==
  ASSUME Justified, IInv, AppendTail
  PROVE  IInv'
<1> DEFINE g == Goal(job, signed)
           t == Body(base, g)
           tail == job.tail
<1>1. /\ base \in Seq(Cell) /\ NoFooters(base) /\ signed \in SignedType /\ job \in Jobs
      /\ job.cmd \in Names
      /\ BaseOK(base, disk.file.sparse) /\ AtTail(disk, job, base, signed)
      /\ pc # "idle" /\ base' = base
  BY InvTypes DEF AppendTail, At, Jobs
<1>2. PICK h \in AppendRawOutcomes(disk, tail) :
        IF h.raised THEN Fail(h.file, job)
        ELSE End(h.file, job, "ok", [signed EXCEPT !.zeroed = TRUE])
  BY DEF AppendTail
<1>3. Zeroing(job, base, signed) /\ Holds(disk, t) /\ job.cmd \notin Protected
  BY <1>1 DEF AtTail, Zeroing, Protected
<1>4. /\ g \in SignedType /\ g.kind = "hashtree" /\ Fits(base, g)
      /\ g = [signed EXCEPT !.zeroed = TRUE]
      /\ SignedTail(base, g) = tail
  BY <1>1, <1>3, ZeroingGoal
<1> HIDE DEF g
<1>5. /\ Layout(base, g) = t \o tail
      /\ tail \in Seq(Cell) /\ Clean(tail) /\ Len(tail) % BlockSize = 0
  <2>1. /\ Layout(base, g) = Body(base, g) \o SignedTail(base, g)
        /\ SignedTail(base, g) \in Seq(Cell) /\ Clean(SignedTail(base, g))
        /\ Len(SignedTail(base, g)) % BlockSize = 0
    BY <1>1, <1>4, LayoutIs DEF Justified
  <2> QED
    BY <1>4, <2>1
<1>6. Clear(t, base)
  BY <1>1, <1>4, ClearParts DEF Justified
<1> HIDE DEF t, tail
<1>7. Written(h, disk, base, t \o tail)
  BY <1>1, <1>2, <1>3, <1>5, <1>6, WriteStep DEF Justified
<1>8. CASE Done(h, disk, t \o tail)
  <2>1. h.raised = FALSE
    BY <1>8, HoldsTypes DEF Done
  <2>2. End(h.file, job, "ok", g)
    BY <1>2, <1>4, <2>1
  <2>3. Rests(h.file, Layout(base, g)) /\ BaseOK(base, h.file.sparse)
    BY <1>1, <1>5, <1>8, HoldsIsOpen DEF Done
  <2>4. g.kind # "none"
    BY <1>4
  <2> QED
    BY <1>1, <1>4, <2>2, <2>3, <2>4, EndedStep
<1>9. CASE "raise" \in Faults /\ Stopped(h, disk, base)
  <2>1. h.raised = TRUE
    BY <1>9 DEF Stopped
  <2>2. Fail(h.file, job)
    BY <1>2, <2>1
  <2> QED
    BY <1>1, <1>3, <1>9, <2>2, RaisedStep
<1> QED
  BY <1>7, <1>8, <1>9 DEF Written

-----------------------------------------------------------------------------
(* The commands start on an image that rests on its layout.                *)

LEMMA IdleRests ==
  ASSUME Justified, IInv, pc = "idle", Startable
  PROVE  LET h == Open(disk.file)
             image == Layout(base, signed)
         IN  /\ Rests(disk.file, image) /\ Fits(base, signed)
             /\ Holds(h, image) /\ h.file = disk.file /\ h.raised = FALSE
             /\ Starts(image, base)
             /\ signed.kind = "none" => ~HasFooter(h) /\ ~ParsesImage(h) /\ image = base
             /\ signed.kind # "none" =>
                  /\ HasFooter(h) /\ Footer(h) = FooterOf(base, signed)
                  /\ Descriptor(h) = SignedDescriptor(base, signed)
<1> DEFINE h == Open(disk.file)
           image == Layout(base, signed)
<1>1. /\ result \in Results /\ signed \in SignedType
      /\ base \in Seq(Cell) /\ NoFooters(base)
      /\ AtIdle(disk, job, result, base, signed)
  BY InvTypes DEF IInv, Inv
<1>2. Rests(disk.file, image) /\ Fits(base, signed)
  BY <1>1 DEF AtIdle, Startable, Settled
<1>3. Holds(h, image) /\ h.file = disk.file
  BY <1>2, RestsOpens
<1>4. h.raised = FALSE
  BY <1>3, HoldsTypes
<1>5. /\ signed.kind = "none" => ~HasFooter(h)
      /\ signed.kind # "none" =>
           /\ HasFooter(h) /\ Footer(h) = FooterOf(base, signed)
           /\ Descriptor(h) = SignedDescriptor(base, signed)
      /\ Starts(image, base)
  <2> HIDE DEF h
  <2> QED
    BY <1>1, <1>2, <1>3, LayoutReads DEF Justified
<1>6. ParsesImage(h) => HasFooter(h)
  BY DEF ParsesImage
<1>7. signed.kind = "none" => image = base
  BY DEF Layout
<1> QED
  BY <1>2, <1>3, <1>4, <1>5, <1>6, <1>7

(* A command that is refused leaves the image and what it is signed with.  *)
LEMMA IdleRefused ==
  ASSUME Justified, IInv, pc = "idle", Startable, NEW j, j.cmd \in Names,
         Fail(disk.file, j), base' = base
  PROVE  IInv'
<1>1. signed \in SignedType
  BY InvTypes
<1>2. Rests(disk.file, Layout(base, signed)) /\ Fits(base, signed)
  BY IdleRests
<1>3. End(disk.file, j, "refused", signed)
  BY DEF Fail
<1> QED
  BY <1>1, <1>2, <1>3, RefusedStep

(* The size of the original image, as the commands read it.                *)
LEMMA RoomChecked ==
  ASSUME Justified, IInv, pc = "idle", Startable, NEW psize, HasRoom(psize)
  PROVE  psize >= (RoundUp(Len(base)) + RoundUp(VbmetaLen)) + BlockSize
<1> DEFINE h == Open(disk.file)
           size == IF HasFooter(h) THEN Footer(h).original_image_size
                   ELSE h.mem.image_size
<1>1. psize >= RoundUp(size) + RoundUp(VbmetaLen) + BlockSize
  BY DEF HasRoom
<1>2. /\ Holds(h, Layout(base, signed))
      /\ signed.kind = "none" => ~HasFooter(h) /\ Layout(base, signed) = base
      /\ signed.kind # "none" => HasFooter(h) /\ Footer(h) = FooterOf(base, signed)
  BY IdleRests
<1>3. size = Len(base)
  <2> HIDE DEF h
  <2>1. CASE signed.kind = "none"
    BY <1>2, <2>1, HoldsSize
  <2>2. CASE signed.kind # "none"
    BY <1>2, <2>2 DEF FooterOf, FooterCell
  <2> QED
    BY <2>1, <2>2
<1> QED
  BY <1>1, <1>3

LEMMA StartAddKeeps ==
  ASSUME Justified, IInv, Startable, NEW cmd \in Commands, cmd \in Protected,
         NEW psize \in PartitionSizes, NEW fec \in BOOLEAN, NEW no_tree \in BOOLEAN,
         cmd = "append_vbmeta_image" => HasRoom(psize),
         StartAdd(cmd, psize, fec, no_tree)
  PROVE  IInv'
<1> DEFINE h == Open(disk.file)
           j == [Job(cmd, psize) EXCEPT !.fec = fec, !.no_tree = no_tree]
<1>1. /\ pc = "idle" /\ base' = base
      /\ IF h.raised \/ ~AcceptsSize(h, cmd, psize) THEN Fail(disk.file, j)
         ELSE Continue(h, j, "drop")
  BY DEF StartAdd
<1>2. /\ result \in Results /\ signed \in SignedType /\ BaseOK(base, disk.file.sparse)
  BY InvTypes
<1>3. /\ Holds(h, Layout(base, signed)) /\ h.file = disk.file /\ h.raised = FALSE
      /\ Fits(base, signed)
  BY <1>1, IdleRests
<1>4. psize \in Nat /\ cmd \in Names
  BY FootersAssumption DEF Names
<1>5. /\ j \in Jobs /\ j.cmd = cmd /\ j.psize = psize /\ j.desc = NoDescriptor
  <2> DEFINE k == Job(cmd, psize)
  <2>1. k \in Jobs /\ k.cmd = cmd /\ k.psize = psize /\ k.desc = NoDescriptor
    BY <1>4, NamesInJobs
  <2> HIDE DEF k
  <2>2. j = [k EXCEPT !.fec = fec, !.no_tree = no_tree]
    BY DEF k
  <2> HIDE DEF j
  <2> QED
    BY <2>1, <2>2 DEF Jobs
<1>6. AcceptsSize(h, cmd, psize) =>
        /\ cmd = "append_vbmeta_image" => psize % BlockSize = 0
        /\ cmd = "add_hashtree_footer" /\ psize > 0 => psize % BlockSize = 0
  BY DEF AcceptsSize, Aligned
<1> HIDE DEF h, j
<1>7. CASE ~AcceptsSize(h, cmd, psize)
  <2>1. Fail(disk.file, j)
    BY <1>1, <1>7
  <2> QED
    BY <1>1, <1>4, <1>5, <2>1, IdleRefused
<1>8. CASE AcceptsSize(h, cmd, psize)
  <2>1. Continue(h, j, "drop")
    BY <1>1, <1>3, <1>8
  <2>2. Room(j, base)
    <3>1. cmd = "append_vbmeta_image" =>
            psize >= (RoundUp(Len(base)) + RoundUp(VbmetaLen)) + BlockSize
      BY <1>1, RoomChecked
    <3>2. 0 % BlockSize = 0
      BY SizesAssumption
    <3>3. cmd = "add_hashtree_footer" => psize % BlockSize = 0
      BY <1>4, <1>6, <1>8, <3>2
    <3> QED
      BY <1>5, <1>6, <1>8, <3>1, <3>3 DEF Room
  <2>3. AtDrop(h, j, base, signed)
    BY <1>3, <1>5, <2>2 DEF AtDrop
  <2>4. At(h, "drop", j, base, signed) /\ "drop" \in Points
    BY <2>3 DEF At, Points
  <2>5. Inv(h, "drop", j, result, base, signed)
    BY <1>2, <1>3, <1>5, <2>4, NextPoint
  <2>6. /\ disk' = h /\ pc' = "drop" /\ job' = j /\ result' = result
        /\ signed' = signed
    BY <2>1 DEF Continue
  <2> QED
    BY <1>1, <2>5, <2>6, PrimedInv
<1> QED
  BY <1>7, <1>8

LEMMA StartResizeKeeps ==
  ASSUME Justified, IInv, Startable, "resize_image" \in Commands,
         NEW psize \in PartitionSizes, StartResize(psize)
  PROVE  IInv'
<1> DEFINE h == Open(disk.file)
           f == Footer(h)
           end == RoundUp(f.vbmeta_offset + f.vbmeta_size)
           k == Job("resize_image", psize)
           j == [k EXCEPT !.footer = f, !.end = end]
           m == Len(Meta(base, signed))
           g == Goal(j, signed)
           refused == \/ h.raised \/ ~Aligned(psize) \/ ~ParsesImage(h)
                      \/ psize < end + BlockSize
<1>1. /\ pc = "idle" /\ base' = base
      /\ IF refused THEN Fail(disk.file, k) ELSE Continue(h, j, "cut")
  BY DEF StartResize
<1>2. /\ result \in Results /\ signed \in SignedType /\ BaseOK(base, disk.file.sparse)
      /\ base \in Seq(Cell) /\ Len(base) \in Nat
  BY InvTypes
<1>3. /\ Holds(h, Layout(base, signed)) /\ h.file = disk.file /\ h.raised = FALSE
      /\ Fits(base, signed)
      /\ signed.kind = "none" => ~ParsesImage(h)
      /\ signed.kind # "none" => f = FooterOf(base, signed)
  BY <1>1, IdleRests
<1>4. psize \in Nat /\ "resize_image" \in Names
  BY FootersAssumption DEF Names
<1>5. k \in Jobs /\ k.cmd = "resize_image" /\ k.psize = psize
  BY <1>4, NamesInJobs
<1> HIDE DEF k, h
<1>6. CASE refused
  <2>1. Fail(disk.file, k)
    BY <1>1, <1>6
  <2> QED
    BY <1>1, <1>4, <1>5, <2>1, IdleRefused
<1>7. CASE ~refused
  <2>1. /\ signed.kind # "none" /\ f = FooterOf(base, signed)
        /\ psize % BlockSize = 0 /\ ~(psize < end + BlockSize)
        /\ Continue(h, j, "cut")
    BY <1>1, <1>3, <1>7 DEF Aligned
  <2>2. /\ Len(Body(base, signed)) \in Nat /\ Len(Body(base, signed)) % BlockSize = 0
    BY <1>2, BodyType DEF Justified
  <2>3. m = Len(Body(base, signed)) + RoundUp(VbmetaLen) /\ m \in Nat
        /\ m % BlockSize = 0
    BY <1>2, <2>1, MetaType DEF Justified
  <2>4. f.vbmeta_offset = Len(Body(base, signed)) /\ f.vbmeta_size = VbmetaLen
    BY <2>1 DEF FooterOf, FooterCell
  <2>5. end = m
    <3> DEFINE n == Len(Body(base, signed))
    <3>1. n \in Nat /\ n % BlockSize = 0 /\ VbmetaLen \in Nat
      BY <2>2, FootersAssumption
    <3> HIDE DEF n
    <3>2. RoundUp(n + VbmetaLen) = n + RoundUp(VbmetaLen)
      BY <3>1, RoundUpShift
    <3> QED
      BY <2>3, <2>4, <3>2 DEF n
  <2>6. f \in Footers
    BY <1>2, <2>1, <2>2, FooterType DEF FooterOf
  <2>7. end \in Offsets
    BY <2>3, <2>5 DEF Offsets
  <2> HIDE DEF f, end, m
  <2>8. /\ j \in Jobs /\ j.cmd = "resize_image" /\ j.psize = psize /\ j.footer = f
        /\ j.end = end
    BY <1>5, <2>6, <2>7 DEF Jobs
  <2> HIDE DEF j
  <2>9. g = [kind |-> signed.kind, psize |-> j.psize, fec |-> signed.fec,
             no_tree |-> signed.no_tree, zeroed |-> signed.zeroed]
    BY <1>2, <2>8, GoalIs
  <2>10. /\ g \in SignedType /\ g.kind = signed.kind /\ g.fec = signed.fec
         /\ g.no_tree = signed.no_tree /\ g.zeroed = signed.zeroed /\ g.psize = psize
    BY <1>2, <1>4, <2>8, <2>9 DEF SignedType
  <2> HIDE DEF g
  <2>11. FooterOf(base, g) = f /\ Len(Meta(base, g)) = m
    BY <1>2, <2>1, <2>10, SignedAlike DEF Justified, m
  <2>12. psize > 0 /\ psize >= m + BlockSize
    <3>1. BlockSize \in Nat /\ BlockSize > 0 /\ m \in Nat
      BY <2>3, SizesAssumption
    <3> QED
      BY <1>4, <2>1, <2>5, <3>1
  <2>13. Fits(base, g)
    BY <1>2, <2>1, <2>10, <2>11, <2>12, GapFits DEF Justified
  <2>14. Footed(j, base, signed)
    BY <2>5, <2>8, <2>11, <2>12, <2>13 DEF Footed, g
  <2>15. AtCut(h, j, base, signed)
    BY <1>3, <2>1, <2>8, <2>14 DEF AtCut
  <2>16. At(h, "cut", j, base, signed) /\ "cut" \in Points
    BY <2>15 DEF At, Points
  <2>17. Inv(h, "cut", j, result, base, signed)
    BY <1>2, <1>3, <2>8, <2>16, NextPoint
  <2>18. /\ disk' = h /\ pc' = "cut" /\ job' = j /\ result' = result
         /\ signed' = signed
    BY <2>1 DEF Continue
  <2> QED
    BY <1>1, <2>17, <2>18, PrimedInv
<1> QED
  BY <1>6, <1>7

(* The descriptor of an image that is signed with a hash tree.             *)
LEMMA TreeOfSigned ==
  ASSUME Justified, NEW b \in Seq(Cell), NEW s \in SignedType, s.kind # "none",
         SignedDescriptor(b, s).kind = "hashtree"
  PROVE  LET d     == SignedDescriptor(b, s)
             p     == Len(Padded(b))
             tree  == Len(SignedTree(b, s))
             codes == Len(SignedCodes(b, s))
         IN  /\ s.kind = "hashtree" /\ d \in Descriptors
             /\ p \in Nat /\ tree \in Nat /\ codes \in Nat
             /\ d.tree_offset = p /\ d.tree_size = tree /\ d.fec_size = codes
             /\ d.fec_offset = IF s.fec THEN p + tree ELSE 0
             /\ s.fec \in BOOLEAN /\ (~s.fec => codes = 0)
             /\ Len(Body(b, s)) = (p + tree) + codes
<1> DEFINE d == SignedDescriptor(b, s)
<1>1. s.kind = "hashtree"
  <2>1. CASE s.kind = "hash"
    <3>1. d = HashDescriptor(b)
      BY <2>1 DEF SignedDescriptor
    <3> QED
      BY <3>1 DEF HashDescriptor
  <2>2. CASE s.kind = "vbmeta"
    <3>1. d = NoDescriptor
      BY <2>2 DEF SignedDescriptor
    <3> QED
      BY <3>1 DEF NoDescriptor
  <2> QED
    BY <2>1, <2>2 DEF SignedType
<1>2. d \in Descriptors
  BY DescriptorType DEF Justified
<1>3. /\ d.tree_offset = Len(Padded(b)) /\ d.tree_size = Len(SignedTree(b, s))
      /\ d.fec_size = Len(SignedCodes(b, s))
      /\ d.fec_offset = IF s.fec THEN Len(Padded(b)) + Len(SignedTree(b, s)) ELSE 0
  BY <1>1, TreeDescriptor
<1>4. /\ Len(Padded(b)) \in Nat /\ Len(SignedTree(b, s)) \in Nat
      /\ Len(SignedCodes(b, s)) \in Nat
  BY PaddedType, PartsType DEF Justified
<1>5. s.fec \in BOOLEAN
  BY DEF SignedType
<1>6. ~s.fec => Len(SignedCodes(b, s)) = 0
  BY DEF SignedCodes
<1>7. Len(Body(b, s)) =
        (Len(Padded(b)) + Len(SignedTree(b, s))) + Len(SignedCodes(b, s))
  BY BodyType DEF Justified
<1> QED
  BY <1>1, <1>2, <1>3, <1>4, <1>5, <1>6, <1>7

LEMMA StartZeroKeeps ==
  ASSUME Justified, IInv, Startable, "zero_hashtree" \in Commands, HasTree, StartZero
  PROVE  IInv'
<1> DEFINE h == Open(disk.file)
           d == Descriptor(h)
           end == d.tree_offset + d.tree_size + d.fec_size
           k == Job("zero_hashtree", 0)
           tail == Read(h, end, h.mem.image_size - end).cells
           j == [k EXCEPT !.desc = d, !.tail = tail]
           image == Layout(base, signed)
           body == Body(base, signed)
           tree == SignedTree(base, signed)
           codes == SignedCodes(base, signed)
           refused == \/ h.raised \/ ~ParsesImage(h) \/ d.kind # "hashtree"
                      \/ d.fec_offset > 0 /\ d.fec_offset # d.tree_offset + d.tree_size
<1>1. /\ pc = "idle" /\ base' = base
      /\ IF refused THEN Fail(disk.file, k) ELSE Continue(h, j, "cut")
  BY DEF StartZero
<1>2. /\ result \in Results /\ signed \in SignedType /\ BaseOK(base, disk.file.sparse)
      /\ base \in Seq(Cell) /\ NoFooters(base)
  BY InvTypes
<1>3. /\ Holds(h, image) /\ h.file = disk.file /\ h.raised = FALSE
      /\ Fits(base, signed)
      /\ signed.kind = "none" => ~ParsesImage(h)
      /\ signed.kind # "none" => d = SignedDescriptor(base, signed)
  BY <1>1, IdleRests
<1>4. k \in Jobs /\ k.cmd = "zero_hashtree" /\ "zero_hashtree" \in Names
  BY NamesInJobs DEF Names
<1>5. ~h.raised /\ ParsesImage(h) /\ d.kind = "hashtree" =>
        d.tree_size > 0 /\ (d.fec_offset > 0 => d.fec_size > 0)
  BY DEF HasTree
<1> HIDE DEF k, h
<1>6. CASE refused
  <2>1. Fail(disk.file, k)
    BY <1>1, <1>6
  <2> QED
    BY <1>1, <1>4, <2>1, IdleRefused
<1>7. CASE ~refused
  <2>1. /\ signed.kind # "none" /\ d = SignedDescriptor(base, signed)
        /\ ParsesImage(h) /\ d.kind = "hashtree" /\ Continue(h, j, "cut")
    BY <1>1, <1>3, <1>7
  <2>2. /\ signed.kind = "hashtree" /\ d \in Descriptors
        /\ Len(Padded(base)) \in Nat /\ Len(tree) \in Nat /\ Len(codes) \in Nat
        /\ d.tree_offset = Len(Padded(base)) /\ d.tree_size = Len(tree)
        /\ d.fec_size = Len(codes)
        /\ d.fec_offset = IF signed.fec THEN Len(Padded(base)) + Len(tree) ELSE 0
        /\ signed.fec \in BOOLEAN
        /\ Len(body) = (Len(Padded(base)) + Len(tree)) + Len(codes)
    BY <1>2, <2>1, TreeOfSigned
  <2>3. Len(tree) > 0 /\ (signed.fec => Len(codes) > 0)
    <3>1. Len(tree) > 0
      BY <1>3, <1>5, <2>1, <2>2
    <3>2. signed.fec => d.fec_offset > 0
      BY <2>2, <3>1
    <3> QED
      BY <1>3, <1>5, <2>1, <2>2, <3>1, <3>2
  <2>4. end = Len(body)
    BY <2>2
  <2>5. tail = SignedTail(base, signed) /\ tail \in Seq(Cell)
    <3> DEFINE u == SignedTail(base, signed)
    <3>1. /\ image = body \o u /\ u \in Seq(Cell)
          /\ Len(image) = (Len(Meta(base, signed)) + Gap(base, signed)) + BlockSize
          /\ Len(Meta(base, signed)) + Gap(base, signed) \in Nat
      <4>1. /\ image = body \o u /\ u \in Seq(Cell)
            /\ Len(image) = (Len(Meta(base, signed)) + Gap(base, signed)) + BlockSize
        BY <1>2, <1>3, <2>1, LayoutIs DEF Justified
      <4>2. Len(Meta(base, signed)) \in Nat
        BY <1>2, <2>1, MetaType DEF Justified
      <4>3. Gap(base, signed) \in Nat
        BY <1>3, <2>1 DEF Fits
      <4> QED
        BY <4>1, <4>2, <4>3
    <3>2. body \in Seq(Cell)
      BY <1>2, BodyType DEF Justified
    <3>3. h.mem.image_size = Len(image)
      BY <1>3, HoldsSize
    <3>4. Len(image) > 0
      BY <3>1, SizesAssumption
    <3> HIDE DEF image, body, u, end
    <3>5. Len(image) = Len(body) + Len(u) /\ Len(body) \in Nat /\ Len(u) \in Nat
      BY <3>1, <3>2, LengthOfConcat
    <3> DEFINE e == Len(body)
               n == Len(image) - Len(body)
    <3>6. e \in Nat /\ n \in Nat /\ e <= Len(image) /\ e + n = Len(image)
      BY <3>5
    <3>7. tail = Read(h, e, n).cells
      BY <2>4, <3>3
    <3>8. SubSeq(image, Len(body) + 1, Len(image)) = u
      BY <3>1, <3>2, FrontOfConcat
    <3>9. Piece(image, e, n) = u
      <4>1. Piece(image, e, n) = SubSeq(image, e + 1, Len(image))
        <5> HIDE DEF e, n
        <5> QED
          BY <3>6 DEF Piece
      <4> QED
        BY <3>8, <4>1
    <3>10. Read(h, e, n).cells = Piece(image, e, n)
      <4> HIDE DEF e, n
      <4> QED
        BY <1>3, <3>4, <3>6, ReadHolds
    <3> QED
      BY <3>1, <3>7, <3>9, <3>10 DEF u
  <2> HIDE DEF tail, d, image, body
  <2>6. /\ j \in Jobs /\ j.cmd = "zero_hashtree" /\ j.desc = d /\ j.tail = tail
    BY <1>4, <2>2, <2>5 DEF Jobs
  <2> HIDE DEF j
  <2>7. tree # << >> /\ (signed.fec => codes # << >>)
    BY <2>3
  <2>8. Zeroing(j, base, signed)
    BY <1>3, <2>1, <2>2, <2>5, <2>6, <2>7 DEF Zeroing
  <2>9. AtCut(h, j, base, signed)
    BY <1>3, <2>1, <2>8 DEF AtCut, image
  <2>10. At(h, "cut", j, base, signed) /\ "cut" \in Points
    BY <2>9 DEF At, Points
  <2>11. Inv(h, "cut", j, result, base, signed)
    BY <1>2, <1>3, <2>6, <2>10, NextPoint
  <2>12. /\ disk' = h /\ pc' = "cut" /\ job' = j /\ result' = result
         /\ signed' = signed
    BY <2>1 DEF Continue
  <2> QED
    BY <1>1, <2>11, <2>12, PrimedInv
<1> QED
  BY <1>6, <1>7

(* erase_footer leaves the original image, or the image with its tree.     *)
LEMMA KeptIsBody ==
  ASSUME Justified, NEW b \in Seq(Cell), NEW s \in SignedType, s.kind # "none",
         NEW h, Descriptor(h) = SignedDescriptor(b, s),
         Descriptor(h).kind = "hashtree", KeptSize(h) # 0
  PROVE  KeptSize(h) = Len(Body(b, s))
<1> DEFINE d == SignedDescriptor(b, s)
           p == Len(Padded(b))
           tree == Len(SignedTree(b, s))
           codes == Len(SignedCodes(b, s))
           fec_end == d.fec_offset + d.fec_size
           tree_end == d.tree_offset + d.tree_size
<1>1. KeptSize(h) =
        IF d.fec_offset > 0 /\ fec_end > tree_end THEN fec_end ELSE tree_end
  BY DEF KeptSize
<1>2. /\ p \in Nat /\ tree \in Nat /\ codes \in Nat
      /\ d.tree_offset = p /\ d.tree_size = tree /\ d.fec_size = codes
      /\ d.fec_offset = IF s.fec THEN p + tree ELSE 0
      /\ s.fec \in BOOLEAN /\ (~s.fec => codes = 0)
      /\ Len(Body(b, s)) = (p + tree) + codes
  BY TreeOfSigned
<1> HIDE DEF d, p, tree, codes
<1>3. CASE s.fec
  BY <1>1, <1>2, <1>3
<1>4. CASE ~s.fec
  BY <1>1, <1>2, <1>4
<1> QED
  BY <1>3, <1>4

LEMMA EraseFooterKeeps ==
  ASSUME Justified, IInv, Startable, "erase_footer" \in Commands,
         NEW keep \in BOOLEAN, EraseFooter(keep)
  PROVE  IInv'
<1> DEFINE h == Open(disk.file)
           j == Job("erase_footer", 0)
           size == IF keep THEN KeptSize(h) ELSE Footer(h).original_image_size
           refused == \/ h.raised \/ ~ParsesImage(h)
                      \/ keep /\ Descriptor(h).kind # "hashtree"
                      \/ keep /\ size = 0
           cut == IF refused THEN Raising(h) ELSE Truncate(h, size)
           image == Layout(base, signed)
           t == IF keep THEN Body(base, signed) ELSE base
<1>1. /\ pc = "idle"
      /\ IF cut.raised
         THEN Fail(cut.file, j) /\ base' = base
         ELSE /\ End(cut.file, j, "ok", Unsigned)
              /\ base' = IF keep THEN Content(cut.file) ELSE base
  BY DEF EraseFooter
<1>2. /\ signed \in SignedType /\ BaseOK(base, disk.file.sparse)
      /\ base \in Seq(Cell) /\ NoFooters(base) /\ Len(base) \in Nat
  BY InvTypes
<1>3. /\ Holds(h, image) /\ h.file = disk.file /\ h.raised = FALSE
      /\ Fits(base, signed) /\ Starts(image, base)
      /\ signed.kind = "none" => ~ParsesImage(h)
      /\ signed.kind # "none" =>
           /\ Footer(h) = FooterOf(base, signed)
           /\ Descriptor(h) = SignedDescriptor(base, signed)
  BY <1>1, IdleRests
<1>4. j.cmd = "erase_footer" /\ j.cmd \in Names
  <2>1. "erase_footer" \in Names
    BY DEF Names
  <2> QED
    BY <2>1, NamesInJobs
<1> HIDE DEF h, j
<1>5. CASE refused
  <2>1. cut.raised = TRUE /\ cut.file = disk.file
    <3>1. Holds(h, image) => h \in Handler
      BY DEF Holds, Sound
    <3> QED
      BY <1>3, <1>5, <3>1 DEF Raising, Handler
  <2>2. Fail(disk.file, j) /\ base' = base
    BY <1>1, <2>1
  <2> QED
    BY <1>1, <1>4, <2>2, IdleRefused
<1>6. CASE ~refused
  <2>1. /\ signed.kind # "none" /\ cut = Truncate(h, size)
        /\ Footer(h) = FooterOf(base, signed)
        /\ Descriptor(h) = SignedDescriptor(base, signed)
    BY <1>3, <1>6
  <2>2. size = Len(t)
    <3>1. CASE keep
      <4>1. Descriptor(h).kind = "hashtree" /\ KeptSize(h) # 0
        BY <1>6, <3>1
      <4>2. KeptSize(h) = Len(Body(base, signed))
        BY <1>2, <2>1, <4>1, KeptIsBody
      <4> QED
        BY <3>1, <4>2
    <3>2. CASE ~keep
      BY <2>1, <3>2 DEF FooterOf, FooterCell
    <3> QED
      BY <3>1, <3>2
  <2>3. /\ t \in Seq(Cell) /\ NoFooters(t) /\ Starts(image, t) /\ Len(base) <= Len(t)
        /\ keep => Len(t) % BlockSize = 0
    <3>1. CASE keep
      <4> DEFINE body == Body(base, signed)
                 tail == SignedTail(base, signed)
      <4>1. /\ body \in Seq(Cell) /\ NoFooters(body) /\ Len(body) % BlockSize = 0
            /\ Starts(body, base) /\ Len(body) \in Nat
        BY <1>2, BodyType DEF Justified
      <4>2. image = body \o tail /\ tail \in Seq(Cell)
        BY <1>2, <1>3, <2>1, LayoutIs DEF Justified
      <4> HIDE DEF body, tail, image
      <4>3. Starts(image, body)
        BY <4>1, <4>2, BaseStarts, StartsConcat
      <4> QED
        BY <3>1, <4>1, <4>3 DEF body, Starts
    <3>2. CASE ~keep
      BY <1>2, <1>3, <3>2
    <3> QED
      BY <3>1, <3>2
  <2> HIDE DEF t, size, image
  <2>4. BaseOK(t, disk.file.sparse)
    <3>1. Len(t) \in Nat /\ HeaderLen \in Nat
      BY <2>3, SizesAssumption
    <3>2. ~keep => t = base
      BY DEF t
    <3> QED
      BY <1>2, <2>3, <3>1, <3>2 DEF BaseOK
  <2>5. Done(Truncate(h, Len(t)), h, t)
    BY <1>3, <2>3, <2>4, CutTo DEF BaseOK
  <2>6. Holds(cut, t) /\ cut.file.sparse = disk.file.sparse
    BY <1>3, <2>1, <2>2, <2>5 DEF Done
  <2> HIDE DEF cut
  <2>7. cut.raised = FALSE /\ Content(cut.file) = t /\ Rests(cut.file, t)
    BY <2>6, HoldsTypes, HoldsIsOpen DEF Rests
  <2>8. End(cut.file, j, "ok", Unsigned) /\ base' = t
    BY <1>1, <2>7 DEF t
  <2>9. Layout(t, Unsigned) = t /\ Fits(t, Unsigned) /\ Unsigned \in SignedType
    BY BaseSigned, UnsignedType
  <2>10. BaseOK(t, cut.file.sparse) /\ Rests(cut.file, Layout(t, Unsigned))
    BY <2>4, <2>6, <2>7, <2>9
  <2> QED
    BY <1>4, <2>8, <2>9, <2>10, EndedStep
<1> QED
  BY <1>5, <1>6

-----------------------------------------------------------------------------
(* The invariant is inductive.                                             *)

(* The images that the commands are given: of data cells only.             *)
Original(f) ==
  /\ f \in File /\ Plain(f) /\ Whole(f) /\ HeaderAccepted(f)
  /\ Content(f) \in Seq(DataCell)

LEMMA InitEstablishes ==
  ASSUME NEW images, \A f \in images : Original(f), InitFor(images)
  PROVE  IInv
<1>1. PICK f \in images : disk = Closed(f)
  BY DEF InitFor
<1>2. /\ pc = "idle" /\ job = Job("none", 0) /\ result = "none"
      /\ base = Content(disk.file) /\ signed = Unsigned
  BY DEF InitFor
<1>3. disk.file = f /\ disk = Closed(disk.file)
  BY <1>1, ClosedFields
<1>4. Rests(f, base)
  BY <1>2, <1>3 DEF Original, Rests
<1>5. /\ f.sparse \in BOOLEAN /\ (f.sparse => Len(base) % BlockSize = 0)
      /\ (~f.sparse => Len(base) >= HeaderLen)
  BY <1>4, RestsOpens, HoldsSize
<1>6. base \in Seq(DataCell)
  BY <1>2, <1>3 DEF Original
<1>7. base \in Seq(Cell) /\ NoFooters(base)
  <2>1. \A i \in 1..Len(base) : base[i] \in DataCell
    BY <1>6
  <2>2. base \in Seq(Cell)
    BY <1>6, FootersAssumption
  <2> QED
    BY <2>1, <2>2 DEF NoFooters, IsFooter
<1>8. BaseOK(base, f.sparse)
  BY <1>5, <1>7 DEF BaseOK
<1>9. "none" \in Results
  BY DEF Results
<1> DEFINE k == [cmd |-> "none"]
<1>10. k.cmd = "none" /\ k.cmd \in Names
  BY DEF Names
<1>11. Inv(Closed(f), "idle", Job(k.cmd, 0), "none", base, Unsigned)
  <2>1. Rests(f, Layout(base, Unsigned)) /\ Fits(base, Unsigned)
    BY <1>4, BaseSigned
  <2> HIDE DEF k
  <2> QED
    BY <1>8, <1>9, <1>10, <2>1, UnsignedType, EndIdle
<1> HIDE DEF k
<1> QED
  BY <1>1, <1>2, <1>10, <1>11 DEF IInv

LEMMA StartKeeps ==
  ASSUME Justified, IInv, Startable, Start
  PROVE  IInv'
<1>1. ASSUME "add_hash_footer" \in Commands, NEW psize \in PartitionSizes,
             StartAdd("add_hash_footer", psize, FALSE, FALSE)
      PROVE  IInv'
  <2>1. "add_hash_footer" \in Protected
    BY DEF Protected
  <2> QED
    BY <1>1, <2>1, StartAddKeeps
<1>2. ASSUME "append_vbmeta_image" \in Commands, NEW psize \in PartitionSizes,
             Careful => HasRoom(psize),
             StartAdd("append_vbmeta_image", psize, FALSE, FALSE)
      PROVE  IInv'
  <2>1. "append_vbmeta_image" \in Protected /\ HasRoom(psize)
    BY <1>2 DEF Protected, Justified
  <2> QED
    BY <1>2, <2>1, StartAddKeeps
<1>3. ASSUME "add_hashtree_footer" \in Commands, NEW psize \in PartitionSizes,
             NEW fec \in Fec, NEW no_tree \in NoHashtree,
             StartAdd("add_hashtree_footer", psize, fec, no_tree)
      PROVE  IInv'
  <2>1. "add_hashtree_footer" \in Protected
    BY DEF Protected
  <2>2. fec \in BOOLEAN /\ no_tree \in BOOLEAN
    BY FootersAssumption
  <2> QED
    BY <1>3, <2>1, <2>2, StartAddKeeps
<1>4. ASSUME "resize_image" \in Commands, NEW psize \in PartitionSizes,
             StartResize(psize)
      PROVE  IInv'
  BY <1>4, StartResizeKeeps
<1>5. ASSUME "zero_hashtree" \in Commands, Careful => HasTree, StartZero
      PROVE  IInv'
  BY <1>5, StartZeroKeeps DEF Justified
<1>6. ASSUME "erase_footer" \in Commands, NEW keep \in BOOLEAN, EraseFooter(keep)
      PROVE  IInv'
  BY <1>6, EraseFooterKeeps
<1> QED
  BY <1>1, <1>2, <1>3, <1>4, <1>5, <1>6 DEF Start

LEMMA StepKeeps ==
  ASSUME Justified, IInv, Step
  PROVE  IInv'
BY DropFooterKeeps, CheckHashKeeps, CheckVbmetaKeeps, GrowKeeps, RoundImageKeeps,
   AppendTreeKeeps, AppendFecKeeps, AppendVbmetaKeeps, AppendGapKeeps,
   AppendFooterKeeps, ToolFailsKeeps, RollbackKeeps, CutForResizeKeeps,
   CutForZeroKeeps, MarkTreeKeeps, FillTreeKeeps, MarkFecKeeps, FillFecKeeps,
   AppendTailKeeps
   DEF Step

LEMMA NextKeeps ==
  ASSUME Justified, IInv, [Next]_vars
  PROVE  IInv'
<1>1. CASE UNCHANGED vars
  BY <1>1 DEF vars, IInv
<1>2. CASE Startable /\ Start
  BY <1>2, StartKeeps
<1>3. CASE Step
  BY <1>3, StepKeeps
<1>4. CASE Kill
  BY <1>4, KillKeeps
<1> QED
  BY <1>1, <1>2, <1>3, <1>4 DEF Next

(* The images are those of the tool: one that rests, of data cells only.   *)
LEMMA Invariance ==
  ASSUME Justified, NEW CONSTANT images, \A f \in images : Original(f)
  PROVE  InitFor(images) /\ [][Next]_vars => []IInv
<1>1. InitFor(images) => IInv
  BY InitEstablishes
<1>2. IInv /\ [Next]_vars => IInv'
  BY NextKeeps
<1> QED
  BY <1>1, <1>2, PTL

-----------------------------------------------------------------------------
(* What the invariant says.                                                *)

LEMMA InvTypeOK ==
  ASSUME IInv
  PROVE  TypeOK
<1>1. /\ pc \in Points /\ job \in Jobs /\ result \in Results /\ signed \in SignedType
      /\ disk.mem.image_size \in Nat /\ disk.raised \in BOOLEAN
  BY DEF IInv, Inv
<1>2. /\ {job.psize, job.orig, job.end} \subseteq Nat
      /\ job.end % BlockSize = 0 /\ job.footer.vbmeta_offset % BlockSize = 0
      /\ job.cmd \in Commands \cup {"none"}
  BY <1>1 DEF Jobs, Offsets, Footers, Names
<1>3. signed.kind \in {"none", "hash", "vbmeta", "hashtree"}
  BY <1>1 DEF SignedType
<1> QED
  BY <1>1, <1>2, <1>3 DEF TypeOK, Points, Results

(* The states are of their types, and the offsets that the commands compute*)
(* for vbmeta blobs and gaps are those of blocks, whatever the sizes.      *)
THEOREM FootersTypes ==
  ASSUME Justified, NEW CONSTANT images, \A f \in images : Original(f)
  PROVE  InitFor(images) /\ [][Next]_vars => []TypeOK
<1>1. IInv => TypeOK
  BY InvTypeOK
<1> QED
  BY <1>1, Invariance, PTL

LEMMA InvRollsBack ==
  ASSUME IInv
  PROVE  RollsBack
<1>1. pc = "idle" => AtIdle(disk, job, result, base, signed)
  BY DEF IInv, Inv
<1> QED
  BY <1>1 DEF RollsBack, AtIdle, Rests

(* The except clauses of add_hash_footer, append_vbmeta_image and          *)
(* add_hashtree_footer: a raw image of any size is the original one again, *)
(* cell by cell, whatever write or tool has failed.                        *)
THEOREM FailuresRollBack ==
  ASSUME Justified, NEW CONSTANT images, \A f \in images : Original(f)
  PROVE  InitFor(images) /\ [][Next]_vars => []RollsBack
<1>1. IInv => RollsBack
  BY InvRollsBack
<1> QED
  BY <1>1, Invariance, PTL

LEMMA InvBaseSurvives ==
  ASSUME Justified, IInv
  PROVE  BaseSurvives
<1>1. Harmless(disk.file, base)
  BY InvHarmless DEF Justified, IInv
<1> QED
  BY <1>1 DEF Harmless, Starts, BaseSurvives

(* The footer commands never harm the data: at each of their steps, between*)
(* two of them and after a kill, an image that is read starts with the     *)
(* original image.                                                         *)
THEOREM ImagesSurvive ==
  ASSUME Justified, NEW CONSTANT images, \A f \in images : Original(f)
  PROVE  InitFor(images) /\ [][Next]_vars => []BaseSurvives
<1>1. IInv => BaseSurvives
  BY InvBaseSurvives
<1> QED
  BY <1>1, Invariance, PTL

LEMMA InvFooterVerifies ==
  ASSUME Justified, IInv
  PROVE  FooterVerifies
<1>1. Verifies(disk.file)
  BY InvHarmless DEF Justified, IInv, Harmless
<1> QED
  BY <1>1 DEF Verifies, FooterVerifies

(* The footer is the last thing that the footer commands write: an image   *)
(* that ends with one verifies, also in the middle of a command, after a   *)
(* write that failed and after a kill.                                     *)
THEOREM FootersVerify ==
  ASSUME Justified, NEW CONSTANT images, \A f \in images : Original(f)
  PROVE  InitFor(images) /\ [][Next]_vars => []FooterVerifies
<1>1. IInv => FooterVerifies
  BY InvFooterVerifies
<1> QED
  BY <1>1, Invariance, PTL

LEMMA InvRests ==
  ASSUME IInv
  PROVE  RestsOnLayout
<1>1. pc = "idle" => AtIdle(disk, job, result, base, signed)
  BY DEF IInv, Inv
<1> QED
  BY <1>1 DEF RestsOnLayout, AtIdle, Settled, Rests

(* An image at rest is what one signing of the original image makes: the   *)
(* footer commands are idempotent, resize and zero the tree as if the      *)
(* image had been signed so at once, undo, refuse without a trace, and     *)
(* roll back; up to the first kill, or failed write that is not undone.    *)
THEOREM ImagesRestOnLayouts ==
  ASSUME Justified, NEW CONSTANT images, \A f \in images : Original(f)
  PROVE  InitFor(images) /\ [][Next]_vars => []RestsOnLayout
<1>1. IInv => RestsOnLayout
  BY InvRests
<1> QED
  BY <1>1, Invariance, PTL
=============================================================================
