------------------------- MODULE ImageClientProofs --------------------------
(***************************************************************************)
(* For images without CRC32 chunks, of any size and with any number of     *)
(* chunks, no sequence of calls makes a file that ImageHandler refuses to  *)
(* read, and what the object remembers is always what is on disk.  And,    *)
(* whatever the format of the file, each call reads, extends or resizes    *)
(* the flat sequence of cells the file stands for, or a write raises:      *)
(* ImageClient implements FlatImage.                                       *)
(***************************************************************************)
EXTENDS ImageClient, ImageHandlerLemmas

-----------------------------------------------------------------------------
(* The inductive invariant: the three properties and that no CRC32 chunk   *)
(* ever appears.  Alone none of them is inductive: a call leaves the right *)
(* counters because the memory it computes them from is what is on disk.   *)
IInv == TypeOK /\ MemoryIsFresh /\ SparseFileStaysReadable /\ Plain(h.file)

LEMMA IInvSound == IInv <=> Sound(h) /\ pos \in Nat /\ call.cells \in Seq(Cell)
<1>1. ASSUME h \in Handler
      PROVE  MemoryIsFresh <=>
               (~h.raised => HeaderAccepted(h.file) /\ h.mem = ReadHeader(h.file))
  BY DEF MemoryIsFresh, Open
<1> QED
  BY <1>1 DEF IInv, Sound, TypeOK, SparseFileStaysReadable

LEMMA SoundIInvNext ==
  ASSUME Sound(h'), pos' \in Nat, call'.cells \in Seq(Cell)
  PROVE  IInv'
<1>1. h' \in Handler
  BY DEF Sound
<1>2. MemoryIsFresh'
  BY <1>1 DEF Sound, MemoryIsFresh, Open
<1> QED
  BY <1>1, <1>2 DEF IInv, Sound, TypeOK, SparseFileStaysReadable

LEMMA InitIInv ==
  ASSUME \A f \in Images : Plain(f), Init
  PROVE  IInv
<1>1. PICK f \in Images : h = Open(f)
  BY DEF Init
<1>2. f \in File /\ Plain(f)
  BY ClientAssumption
<1>3. HeaderAccepted(f)
  BY <1>1 DEF Init, Open
<1>4. Sound(h)
  BY <1>1, <1>2, <1>3, OpenSound
<1>5. pos \in Nat /\ call.cells \in Seq(Cell)
  BY DEF Init
<1> QED
  BY <1>4, <1>5, IInvSound

(* A write leaves a sound handler and moves cells it was given.            *)
LEMMA WroteSound ==
  ASSUME NEW h1, Sound(h1), NEW op, NEW size, NEW cells \in Seq(Cell),
         Wrote(h1, op, size, cells), pos' \in Nat
  PROVE  IInv'
<1>1. Sound(h')
  BY DEF Wrote
<1>2. call'.cells = << >> \/ call'.cells = cells
  BY DEF Wrote, Called
<1>3. call'.cells \in Seq(Cell)
  <2>1. << >> \in Seq(Cell)
    OBVIOUS
  <2> QED
    BY <1>2, <2>1, Zenon
<1> QED
  BY <1>1, <1>3, SoundIInvNext

LEMMA NextIInv ==
  ASSUME IInv, [Next]_vars
  PROVE  IInv'
<1>1. Sound(h) /\ pos \in Nat /\ call.cells \in Seq(Cell)
  BY IInvSound
<1>2. h \in Handler /\ h.mem.image_size \in Nat
  BY <1>1 DEF Sound, Handler, Memory
<1>3. /\ Data \subseteq Seq(Cell) /\ Fills \subseteq [1..FillLen -> Cell]
      /\ ReadSizes \subseteq Nat /\ MaxSize \in Nat /\ PastEnd \in Nat
  BY ClientAssumption
<1>4. Room \subseteq Nat
  BY <1>2, <1>3 DEF Room
<1>5. CASE UNCHANGED vars
  BY <1>1, <1>5, SoundIInvNext DEF vars
<1>6. ASSUME ~h.raised, NEW p \in 0..(h.mem.image_size + PastEnd), DoSeek(p)
      PROVE  IInv'
  <2>1. h' = h /\ pos' = p /\ call'.cells = << >>
    BY <1>6 DEF DoSeek, Called
  <2>2. p \in Nat
    BY <1>2, <1>3
  <2> QED
    BY <1>1, <2>1, <2>2, SoundIInvNext
<1>7. ASSUME ~h.raised, NEW n \in ReadSizes, DoRead(n)
      PROVE  IInv'
  <2> DEFINE r == Read(h, pos, n)
  <2>1. r \in Reader
    BY <1>1, <1>3, <1>7, ReadType
  <2>2. /\ h' = [h EXCEPT !.raised = r.raised]
        /\ pos' = r.pos
        /\ call'.cells = r.cells \/ call'.cells = << >>
    BY <1>7 DEF DoRead, Called
  <2> HIDE DEF r
  <2>3. h'.file = h.file /\ h'.mem = h.mem /\ h' \in Handler
    BY <1>2, <2>1, <2>2 DEF Handler, Reader
  <2>4. Sound(h')
    BY <1>1, <1>7, <2>3 DEF Sound
  <2>5. r.pos \in Nat /\ r.cells \in Seq(Cell)
    BY <2>1 DEF Reader
  <2>6. call'.cells \in Seq(Cell)
    <3>1. << >> \in Seq(Cell)
      OBVIOUS
    <3> QED
      BY <2>2, <2>5, <3>1, Zenon
  <2> QED
    BY <2>2, <2>4, <2>5, <2>6, SoundIInvNext
<1>8. ASSUME ~h.raised, NEW d \in Data, DoAppendRaw(d)
      PROVE  IInv'
  <2>1. d \in Seq(Cell) /\ Sound(AppendRaw(h, d)) /\ pos' \in Nat
    BY <1>1, <1>3, <1>8, AppendRawSound DEF DoAppendRaw
  <2> QED
    BY <1>8, <2>1, WroteSound DEF DoAppendRaw
<1>9. ASSUME ~h.raised, NEW fill \in Fills, NEW n \in Room, DoAppendFill(fill, n)
      PROVE  IInv'
  <2>1. n \in Nat /\ n \in Int /\ fill \in [1..FillLen -> Cell]
    BY <1>3, <1>4, <1>9
  <2>2. Sound(AppendFill(h, fill, n)) /\ pos' \in Nat
    BY <1>1, <1>9, <2>1, AppendFillSound DEF DoAppendFill
  <2>3. Repeat(fill, n) \in Seq(Cell)
    BY <2>1, RepeatType
  <2> QED
    BY <1>9, <2>2, <2>3, WroteSound DEF DoAppendFill
<1>10. ASSUME ~h.raised, NEW n \in Room, DoAppendDontCare(n)
       PROVE  IInv'
  <2>1. [i \in 1..n |-> Zero] \in Seq(Cell)
    BY <1>4, ZeroAssumption
  <2>2. Sound(AppendDontCare(h, n)) /\ pos' \in Nat
    BY <1>1, <1>4, <1>10, AppendDontCareSound DEF DoAppendDontCare
  <2> QED
    BY <1>10, <2>1, <2>2, WroteSound DEF DoAppendDontCare
<1>11. ASSUME ~h.raised, NEW n \in 0..MaxSize, DoTruncate(n)
       PROVE  IInv'
  <2>1. Sound(Truncate(h, n)) /\ pos' \in Nat /\ << >> \in Seq(Cell)
    BY <1>1, <1>3, <1>11, TruncateSound DEF DoTruncate
  <2> QED
    BY <1>11, <2>1, WroteSound DEF DoTruncate
<1> QED
  BY <1>5, <1>6, <1>7, <1>8, <1>9, <1>10, <1>11 DEF Next

(* A client of images without CRC32 chunks stays within the invariant.     *)
LEMMA Invariance ==
  ASSUME \A f \in Images : Plain(f)
  PROVE  Spec => []IInv
<1>1. Init => IInv
  BY InitIInv
<1>2. IInv /\ [Next]_vars => IInv'
  BY NextIInv
<1> QED
  BY <1>1, <1>2, PTL DEF Spec

(* The types of handler, cursor and results, for images, data and sizes of *)
(* any length: append_raw, append_fill, append_dont_care, truncate, read.  *)
THEOREM TypeCorrect ==
  ASSUME \A f \in Images : Plain(f)
  PROVE  Spec => []TypeOK
BY Invariance, PTL DEF IInv

(* After any sequence of calls the object remembers what is on disk.       *)
THEOREM MemoryStaysFresh ==
  ASSUME \A f \in Images : Plain(f)
  PROVE  Spec => []MemoryIsFresh
BY Invariance, PTL DEF IInv

(* After any sequence of appends and truncates, those that raise included, *)
(* _read_header accepts the sparse file on disk.                           *)
THEOREM StaysReadable ==
  ASSUME \A f \in Images : Plain(f)
  PROVE  Spec => []SparseFileStaysReadable
BY Invariance, PTL DEF IInv
(* The lemmas on the handler and FlatImage mean the same by read and       *)
(* truncate.                                                               *)
LEMMA FlatOperators ==
  /\ \A s, n : Resized(s, n) = Flat!Resize(s, n)
  /\ \A s, p, n : Piece(s, p, n) = Flat!Upto(s, p, n)
BY DEF Resized, Piece, Flat!Resize, Flat!Upto

-----------------------------------------------------------------------------
(* The refinement.                                                         *)

(* The inductive invariant: that of ImageClientProofs, and the two facts   *)
(* the steps of the flat image need of the state before.                   *)
FlatInv ==
  /\ IInv
  /\ Whole(h.file)
  /\ ~h.raised => call.op # "raise"

LEMMA InitFlat ==
  ASSUME \A f \in Images : Plain(f) /\ Whole(f), Init
  PROVE  FlatInv /\ Flat!Init
<1>1. PICK f \in Images : h = Open(f)
  BY DEF Init
<1>2. IInv
  BY InitIInv
<1>3. Sound(h) /\ ~h.raised /\ h.file = f
  BY <1>1, <1>2, IInvSound, OpenKeepsFile DEF Init
<1>4. Content(h.file) \in Seq(Cell)
  BY <1>3, ImageSize
<1> QED
  BY <1>2, <1>3, <1>4 DEF Init, FlatInv, Flat!Init

(* A write that leaves a whole file, and either raises or does to the      *)
(* content what the flat image does.                                       *)
LEMMA WriteFlat ==
  ASSUME FlatInv, ~h.raised,
         NEW op \in {"append", "truncate"}, NEW size, NEW cells, NEW h1,
         Wrote(h1, op, size, cells), Whole(h1.file), pos' \in {0, pos},
         ~h1.raised => \/ /\ op = "append" /\ pos' = 0
                          /\ Content(h1.file) = Content(h.file) \o cells
                       \/ /\ op = "truncate"
                          /\ Content(h1.file) = Resized(Content(h.file), size)
  PROVE  /\ Whole(h'.file) /\ (~h'.raised => call'.op # "raise")
         /\ Flat!Next
<1>1. h' = h1 /\ call.op # "raise"
  BY DEF Wrote, FlatInv
<1>2. CASE h1.raised
  <2>1. call'.op = "raise"
    BY <1>2 DEF Wrote, Called
  <2>2. Flat!Raise
    BY <1>1, <1>2, <2>1 DEF Flat!Raise
  <2> QED
    BY <1>1, <1>2, <2>2 DEF Flat!Next
<1>3. CASE ~h1.raised /\ op = "append" /\ pos' = 0
           /\ Content(h1.file) = Content(h.file) \o cells
  <2>1. call'.op = "append" /\ call'.cells = cells
    BY <1>3 DEF Wrote, Called
  <2>2. Flat!Extend
    BY <1>1, <1>3, <2>1 DEF Flat!Extend
  <2> QED
    BY <1>1, <2>1, <2>2 DEF Flat!Next
<1>4. CASE ~h1.raised /\ op = "truncate"
           /\ Content(h1.file) = Resized(Content(h.file), size)
  <2>1. call'.op = "truncate" /\ call'.size = size
    BY <1>4 DEF Wrote, Called
  <2>2. Flat!Truncate
    BY <1>1, <1>4, <2>1, FlatOperators DEF Flat!Truncate
  <2> QED
    BY <1>1, <2>1, <2>2 DEF Flat!Next
<1> QED
  BY <1>2, <1>3, <1>4

(* Each call of the client is a call of the flat image.                    *)
LEMMA NextFlat ==
  ASSUME PastEnd = 0, FlatInv, [Next]_vars
  PROVE  FlatInv' /\ [Flat!Next]_(Flat!vars)
<1>1. Sound(h) /\ pos \in Nat /\ Whole(h.file) /\ (~h.raised => call.op # "raise")
  BY IInvSound DEF FlatInv
<1>2. /\ Data \subseteq Seq(Cell) /\ Fills \subseteq [1..FillLen -> Cell]
      /\ ReadSizes \subseteq Nat /\ MaxSize \in Nat
  BY ClientAssumption
<1>3. Room \subseteq Nat
  BY <1>1, <1>2 DEF Room, Sound, Handler, Memory
<1>4. IInv'
  BY NextIInv DEF FlatInv
<1>5. SUFFICES /\ Whole(h'.file) /\ (~h'.raised => call'.op # "raise")
               /\ [Flat!Next]_(Flat!vars)
  BY <1>4 DEF FlatInv
<1>6. CASE UNCHANGED vars
  BY <1>1, <1>6 DEF vars, Flat!vars
<1>7. ASSUME ~h.raised, NEW p \in 0..(h.mem.image_size + PastEnd), DoSeek(p)
      PROVE  Whole(h'.file) /\ (~h'.raised => call'.op # "raise") /\ Flat!Next
  <2>1. h' = h /\ pos' = p /\ call'.op = "seek" /\ call'.size = p
    BY <1>7 DEF DoSeek, Called
  <2>2. Flat!Seek
    BY <1>7, <2>1 DEF Flat!Seek
  <2> QED
    BY <1>1, <1>7, <2>1, <2>2 DEF Flat!Next
<1>8. ASSUME ~h.raised, Readable, NEW n \in ReadSizes, DoRead(n)
      PROVE  Whole(h'.file) /\ (~h'.raised => call'.op # "raise") /\ Flat!Next
  <2> DEFINE r == Read(h, pos, n)
  <2>1. ~r.raised /\ r.cells = Piece(Content(h.file), pos, n)
        /\ r.pos = pos + Len(r.cells)
    <3>1. pos <= h.mem.image_size /\ h.mem.image_size > 0
      BY <1>8 DEF Readable
    <3> QED
      BY <1>1, <1>2, <1>8, <3>1, ReadFlat
  <2>2. /\ h' = [h EXCEPT !.raised = r.raised] /\ pos' = r.pos
        /\ call'.op = "read" /\ call'.size = n /\ call'.cells = r.cells
    BY <1>8, <2>1 DEF DoRead, Called
  <2> HIDE DEF r
  <2>3. h'.file = h.file /\ ~h'.raised
    BY <1>1, <2>1, <2>2 DEF Sound, Handler
  <2>4. Flat!Read
    BY <1>8, <2>1, <2>2, <2>3, FlatOperators DEF Flat!Read
  <2> QED
    BY <1>1, <1>8, <2>2, <2>3, <2>4 DEF Flat!Next
<1>9. ASSUME ~h.raised, NEW d \in Data, DoAppendRaw(d)
      PROVE  Whole(h'.file) /\ (~h'.raised => call'.op # "raise") /\ Flat!Next
  <2>1. d \in Seq(Cell) /\ Len(d) % BlockSize = 0 /\ pos' = 0
        /\ Wrote(AppendRaw(h, d), "append", Len(d), d)
    BY <1>2, <1>9 DEF DoAppendRaw
  <2>2. /\ Whole(AppendRaw(h, d).file)
        /\ Content(AppendRaw(h, d).file) = Content(h.file) \o d
    BY <1>1, <1>9, <2>1, AppendRawFlat
  <2> QED
    BY <1>9, <2>1, <2>2, WriteFlat
<1>10. ASSUME ~h.raised, NEW fill \in Fills, NEW n \in Room, DoAppendFill(fill, n)
       PROVE  Whole(h'.file) /\ (~h'.raised => call'.op # "raise") /\ Flat!Next
  <2>1. fill \in [1..FillLen -> Cell] /\ n \in Nat /\ n % BlockSize = 0 /\ pos' = 0
        /\ Wrote(AppendFill(h, fill, n), "append", n, Repeat(fill, n))
    BY <1>2, <1>3, <1>10 DEF DoAppendFill
  <2>2. /\ Whole(AppendFill(h, fill, n).file)
        /\ Content(AppendFill(h, fill, n).file) = Content(h.file) \o Repeat(fill, n)
    BY <1>1, <1>10, <2>1, AppendFillFlat
  <2> QED
    BY <1>10, <2>1, <2>2, WriteFlat
<1>11. ASSUME ~h.raised, NEW n \in Room, DoAppendDontCare(n)
       PROVE  Whole(h'.file) /\ (~h'.raised => call'.op # "raise") /\ Flat!Next
  <2>1. n \in Nat /\ n % BlockSize = 0 /\ pos' = 0
        /\ Wrote(AppendDontCare(h, n), "append", n, [i \in 1..n |-> Zero])
    BY <1>3, <1>11 DEF DoAppendDontCare
  <2>2. /\ Whole(AppendDontCare(h, n).file)
        /\ Content(AppendDontCare(h, n).file) = Content(h.file) \o [i \in 1..n |-> Zero]
    BY <1>1, <1>11, <2>1, AppendDontCareFlat
  <2> QED
    BY <1>11, <2>1, <2>2, WriteFlat
<1>12. ASSUME ~h.raised, NEW n \in 0..MaxSize, DoTruncate(n)
       PROVE  Whole(h'.file) /\ (~h'.raised => call'.op # "raise") /\ Flat!Next
  <2>1. n \in Nat /\ pos' \in {0, pos} /\ Wrote(Truncate(h, n), "truncate", n, << >>)
    BY <1>2, <1>12 DEF DoTruncate
  <2>2. /\ Whole(Truncate(h, n).file)
        /\ ~Truncate(h, n).raised =>
             Content(Truncate(h, n).file) = Resized(Content(h.file), n)
    BY <1>1, <1>12, <2>1, TruncateFlat
  <2> QED
    BY <1>12, <2>1, <2>2, WriteFlat
<1> QED
  BY <1>6, <1>7, <1>8, <1>9, <1>10, <1>11, <1>12 DEF Next

(* For images of any size, in any number of chunks and with any data, the  *)
(* methods of class ImageHandler keep the promise of its docstring that    *)
(* "either way the operations do the same": a sparse file behaves as the   *)
(* flat sequence of cells it stands for.                                   *)
THEOREM HandlerImplementsFlat ==
  ASSUME PastEnd = 0, \A f \in Images : Plain(f) /\ Whole(f)
  PROVE  Spec => HandlerIsFlat
<1>1. Init => FlatInv /\ Flat!Init
  BY InitFlat
<1>2. FlatInv /\ [Next]_vars => FlatInv' /\ [Flat!Next]_(Flat!vars)
  BY NextFlat
<1> QED
  BY <1>1, <1>2, PTL DEF Spec, HandlerIsFlat, Flat!Spec
=============================================================================
