---------------------------- MODULE ImageClient ----------------------------
(***************************************************************************)
(* One process that calls the methods of an ImageHandler in any order, on  *)
(* a disk that does not fail.  A handler opened read_only refuses the four *)
(* writes with an OSError before it touches anything: its behaviours are   *)
(* those of this module without them.                                      *)
(***************************************************************************)
EXTENDS ImageHandler

CONSTANTS Images,     \* the files a handler may be opened on
          Data,       \* the cell sequences append_raw is given
          Fills,      \* the patterns append_fill is given
          ReadSizes,  \* the sizes read is asked for
          MaxSize,    \* bound: no append or truncate makes an image longer
          MaxChunks,  \* bound: no append adds to a file of so many chunks
          PastEnd     \* bound: how far past the end of the image a caller
                      \* seeks; 0 for one that only reads inside it

ASSUME ClientAssumption ==
  /\ Images \subseteq File
  /\ Data \subseteq Seq(Cell)
  /\ Fills \subseteq [1..FillLen -> Cell]
  /\ ReadSizes \subseteq Nat
  /\ {MaxSize, MaxChunks, PastEnd} \subseteq Nat

-----------------------------------------------------------------------------
VARIABLES h,      \* the handler
          pos,    \* its cursor, _file_pos
          call    \* the last call: operation, size asked for, cells moved

vars == << h, pos, call >>

Called(op, size, cells) == call' = [op |-> op, size |-> size, cells |-> cells]

Init ==
  /\ h \in {Open(f) : f \in Images}
  /\ ~h.raised
  /\ pos = 0
  /\ call = [op |-> "open", size |-> 0, cells |-> << >>]

(* The handler after a write: it has read the header again, or raised.     *)
Wrote(h1, op, size, cells) ==
  /\ h' = h1
  /\ IF h1.raised THEN Called("raise", size, << >>) ELSE Called(op, size, cells)

DoSeek(p) ==
  /\ pos' = p
  /\ Called("seek", p, << >>)
  /\ UNCHANGED h

DoRead(n) ==
  LET r == Read(h, pos, n)
  IN  /\ pos' = r.pos
      /\ h' = [h EXCEPT !.raised = r.raised]
      /\ IF r.raised THEN Called("read_raised", n, << >>)
         ELSE Called("read", n, r.cells)

DoAppendRaw(data) ==
  /\ Len(data) % BlockSize = 0
  /\ Wrote(AppendRaw(h, data), "append", Len(data), data)
  /\ pos' = 0

DoAppendFill(fill, size) ==
  /\ size % BlockSize = 0
  /\ Wrote(AppendFill(h, fill, size), "append", size, Repeat(fill, size))
  /\ pos' = 0

DoAppendDontCare(size) ==
  /\ size % BlockSize = 0
  /\ Wrote(AppendDontCare(h, size), "append", size, [i \in 1..size |-> Zero])
  /\ pos' = 0

DoTruncate(size) ==
  /\ Wrote(Truncate(h, size), "truncate", size, << >>)
  /\ pos' = IF h.mem.sparse /\ size = h.mem.image_size THEN pos ELSE 0

Room == IF Len(h.file.chunks) < MaxChunks THEN 0..(MaxSize - h.mem.image_size)
        ELSE {}

(* Nobody reads from an empty image; a caller that stays inside it reads   *)
(* from a cursor at its end at most.                                       *)
Readable ==
  /\ h.mem.image_size > 0
  /\ pos <= h.mem.image_size \/ PastEnd > 0

Next ==
  /\ ~h.raised
  /\ \/ \E p \in 0..(h.mem.image_size + PastEnd) : DoSeek(p)
     \/ Readable /\ \E n \in ReadSizes : DoRead(n)
     \/ \E d \in Data : Len(d) \in Room /\ DoAppendRaw(d)
     \/ \E fill \in Fills, n \in Room : DoAppendFill(fill, n)
     \/ \E n \in Room : DoAppendDontCare(n)
     \/ \E n \in 0..MaxSize : DoTruncate(n)

Spec == Init /\ [][Next]_vars

-----------------------------------------------------------------------------
(* The types of the handler, its cursor and the last call.                 *)
TypeOK ==
  /\ h \in Handler
  /\ pos \in Nat
  /\ call.cells \in Seq(Cell)

(* What the object remembers is what a fresh handler on the same file      *)
(* would read: no method leaves image_size, a counter, _sparse_end or the  *)
(* chunk table behind the file it has just changed.                        *)
MemoryIsFresh == ~h.raised => Open(h.file).mem = h.mem /\ ~Open(h.file).raised

(* No sequence of calls makes a sparse file that a fresh handler refuses:  *)
(* the two counters the appends increment and truncate computes from the   *)
(* table agree with the chunks on disk.  A call that raises leaves a file  *)
(* that can still be opened.                                               *)
SparseFileStaysReadable == h.file.sparse => HeaderAccepted(h.file)

-----------------------------------------------------------------------------
(* Every method keeps the promise of the class docstring: seen through the *)
(* handler, a sparse file is the flat sequence of cells the format gives   *)
(* it, and each call reads, extends or resizes that sequence and nothing   *)
(* else, or a write raises.                                                *)
Flat == INSTANCE FlatImage WITH
          content <- IF h.raised THEN << >> ELSE Content(h.file),
          pos     <- IF h.raised THEN 0 ELSE pos
HandlerIsFlat == Flat!Spec
=============================================================================
