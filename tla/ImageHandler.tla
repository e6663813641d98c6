---------------------------- MODULE ImageHandler ----------------------------
(***************************************************************************)
(* Class ImageHandler of avbtool.v1.2.py: a handle on a raw or sparse      *)
(* image file.  A handler h is                                             *)
(*   h.file    what is on disk                                             *)
(*   h.mem     what the object remembers of it since the last _read_header *)
(*   h.raised  whether the last operation raised                           *)
(* The operators are the methods, one for each: ImageClient calls them in  *)
(* any order, AvbFooters composes them to commands.                        *)
(***************************************************************************)
EXTENDS SparseFormat

Least(a, b) == IF a <= b THEN a ELSE b

-----------------------------------------------------------------------------
(* Memory: is_sparse, image_size, the two counters and the chunk table.    *)
(* An entry of the table keeps the chunk's type, its place in the file     *)
(* (chunk_offset, here the index of the chunk), its output offset and size *)
(* and its fill pattern.                                                   *)

DataChunks(cs) == {i \in 1..Len(cs) : cs[i].type # "CRC32"}

(* The CRC32 chunks get no entry, as in the last branch of the parser.     *)
Table(cs) ==
  LET D == DataChunks(cs)
      nth(k) == CHOOSE i \in D : Cardinality({j \in D : j <= i}) = k
  IN  [k \in 1..Cardinality(D) |->
         [type |-> cs[nth(k)].type,
          at   |-> nth(k),
          off  |-> OutputEnd(cs)[nth(k) - 1],
          size |-> cs[nth(k)].sz * BlockSize,
          fill |-> IF cs[nth(k)].type = "FILL" THEN cs[nth(k)].data ELSE << >>]]

ReadHeader(f) ==
  [sparse |-> f.sparse,
   image_size |-> IF f.sparse THEN OutputEnd(f.chunks)[Len(f.chunks)]
                  ELSE Len(f.bytes),
   total_blocks |-> f.total_blocks,
   total_chunks |-> f.total_chunks,
   sparse_end   |-> Len(f.chunks),
   chunks |-> IF f.sparse THEN Table(f.chunks) ELSE << >>]

Entry == [type : ChunkType, at : Nat, off : Nat, size : Nat, fill : Seq(Cell)]
Memory == [sparse : BOOLEAN, image_size : Nat, total_blocks : Int,
           total_chunks : Nat, sparse_end : Nat, chunks : Seq(Entry)]
Handler == [file : File, mem : Memory, raised : BOOLEAN]

(* A _read_header that raises leaves is_sparse FALSE, as set at its start. *)
Unread(f) ==
  [sparse |-> FALSE, image_size |-> 0, total_blocks |-> f.total_blocks,
   total_chunks |-> f.total_chunks, sparse_end |-> 0, chunks |-> << >>]

Open(f) ==
  IF HeaderAccepted(f)
  THEN [file |-> f, mem |-> ReadHeader(f), raised |-> FALSE]
  ELSE [file |-> f, mem |-> Unread(f), raised |-> TRUE]

Raising(h) == [h EXCEPT !.raised = TRUE]

-----------------------------------------------------------------------------
(* Writing.  Appending to a sparse file first adds the chunk to the        *)
(* counters in memory and on disk, then writes it at _sparse_end, then     *)
(* reads the header again.                                                 *)

CountChunk(h, blocks) ==
  LET mem == [h.mem EXCEPT !.total_chunks = @ + 1, !.total_blocks = @ + blocks]
  IN  [h EXCEPT !.mem = mem,
                !.file.total_chunks = mem.total_chunks,
                !.file.total_blocks = mem.total_blocks]

WriteChunk(h, c) ==
  [h.file EXCEPT !.chunks = SubSeq(@, 1, h.mem.sparse_end) \o << c >>]

AppendChunk(h, c) == Open(WriteChunk(CountChunk(h, c.sz), c))

(* Mutant: the header is not read again after the write.                   *)
AppendBytesUnread(h, cells) == [h EXCEPT !.file.bytes = @ \o cells]

AppendBytes(h, cells) == Open([h.file EXCEPT !.bytes = @ \o cells])

AppendRaw(h, data) ==
  IF h.mem.sparse THEN AppendChunk(h, RawChunk(data)) ELSE AppendBytes(h, data)

(* fill_data repeated over size cells.                                     *)
Repeat(fill, size) == [i \in 1..size |-> fill[((i - 1) % FillLen) + 1]]

(* A negative size passes the assertions on multiples of the block: a raw  *)
(* file gets nothing, a sparse file's header has been rewritten when       *)
(* struct.pack refuses the size.                                           *)
AppendFill(h, fill, size) ==
  CASE ~h.mem.sparse -> AppendBytes(h, Repeat(fill, size))
    [] h.mem.sparse /\ size < 0 -> Raising(CountChunk(h, size \div BlockSize))
    [] h.mem.sparse /\ size >= 0 -> AppendChunk(h, FillChunk(fill, size))

(* A raw file is resized by ftruncate, which a negative size shrinks.  The *)
(* handler takes a sparse file for raw only when it has just refused its   *)
(* header, and no resizing makes that header acceptable.                   *)
ResizeBytes(f, size) ==
  IF f.sparse THEN f ELSE
  [f EXCEPT !.bytes = IF size <= Len(@) THEN SubSeq(@, 1, size)
                      ELSE @ \o [i \in 1..(size - Len(@)) |-> Zero]]

AppendDontCare(h, size) ==
  IF ~h.mem.sparse
  THEN IF Len(h.file.bytes) + size < 0 THEN Raising(h)
       ELSE Open(ResizeBytes(h.file, Len(h.file.bytes) + size))
  ELSE IF size < 0 THEN Raising(CountChunk(h, size \div BlockSize))
       ELSE AppendChunk(h, DontCareChunk(size))

-----------------------------------------------------------------------------
(* Truncating.  bisect_right(offsets, p) - 1: the last entry of the table  *)
(* that starts at or before p.                                             *)
EntryAt(table, p) ==
  CHOOSE k \in 1..Len(table) :
    /\ table[k].off <= p
    /\ \A l \in (k + 1)..Len(table) : table[l].off > p

(* Mutant: the last chunk is counted although nothing of it is kept.       *)
CutMiscounted(h, size) ==
  LET k == EntryAt(h.mem.chunks, size)
      c == h.mem.chunks[k]
      keep == size - c.off
      before == SubSeq(h.file.chunks, 1, c.at - 1)
      short == [h.file.chunks[c.at] EXCEPT !.sz = keep \div BlockSize]
  IN  Open([h.file EXCEPT
              !.chunks = IF keep = 0 THEN before ELSE before \o << short >>,
              !.total_chunks = k,
              !.total_blocks = size \div BlockSize])

(* Mutant: the file is cut in the middle of a fill pattern.                *)
CutPattern(h, size) ==
  LET k == EntryAt(h.mem.chunks, size)
      c == h.mem.chunks[k]
      keep == size - c.off
      before == SubSeq(h.file.chunks, 1, c.at - 1)
      short == [h.file.chunks[c.at] EXCEPT
                  !.sz = keep \div BlockSize,
                  !.data = SubSeq(@, 1, Least(keep \div BlockSize, Len(@)))]
  IN  Open([h.file EXCEPT
              !.chunks = IF keep = 0 THEN before ELSE before \o << short >>,
              !.total_chunks = IF keep = 0 THEN k - 1 ELSE k,
              !.total_blocks = size \div BlockSize])

(* A cut inside a chunk shortens it in place; the file ends after the last *)
(* chunk kept.  The counters are set from the table: the entries kept, and *)
(* the blocks of their outputs, which start at 0 and end at the cut.       *)
Cut(h, size) ==
  LET k == EntryAt(h.mem.chunks, size)
      c == h.mem.chunks[k]
      keep == size - c.off
      before == SubSeq(h.file.chunks, 1, c.at - 1)
      short == [h.file.chunks[c.at] EXCEPT
                  !.sz = keep \div BlockSize,
                  !.data = IF c.type = "RAW" THEN SubSeq(@, 1, Least(keep, Len(@)))
                           ELSE @]
  IN  Open([h.file EXCEPT
              !.chunks = IF keep = 0 THEN before ELSE before \o << short >>,
              !.total_chunks = IF keep = 0 THEN k - 1 ELSE k,
              !.total_blocks = size \div BlockSize])

Truncate(h, size) ==
  CASE ~h.mem.sparse ->
         Open(ResizeBytes(h.file, size))
    [] h.mem.sparse /\ size % BlockSize # 0 -> Raising(h)
    [] h.mem.sparse /\ size % BlockSize = 0 /\ size = h.mem.image_size ->
         [h EXCEPT !.raised = FALSE]
    [] h.mem.sparse /\ size % BlockSize = 0 /\ size < h.mem.image_size ->
         Cut(h, size)
    [] h.mem.sparse /\ size % BlockSize = 0 /\ size > h.mem.image_size ->
         AppendDontCare(h, size - h.mem.image_size)

-----------------------------------------------------------------------------
(* Reading.  r is the loop of read(): the cursor, the cells to go, those   *)
(* read so far.  One turn takes what the entry c still holds, a negative   *)
(* number of cells when the cursor is past its end: then a file read of -1 *)
(* returns the rest of the file, none, one of less raises, and a slice     *)
(* counts from the end of the repeated pattern.                            *)

Slice(s, lo, hi) == SubSeq(s, lo + 1, IF hi < 0 THEN hi + Len(s) ELSE hi)

(* Mutant: a fill pattern is read from its start wherever the cursor is.   *)
HeldFromStart(file, c, skip, n) ==
  LET data == file.chunks[c.at].data
  IN  CASE c.type = "RAW"       -> SubSeq(data, skip + 1, Least(skip + n, Len(data)))
        [] c.type = "FILL"      -> Repeat(c.fill, n)
        [] c.type = "DONT_CARE" -> [i \in 1..n |-> Zero]

Held(file, c, skip, n) ==
  LET data == file.chunks[c.at].data
      mod  == skip % FillLen
      all  == Repeat(c.fill, FillLen * (n \div FillLen + 2))
  IN  CASE c.type = "RAW"       -> SubSeq(data, skip + 1, Least(skip + n, Len(data)))
        [] c.type = "FILL"      -> Slice(all, mod, mod + n)
        [] c.type = "DONT_CARE" -> [i \in 1..n |-> Zero]

ReadEntry(file, r, c) ==
  LET skip == r.pos - c.off
      n    == Least(c.size - skip, r.to_go)
  IN  IF r.to_go <= 0 THEN r
      ELSE [pos |-> r.pos + n, to_go |-> r.to_go - n,
            cells |-> r.cells \o Held(file, c, skip, n),
            raised |-> c.type = "RAW" /\ n < -1]

(* An empty table makes chunks[-1] raise.                                  *)
Read(h, pos, size) ==
  LET r0 == [pos |-> pos, to_go |-> size, cells |-> << >>, raised |-> FALSE]
      table == h.mem.chunks
      first == EntryAt(table, pos)
      turn[k \in first - 1..Len(table)] ==
        IF k < first THEN r0 ELSE ReadEntry(h.file, turn[k - 1], table[k])
      got == SubSeq(h.file.bytes, pos + 1, Least(pos + size, Len(h.file.bytes)))
  IN  CASE ~h.mem.sparse -> [r0 EXCEPT !.pos = pos + Len(got), !.cells = got]
        [] h.mem.sparse /\ size = 0 -> r0
        [] h.mem.sparse /\ size > 0 /\ table = << >> -> [r0 EXCEPT !.raised = TRUE]
        [] h.mem.sparse /\ size > 0 /\ table # << >> ->
             turn[Len(table)]

=============================================================================
