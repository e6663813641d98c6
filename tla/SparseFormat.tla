---------------------------- MODULE SparseFormat ----------------------------
(***************************************************************************)
(* The Android sparse image format as avbtool reads it (class ImageChunk   *)
(* and ImageHandler._read_header of avbtool.v1.2.py).                      *)
(*                                                                         *)
(* The unit of data is a cell: the smallest run of bytes the properties    *)
(* tell apart.  A block is BlockSize cells, a fill pattern FillLen cells   *)
(* (4 bytes in the format), the file header HeaderLen cells (28 bytes).    *)
(* A file is either raw, a sequence of cells, or sparse: a header with two *)
(* counters and the chunks that follow it on disk.  A RAW chunk may hold   *)
(* fewer cells than it announces: a write that failed half way leaves one. *)
(***************************************************************************)
EXTENDS Integers, Sequences, FiniteSets

CONSTANTS Cell,        \* the values a cell can have
          Zero,        \* the cell of NUL bytes a hole reads as
          BlockSize,   \* cells per block
          FillLen,     \* cells per fill pattern
          HeaderLen    \* cells of the file header read first from every file

ASSUME SizesAssumption ==
  /\ BlockSize \in Nat \ {0}
  /\ FillLen \in Nat \ {0}
  /\ BlockSize % FillLen = 0
  /\ HeaderLen \in 1..BlockSize
ASSUME ZeroAssumption == Zero \in Cell

ChunkType == {"RAW", "FILL", "DONT_CARE", "CRC32"}

(* A chunk on disk: its type, the number of output blocks its header       *)
(* announces (chunk_sz) and the cells that follow the header.  The parser  *)
(* refuses a FILL chunk with anything but one pattern.                     *)
Chunk == {c \in [type : ChunkType, sz : Nat, data : Seq(Cell)] :
            c.type = "FILL" => Len(c.data) = FillLen}

RawChunk(data) == [type |-> "RAW", sz |-> Len(data) \div BlockSize, data |-> data]
FillChunk(fill, size) ==
  [type |-> "FILL", sz |-> size \div BlockSize, data |-> fill]
DontCareChunk(size) ==
  [type |-> "DONT_CARE", sz |-> size \div BlockSize, data |-> << >>]
CrcChunk == [type |-> "CRC32", sz |-> 0, data |-> << >>]

(* A file.  total_blocks and total_chunks are the two counters of the      *)
(* header; bytes is the content of a raw file.                             *)
File == [sparse : BOOLEAN, total_blocks : Int, total_chunks : Nat,
         chunks : Seq(Chunk), bytes : Seq(Cell)]

RawFile(bytes) ==
  [sparse |-> FALSE, total_blocks |-> 0, total_chunks |-> 0,
   chunks |-> << >>, bytes |-> bytes]

(* OutputEnd(cs)[i] is the offset in the de-sparsified image at which the  *)
(* output of chunk i ends.                                                 *)
OutputEnd(cs) ==
  LET end[i \in 0..Len(cs)] ==
        IF i = 0 THEN 0 ELSE end[i - 1] + cs[i].sz * BlockSize
  IN  end

SparseFile(cs) ==
  [sparse |-> TRUE, total_blocks |-> OutputEnd(cs)[Len(cs)] \div BlockSize,
   total_chunks |-> Len(cs), chunks |-> cs, bytes |-> << >>]

(* What the checks of _read_header accept: every announced chunk is there, *)
(* the output blocks add up to the header's counter, nothing follows.  The *)
(* data of a RAW chunk is only seeked over, so that it may be short is not *)
(* noticed.                                                                *)
HeaderAccepted(f) ==
  IF f.sparse
  THEN /\ f.total_chunks = Len(f.chunks)
       /\ f.total_blocks * BlockSize = OutputEnd(f.chunks)[Len(f.chunks)]
  ELSE Len(f.bytes) >= HeaderLen

(* The bytes a file stands for, as the format defines them: a reference    *)
(* that uses neither the handler's table nor its cursor.  What a RAW chunk *)
(* lacks counts as NUL.                                                    *)
CellOf(c, p) ==
  CASE c.type = "RAW"  -> IF p < Len(c.data) THEN c.data[p + 1] ELSE Zero
    [] c.type = "FILL" -> c.data[(p % FillLen) + 1]
    [] OTHER           -> Zero

Content(f) ==
  IF ~f.sparse THEN f.bytes
  ELSE LET cs == f.chunks
           end == OutputEnd(cs)
           holder(p) == CHOOSE i \in 1..Len(cs) : end[i - 1] < p /\ p <= end[i]
       IN  [p \in 1..end[Len(cs)] |->
              CellOf(cs[holder(p)], p - 1 - end[holder(p) - 1])]
=============================================================================
