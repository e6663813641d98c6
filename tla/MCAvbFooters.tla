---------------------------- MODULE MCAvbFooters ----------------------------
(***************************************************************************)
(* Small instances of AvbFooters: blocks of four cells, images of at most  *)
(* two blocks, partitions of at most eight.                                *)
(***************************************************************************)
EXTENDS AvbFooters

CONSTANTS a, b, z

CONSTANTS WithRaw, WithSparse, WithCrc   \* which images the run starts from

(* TLC asks of Cell only that it holds the cells of data: footers, blobs   *)
(* and hash trees, which are cells as well, are not enumerated.            *)
MCCell == {a, b, z}

RawImages == {RawFile(<< a, b, b, a, b >>), RawFile(<< b, a, a, b, z, a, b, b >>)}
SparseImages == {SparseFile(<< RawChunk(<< a, b, b, a >>), DontCareChunk(4) >>),
                 SparseFile(<< FillChunk(<< a, b >>, 4), RawChunk(<< b, b, a, a >>) >>)}
CrcImages == {SparseFile(<< RawChunk(<< a, b, b, a >>), CrcChunk >>)}

MCImages == (IF WithRaw THEN RawImages ELSE {})
              \cup (IF WithSparse THEN SparseImages ELSE {})
              \cup (IF WithCrc THEN CrcImages ELSE {})

Spec == InitFor(MCImages) /\ [][Next]_vars
=============================================================================
