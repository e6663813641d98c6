--------------------------- MODULE MCImageClient ---------------------------
(***************************************************************************)
(* Small instances of ImageClient:  blocks of two cells, fill patterns of  *)
(* two cells, images of at most three blocks in at most three chunks.      *)
(***************************************************************************)
EXTENDS ImageClient

CONSTANTS a, b, z

MCCell == {a, b, z}
MCData == {<< >>, << a, b >>, << b, a, a, b >>}
MCFills == {<< a, b >>}

MCChunks == {RawChunk(<< a, b >>), RawChunk(<< a, b, b, z >>),
             FillChunk(<< b, a >>, 4), DontCareChunk(2)}

MCSparse(chunks, n) == {SparseFile(cs) : cs \in UNION {[1..k -> chunks] : k \in 0..n}}
MCRaw == {RawFile(s) : s \in {<< a >>, << a, b, b >>, << b, b, a, a >>}}

(* Without CRC32 chunks, which truncate miscounts.                         *)
MCPlainImages == MCRaw \cup MCSparse(MCChunks, 1)

(* One image that is not empty, for reads behind its end.                  *)
MCOneChunk == {SparseFile(<< RawChunk(<< a, b >>) >>)}

=============================================================================
