------------------------- MODULE ImageHandlerLemmas -------------------------
(***************************************************************************)
(* What the methods of ImageHandler do to any file, of any size and with   *)
(* any number of chunks, that has no CRC32 chunk: the file stays one that  *)
(* the handler reads, and the cells it stands for are read, extended or    *)
(* resized as if the file were raw.                                        *)
(***************************************************************************)
EXTENDS ImageHandler, FiniteSetTheorems, WellFoundedInduction, TLAPS

-----------------------------------------------------------------------------
(* The format: the output offsets exist, are whole blocks, never decrease, *)
(* and depend only on the chunks before.                                   *)

(* Every nonempty set of naturals has a least element.                     *)
LEMMA NatLeast ==
  ASSUME NEW T \in SUBSET Nat, T # {}
  PROVE  \E x \in T : \A y \in T : x <= y
<1>1. IsWellFoundedOn(OpToRel(<, Nat), Nat)
  BY NatLessThanWellFounded
<1>2. PICK x \in T : \A y \in T : ~(<< y, x >> \in OpToRel(<, Nat))
  BY <1>1, WFMin
<1>3. \A y \in T : ~(y < x)
  BY <1>2 DEF OpToRel
<1> QED
  BY <1>3

(* Induction over 0..n, on the set T of the numbers that satisfy a fact.   *)
LEMMA IntervalInduction ==
  ASSUME NEW n \in Nat, NEW T,
         0 \in T,
         \A i \in 0..n : i \in T /\ i + 1 <= n => i + 1 \in T
  PROVE  \A i \in 0..n : i \in T
<1> DEFINE Bad == {i \in 0..n : i \notin T}
<1>1. SUFFICES ASSUME Bad # {} PROVE FALSE
  OBVIOUS
<1>2. PICK x \in Bad : \A y \in Bad : x <= y
  <2>1. Bad \in SUBSET Nat
    OBVIOUS
  <2> HIDE DEF Bad
  <2> QED
    BY <1>1, <2>1, NatLeast
<1>3. x - 1 \in 0..n /\ x - 1 \notin Bad
  BY <1>2
<1> QED
  BY <1>2, <1>3

-----------------------------------------------------------------------------
(* Blocks: multiples of BlockSize.                                         *)

LEMMA BlocksOfMultiple ==
  ASSUME NEW n \in Int
  PROVE  /\ n * BlockSize \in Int
         /\ (n * BlockSize) % BlockSize = 0
         /\ (n * BlockSize) \div BlockSize = n
  BY SizesAssumption

LEMMA MultipleOfBlocks ==
  ASSUME NEW n \in Int, n % BlockSize = 0
  PROVE  n \div BlockSize \in Int /\ (n \div BlockSize) * BlockSize = n
  BY SizesAssumption

LEMMA SumOfMultiples ==
  ASSUME NEW n \in Int, NEW m \in Int,
         n % BlockSize = 0, m % BlockSize = 0
  PROVE  /\ (n + m) % BlockSize = 0 /\ (n - m) % BlockSize = 0
         /\ (n + m) \div BlockSize = (n \div BlockSize) + (m \div BlockSize)
         /\ (n - m) \div BlockSize = (n \div BlockSize) - (m \div BlockSize)
<1> DEFINE x == n \div BlockSize
           y == m \div BlockSize
<1>1. x \in Int /\ y \in Int /\ n = x * BlockSize /\ m = y * BlockSize
  BY MultipleOfBlocks
<1> HIDE DEF x, y
<1>2. n + m = (x + y) * BlockSize /\ n - m = (x - y) * BlockSize
  BY <1>1, SizesAssumption
<1>3. x + y \in Int /\ x - y \in Int
  BY <1>1
<1> QED
  BY <1>1, <1>2, <1>3, BlocksOfMultiple

-----------------------------------------------------------------------------
(* The recursive definition of OutputEnd has a solution, by induction on   *)
(* the number of chunks summed up.                                         *)
LEMMA OutputEndDef ==
  ASSUME NEW cs \in Seq(Chunk)
  PROVE  OutputEnd(cs) =
           [i \in 0..Len(cs) |->
              IF i = 0 THEN 0 ELSE OutputEnd(cs)[i - 1] + cs[i].sz * BlockSize]
<1> DEFINE n == Len(cs)
           Solves(f, k) ==
             f = [i \in 0..k |-> IF i = 0 THEN 0
                                 ELSE f[i - 1] + cs[i].sz * BlockSize]
           T == {k \in 0..n : \E f : Solves(f, k)}
<1>1. n \in Nat
  OBVIOUS
<1>2. 0 \in T
  <2>1. Solves([i \in 0..0 |-> 0], 0)
    OBVIOUS
  <2> HIDE DEF Solves
  <2>2. \E f : Solves(f, 0)
    BY <2>1
  <2> QED
    BY <2>2, <1>1
<1>3. ASSUME NEW k \in 0..n, k \in T, k + 1 <= n
      PROVE  k + 1 \in T
  <2>1. PICK f : Solves(f, k)
    BY <1>3
  <2> DEFINE g == [i \in 0..(k + 1) |->
                     IF i = k + 1 THEN f[k] + cs[k + 1].sz * BlockSize ELSE f[i]]
  <2>2. \A i \in 0..k : f[i] = IF i = 0 THEN 0
                               ELSE f[i - 1] + cs[i].sz * BlockSize
    BY <2>1
  <2>3. \A i \in 0..k : g[i] = f[i]
    BY <1>1
  <2>4. ASSUME NEW i \in 0..(k + 1)
        PROVE  g[i] = IF i = 0 THEN 0 ELSE g[i - 1] + cs[i].sz * BlockSize
    <3>1. CASE i = k + 1
      <4>1. g[i] = f[k] + cs[i].sz * BlockSize /\ g[i - 1] = f[k] /\ i # 0
        BY <3>1, <2>3, <1>1
      <4> QED
        BY <4>1
    <3>2. CASE i \in 0..k
      <4>1. i # 0 => i - 1 \in 0..k
        BY <3>2, <1>1
      <4> HIDE DEF g
      <4> QED
        BY <3>2, <4>1, <2>2, <2>3
    <3> QED
      BY <3>1, <3>2, <1>1
  <2>5. Solves(g, k + 1)
    BY <2>4
  <2> HIDE DEF Solves, g
  <2>6. \E e : Solves(e, k + 1)
    BY <2>5
  <2> QED
    BY <2>6, <1>1, <1>3
<1>4. n \in T
  <2> HIDE DEF T, n
  <2>1. \A i \in 0..n : i \in T /\ i + 1 <= n => i + 1 \in T
    BY <1>3
  <2>2. \A i \in 0..n : i \in T
    BY <1>1, <1>2, <2>1, IntervalInduction
  <2> QED
    BY <1>1, <2>2
<1>5. \E f : Solves(f, n)
  BY <1>4
<1> QED
  BY <1>5 DEF OutputEnd

-----------------------------------------------------------------------------
(* Each chunk's output starts where the one before it ends.                *)
LEMMA OutputEndStep ==
  ASSUME NEW cs \in Seq(Chunk)
  PROVE  /\ OutputEnd(cs)[0] = 0
         /\ \A i \in 1..Len(cs) :
              OutputEnd(cs)[i] = OutputEnd(cs)[i - 1] + cs[i].sz * BlockSize
<1> DEFINE e == OutputEnd(cs)
<1>1. \A i \in 0..Len(cs) :
        e[i] = IF i = 0 THEN 0 ELSE e[i - 1] + cs[i].sz * BlockSize
  BY OutputEndDef
<1>2. Len(cs) \in Nat
  OBVIOUS
<1> QED
  BY <1>1, <1>2

(* The output of a chunk is a whole number of blocks.                      *)
LEMMA ChunkOutput ==
  ASSUME NEW c \in Chunk
  PROVE  /\ c.sz \in Nat /\ c.sz * BlockSize \in Nat
         /\ (c.sz * BlockSize) % BlockSize = 0
<1>1. c.sz \in Nat
  BY DEF Chunk
<1>2. c.sz * BlockSize \in Nat
  BY <1>1, SizesAssumption
<1> QED
  BY <1>1, <1>2, BlocksOfMultiple

(* Offsets are naturals, and multiples of the block size.                  *)
LEMMA OutputEndType ==
  ASSUME NEW cs \in Seq(Chunk)
  PROVE  \A i \in 0..Len(cs) :
           OutputEnd(cs)[i] \in Nat /\ OutputEnd(cs)[i] % BlockSize = 0
<1> DEFINE e == OutputEnd(cs)
           n == Len(cs)
           T == {i \in 0..n : e[i] \in Nat /\ e[i] % BlockSize = 0}
<1>1. n \in Nat /\ \A i \in 1..n : cs[i] \in Chunk
  OBVIOUS
<1>2. 0 \in T
  <2>1. 0 % BlockSize = 0
    BY SizesAssumption
  <2> QED
    BY <2>1, <1>1, OutputEndStep
<1>3. ASSUME NEW i \in 0..n, i \in T, i + 1 <= n
      PROVE  i + 1 \in T
  <2>1. i + 1 \in 1..n /\ (i + 1) - 1 = i
    BY <1>1, <1>3
  <2>2. e[i + 1] = e[i] + cs[i + 1].sz * BlockSize
    BY <2>1, OutputEndStep
  <2>3. e[i] \in Nat /\ e[i] % BlockSize = 0
    BY <1>3
  <2>4. /\ cs[i + 1].sz * BlockSize \in Nat
        /\ (cs[i + 1].sz * BlockSize) % BlockSize = 0
    BY <2>1, <1>1, ChunkOutput
  <2> DEFINE p == cs[i + 1].sz * BlockSize
  <2> HIDE DEF e, p
  <2>5. e[i] \in Int /\ p \in Int /\ e[i] % BlockSize = 0 /\ p % BlockSize = 0
    BY <2>3, <2>4 DEF p
  <2>6. (e[i] + p) % BlockSize = 0
    BY <2>5, SumOfMultiples
  <2>7. e[i + 1] = e[i] + p /\ p \in Nat
    BY <2>2, <2>4 DEF p
  <2>8. e[i + 1] \in Nat /\ e[i + 1] % BlockSize = 0
    BY <2>3, <2>6, <2>7
  <2> QED
    BY <2>1, <2>8
<1>4. \A i \in 0..n : i \in T
  <2> HIDE DEF T, n
  <2>1. \A i \in 0..n : i \in T /\ i + 1 <= n => i + 1 \in T
    BY <1>3
  <2> QED
    BY <1>1, <1>2, <2>1, IntervalInduction
<1> QED
  BY <1>4

(* Offsets never decrease.                                                 *)
LEMMA OutputEndMonotone ==
  ASSUME NEW cs \in Seq(Chunk), NEW i \in 0..Len(cs)
  PROVE  \A j \in i..Len(cs) : OutputEnd(cs)[i] <= OutputEnd(cs)[j]
<1> DEFINE e == OutputEnd(cs)
           n == Len(cs)
           T == {k \in 0..(n - i) : e[i] <= e[i + k]}
<1>1. n \in Nat /\ n - i \in Nat /\ \A k \in 1..n : cs[k] \in Chunk
  OBVIOUS
<1>2. \A k \in 0..n : e[k] \in Nat
  BY OutputEndType
<1>3. 0 \in T
  BY <1>1, <1>2
<1>4. ASSUME NEW k \in 0..(n - i), k \in T, k + 1 <= n - i
      PROVE  k + 1 \in T
  <2>1. i + (k + 1) \in 1..n /\ (i + (k + 1)) - 1 = i + k /\ i + k \in 0..n
    BY <1>1, <1>4
  <2>2. e[i + (k + 1)] = e[i + k] + cs[i + (k + 1)].sz * BlockSize
    BY <2>1, OutputEndStep
  <2>3. cs[i + (k + 1)].sz * BlockSize \in Nat
    BY <2>1, <1>1, ChunkOutput
  <2>4. e[i] <= e[i + k] /\ e[i + k] \in Nat /\ e[i] \in Nat
    BY <1>2, <1>4, <2>1
  <2> HIDE DEF e
  <2>5. e[i] <= e[i + (k + 1)]
    BY <2>2, <2>3, <2>4
  <2> QED
    BY <2>1, <2>5, <1>1, <1>4
<1>5. \A k \in 0..(n - i) : k \in T
  <2> HIDE DEF T, n
  <2>1. \A k \in 0..(n - i) : k \in T /\ k + 1 <= n - i => k + 1 \in T
    BY <1>4
  <2> QED
    BY <1>1, <1>3, <2>1, IntervalInduction
<1>6. ASSUME NEW j \in i..n
      PROVE  e[i] <= e[j]
  <2>1. j - i \in 0..(n - i) /\ i + (j - i) = j
    BY <1>1
  <2> QED
    BY <2>1, <1>5
<1> QED
  BY <1>6

(* Two lists that agree on their first k chunks agree on the offsets of    *)
(* these.                                                                  *)
LEMMA OutputEndPrefix ==
  ASSUME NEW cs \in Seq(Chunk), NEW ds \in Seq(Chunk),
         NEW k \in Nat, k <= Len(cs), k <= Len(ds),
         \A i \in 1..k : cs[i] = ds[i]
  PROVE  \A i \in 0..k : OutputEnd(cs)[i] = OutputEnd(ds)[i]
<1> DEFINE c == OutputEnd(cs)
           d == OutputEnd(ds)
           T == {i \in 0..k : c[i] = d[i]}
<1>1. 0 \in T
  BY OutputEndStep
<1>2. ASSUME NEW i \in 0..k, i \in T, i + 1 <= k
      PROVE  i + 1 \in T
  <2>1. /\ i + 1 \in 1..Len(cs) /\ i + 1 \in 1..Len(ds) /\ i + 1 \in 1..k
        /\ (i + 1) - 1 = i
    BY <1>2
  <2>2. /\ c[i + 1] = c[i] + cs[i + 1].sz * BlockSize
        /\ d[i + 1] = d[i] + ds[i + 1].sz * BlockSize
    BY <2>1, OutputEndStep
  <2>3. c[i] = d[i] /\ cs[i + 1] = ds[i + 1]
    BY <1>2, <2>1
  <2> HIDE DEF c, d
  <2>4. c[i + 1] = d[i + 1]
    BY <2>2, <2>3
  <2> QED
    BY <2>1, <2>4
<1>3. \A i \in 0..k : i \in T
  <2> HIDE DEF T
  <2>1. \A i \in 0..k : i \in T /\ i + 1 <= k => i + 1 \in T
    BY <1>2
  <2> QED
    BY <1>1, <2>1, IntervalInduction
<1> QED
  BY <1>3

(* A chunk after the first k chunks of a list ends its output after theirs.*)
LEMMA OutputEndAfter ==
  ASSUME NEW cs \in Seq(Chunk), NEW k \in 0..Len(cs), NEW c \in Chunk,
         NEW ds \in Seq(Chunk), Len(ds) = k + 1,
         \A i \in 1..k : ds[i] = cs[i],
         ds[k + 1] = c
  PROVE  OutputEnd(ds)[k + 1] = OutputEnd(cs)[k] + c.sz * BlockSize
<1>1. OutputEnd(ds)[k + 1] = OutputEnd(ds)[k] + c.sz * BlockSize
  <2>1. k + 1 \in 1..Len(ds) /\ (k + 1) - 1 = k
    OBVIOUS
  <2> QED
    BY <2>1, OutputEndStep
<1>2. OutputEnd(ds)[k] = OutputEnd(cs)[k]
  <2>1. k \in Nat /\ k <= Len(cs) /\ k <= Len(ds) /\ k \in 0..k
    OBVIOUS
  <2> QED
    BY <2>1, OutputEndPrefix
<1> QED
  BY <1>1, <1>2

-----------------------------------------------------------------------------
(* The handler.                                                            *)

(* There are no CRC32 chunks: the chunk table that is read has no entry for*)
(* them, so truncate writes a wrong chunk counter when there are some.     *)
Plain(f) == \A i \in 1..Len(f.chunks) : f.chunks[i].type # "CRC32"

(* A handler between two calls.                                            *)
Sound(g) ==
  /\ g \in Handler
  /\ Plain(g.file)
  /\ g.file.sparse => HeaderAccepted(g.file)
  /\ ~g.raised => HeaderAccepted(g.file) /\ g.mem = ReadHeader(g.file)

-----------------------------------------------------------------------------
(* The chunk table.                                                        *)

(* Without CRC32 chunks the table has one entry for each chunk.            *)
LEMMA PlainTable ==
  ASSUME NEW f \in File, Plain(f)
  PROVE  Table(f.chunks) =
           [k \in 1..Len(f.chunks) |->
              [type |-> f.chunks[k].type,
               at   |-> k,
               off  |-> OutputEnd(f.chunks)[k - 1],
               size |-> f.chunks[k].sz * BlockSize,
               fill |-> IF f.chunks[k].type = "FILL" THEN f.chunks[k].data
                        ELSE << >>]]
<1> DEFINE cs == f.chunks
           n == Len(cs)
           D == DataChunks(cs)
           nth(k) == CHOOSE i \in D : Cardinality({j \in D : j <= i}) = k
<1>1. n \in Nat
  BY DEF File
<1>2. D = 1..n
  BY DEF Plain, DataChunks
<1>3. \A i \in 0..n : Cardinality(1..i) = i
  BY <1>1, FS_Interval
<1>4. \A i \in 1..n : {j \in D : j <= i} = 1..i
  BY <1>1, <1>2
<1>5. Cardinality(D) = n
  BY <1>1, <1>2, <1>3
<1>6. ASSUME NEW k \in 1..n
      PROVE  nth(k) = k
  <2> HIDE DEF D
  <2>1. ASSUME NEW i \in D
        PROVE  Cardinality({j \in D : j <= i}) = i
    <3>1. i \in 1..n /\ i \in 0..n
      BY <1>1, <1>2
    <3>2. {j \in D : j <= i} = 1..i
      BY <1>4, <3>1
    <3> QED
      BY <3>1, <3>2, <1>3
  <2>2. k \in D
    BY <1>2
  <2> QED
    BY <2>1, <2>2
<1> HIDE DEF nth, D, cs, n
<1>7. Table(cs) =
        [k \in 1..n |->
           [type |-> cs[k].type, at |-> k, off |-> OutputEnd(cs)[k - 1],
            size |-> cs[k].sz * BlockSize,
            fill |-> IF cs[k].type = "FILL" THEN cs[k].data ELSE << >>]]
  <2>1. Table(cs) =
          [k \in 1..Cardinality(D) |->
             [type |-> cs[nth(k)].type, at |-> nth(k),
              off |-> OutputEnd(cs)[nth(k) - 1],
              size |-> cs[nth(k)].sz * BlockSize,
              fill |-> IF cs[nth(k)].type = "FILL" THEN cs[nth(k)].data
                       ELSE << >>]]
    BY DEF Table, nth, D
  <2> QED
    BY <2>1, <1>5, <1>6
<1> QED
  BY <1>7 DEF cs, n

(* An accepted file is remembered within the types.                        *)
LEMMA ReadHeaderType ==
  ASSUME NEW f \in File, Plain(f)
  PROVE  ReadHeader(f) \in Memory
<1> DEFINE cs == f.chunks
           e == OutputEnd(cs)
<1>1. /\ cs \in Seq(Chunk) /\ Len(cs) \in Nat /\ f.sparse \in BOOLEAN
      /\ f.total_blocks \in Int /\ f.total_chunks \in Nat
      /\ Len(f.bytes) \in Nat
  BY DEF File
<1>2. \A k \in 1..Len(cs) : cs[k] \in Chunk
  BY <1>1
<1>3. \A i \in 0..Len(cs) : e[i] \in Nat
  BY <1>1, OutputEndType
<1> HIDE DEF e
<1>4. Table(cs) \in Seq(Entry)
  <2>1. ASSUME NEW k \in 1..Len(cs)
        PROVE  [type |-> cs[k].type, at |-> k, off |-> e[k - 1],
                size |-> cs[k].sz * BlockSize,
                fill |-> IF cs[k].type = "FILL" THEN cs[k].data ELSE << >>]
                 \in Entry
    <3>1. cs[k].type \in ChunkType /\ cs[k].data \in Seq(Cell)
      BY <1>2 DEF Chunk
    <3>2. cs[k].sz * BlockSize \in Nat
      BY <1>2, ChunkOutput
    <3>3. k \in Nat /\ e[k - 1] \in Nat
      BY <1>1, <1>3
    <3>4. (IF cs[k].type = "FILL" THEN cs[k].data ELSE << >>) \in Seq(Cell)
      BY <3>1
    <3> QED
      BY <3>1, <3>2, <3>3, <3>4 DEF Entry
  <2> HIDE DEF cs
  <2>2. [k \in 1..Len(cs) |->
           [type |-> cs[k].type, at |-> k, off |-> e[k - 1],
            size |-> cs[k].sz * BlockSize,
            fill |-> IF cs[k].type = "FILL" THEN cs[k].data ELSE << >>]]
          \in Seq(Entry)
    BY <2>1, <1>1
  <2> QED
    BY <2>2, PlainTable DEF cs, e
<1>5. e[Len(cs)] \in Nat
  BY <1>1, <1>3
<1>6. (IF f.sparse THEN Table(cs) ELSE << >>) \in Seq(Entry)
  BY <1>4
<1>7. (IF f.sparse THEN e[Len(cs)] ELSE Len(f.bytes)) \in Nat
  BY <1>1, <1>5
<1> QED
  BY <1>1, <1>6, <1>7 DEF ReadHeader, Memory, e

-----------------------------------------------------------------------------
(* Opening a file that is raw, or sparse with the right counters.          *)
LEMMA OpenSound ==
  ASSUME NEW f \in File, Plain(f), f.sparse => HeaderAccepted(f)
  PROVE  Sound(Open(f)) /\ Open(f).file = f
<1>1. CASE HeaderAccepted(f)
  <2>1. Open(f) = [file |-> f, mem |-> ReadHeader(f), raised |-> FALSE]
    BY <1>1 DEF Open
  <2>2. ReadHeader(f) \in Memory
    BY ReadHeaderType
  <2>3. Open(f) \in Handler
    BY <2>1, <2>2 DEF Handler
  <2> QED
    BY <1>1, <2>1, <2>3 DEF Sound
<1>2. CASE ~HeaderAccepted(f)
  <2>1. Open(f) = [file |-> f, mem |-> Unread(f), raised |-> TRUE]
    BY <1>2 DEF Open
  <2>2. Unread(f) \in Memory
    BY DEF Unread, Memory, File
  <2>3. Open(f) \in Handler
    BY <2>1, <2>2 DEF Handler
  <2> QED
    BY <1>2, <2>1, <2>3 DEF Sound
<1> QED
  BY <1>1, <1>2

(* A call that raises before it writes anything.                           *)
LEMMA RaisingSound ==
  ASSUME NEW g, Sound(g)
  PROVE  Sound(Raising(g))
<1>1. g \in Handler
  BY DEF Sound
<1>2. /\ Raising(g) \in Handler /\ Raising(g).raised
      /\ Raising(g).file = g.file
  BY <1>1 DEF Raising, Handler
<1> QED
  BY <1>2 DEF Sound

-----------------------------------------------------------------------------
(* Appending.                                                              *)

(* The number of blocks in the header is that of the chunks on disk.       *)
LEMMA BlocksCounted ==
  ASSUME NEW f \in File, f.sparse
  PROVE  HeaderAccepted(f) <=>
           /\ f.total_chunks = Len(f.chunks)
           /\ f.total_blocks * BlockSize = OutputEnd(f.chunks)[Len(f.chunks)]
  BY DEF HeaderAccepted

LEMMA AppendChunkSound ==
  ASSUME NEW g, Sound(g), ~g.raised, g.mem.sparse,
         NEW c \in Chunk, c.type # "CRC32"
  PROVE  LET cs == g.file.chunks
             d  == AppendChunk(g, c).file
         IN  /\ Sound(AppendChunk(g, c))
             /\ d.sparse /\ Len(d.chunks) = Len(cs) + 1
             /\ \A i \in 1..Len(cs) : d.chunks[i] = cs[i]
             /\ d.chunks[Len(cs) + 1] = c
<1> DEFINE f == g.file
           cs == f.chunks
           n == Len(cs)
           ds == SubSeq(cs, 1, n) \o << c >>
           new == WriteChunk(CountChunk(g, c.sz), c)
<1>1. /\ f \in File /\ cs \in Seq(Chunk) /\ n \in Nat /\ g \in Handler
      /\ f.total_blocks \in Int /\ f.total_chunks \in Nat /\ c.sz \in Nat
  BY DEF Sound, Handler, File, Chunk
<1>2. /\ f.sparse /\ HeaderAccepted(f) /\ g.mem = ReadHeader(f)
      /\ g.mem.sparse_end = n /\ g.mem.total_blocks = f.total_blocks
      /\ g.mem.total_chunks = f.total_chunks
  BY DEF Sound, ReadHeader
<1>3. new = [f EXCEPT !.total_chunks = f.total_chunks + 1,
                      !.total_blocks = f.total_blocks + c.sz,
                      !.chunks = ds]
  <2>1. CountChunk(g, c.sz).file =
          [f EXCEPT !.total_chunks = f.total_chunks + 1,
                    !.total_blocks = f.total_blocks + c.sz]
    BY <1>1, <1>2 DEF CountChunk, Handler, Memory, File
  <2>2. CountChunk(g, c.sz).mem.sparse_end = n
    BY <1>1, <1>2 DEF CountChunk, Handler, Memory
  <2> QED
    BY <2>1, <2>2, <1>1 DEF WriteChunk, File
<1>4. /\ ds \in Seq(Chunk) /\ Len(ds) = n + 1 /\ ds[n + 1] = c
      /\ \A i \in 1..n : ds[i] = cs[i]
  <2>1. n \in 0..Len(cs) /\ cs \in Seq(Chunk)
    BY <1>1
  <2> HIDE DEF cs, n
  <2> QED
    BY <2>1
<1> HIDE DEF ds, new
<1>5. OutputEnd(ds)[n + 1] = OutputEnd(cs)[n] + c.sz * BlockSize
  <2>1. n \in 0..Len(cs)
    BY <1>1
  <2> QED
    BY <1>1, <1>4, <2>1, OutputEndAfter
<1>6. /\ new \in File /\ new.chunks = ds /\ new.sparse
      /\ new.total_chunks = f.total_chunks + 1
      /\ new.total_blocks = f.total_blocks + c.sz
  <2>1. f.total_chunks + 1 \in Nat /\ f.total_blocks + c.sz \in Int
    BY <1>1
  <2> QED
    BY <1>1, <1>2, <1>3, <1>4, <2>1 DEF File
<1>7. Plain(new)
  <2>1. ASSUME NEW i \in 1..(n + 1)
        PROVE  ds[i].type # "CRC32"
    <3>1. CASE i = n + 1
      BY <3>1, <1>4
    <3>2. CASE i \in 1..n
      BY <3>2, <1>4 DEF Sound, Plain
    <3> QED
      BY <3>1, <3>2, <1>1
  <2> QED
    BY <2>1, <1>4, <1>6 DEF Plain
<1>8. HeaderAccepted(new)
  <2>1. /\ f.total_chunks = n
        /\ f.total_blocks * BlockSize = OutputEnd(cs)[n]
    BY <1>1, <1>2, BlocksCounted
  <2>2. (f.total_blocks + c.sz) * BlockSize =
          f.total_blocks * BlockSize + c.sz * BlockSize
    BY <1>1, SizesAssumption
  <2> QED
    BY <1>4, <1>5, <1>6, <2>1, <2>2, BlocksCounted
<1>9. Sound(Open(new)) /\ Open(new).file = new
  BY <1>6, <1>7, <1>8, OpenSound
<1>10. AppendChunk(g, c) = Open(new)
  BY DEF AppendChunk, new
<1> QED
  BY <1>4, <1>6, <1>9, <1>10

(* A raw file may get any bytes.                                           *)
LEMMA RawSound ==
  ASSUME NEW g, Sound(g), ~g.file.sparse, NEW bytes \in Seq(Cell)
  PROVE  Sound(Open([g.file EXCEPT !.bytes = bytes]))
<1> DEFINE f == [g.file EXCEPT !.bytes = bytes]
<1>1. g.file \in File /\ Plain(g.file)
  BY DEF Sound, Handler
<1>2. f \in File /\ ~f.sparse /\ f.chunks = g.file.chunks
  BY <1>1 DEF File
<1>3. Plain(f)
  BY <1>1, <1>2 DEF Plain
<1> HIDE DEF f
<1>4. Sound(Open(f))
  BY <1>2, <1>3, OpenSound
<1> QED
  BY <1>4 DEF f

(* A handler that has not raised remembers which kind of file it is.       *)
LEMMA SparseRemembered ==
  ASSUME NEW g, Sound(g), ~g.raised
  PROVE  /\ g.mem.sparse = g.file.sparse
         /\ g.mem.image_size \in Nat
         /\ g.file \in File
         /\ g.file.bytes \in Seq(Cell) /\ Len(g.file.bytes) \in Nat
<1>1. g.mem = ReadHeader(g.file) /\ g.file \in File /\ g.mem \in Memory
  BY DEF Sound, Handler
<1> QED
  BY <1>1 DEF ReadHeader, File, Memory

LEMMA AppendBytesSound ==
  ASSUME NEW g, Sound(g), ~g.file.sparse, NEW cells \in Seq(Cell)
  PROVE  Sound(AppendBytes(g, cells))
<1>1. g.file \in File
  BY DEF Sound, Handler
<1>2. g.file.bytes \o cells \in Seq(Cell)
  BY <1>1 DEF File
<1>3. AppendBytes(g, cells) =
        Open([g.file EXCEPT !.bytes = g.file.bytes \o cells])
  BY <1>1 DEF AppendBytes
<1> QED
  BY <1>2, <1>3, RawSound

LEMMA AppendRawSound ==
  ASSUME NEW g, Sound(g), ~g.raised, NEW data \in Seq(Cell),
         Len(data) % BlockSize = 0
  PROVE  Sound(AppendRaw(g, data))
<1>1. CASE g.mem.sparse
  <2>1. Len(data) \div BlockSize \in Nat
    BY SizesAssumption
  <2>2. RawChunk(data) \in Chunk /\ RawChunk(data).type # "CRC32"
    BY <2>1 DEF RawChunk, Chunk, ChunkType
  <2> QED
    BY <1>1, <2>2, AppendChunkSound DEF AppendRaw
<1>2. CASE ~g.mem.sparse
  BY <1>2, SparseRemembered, AppendBytesSound DEF AppendRaw
<1> QED
  BY <1>1, <1>2

LEMMA RepeatType ==
  ASSUME NEW fill \in [1..FillLen -> Cell], NEW size \in Int
  PROVE  /\ Repeat(fill, size) \in Seq(Cell)
         /\ size >= 0 => Len(Repeat(fill, size)) = size
<1>1. \A i \in 1..size : ((i - 1) % FillLen) + 1 \in 1..FillLen
  BY SizesAssumption
<1>2. \A i \in 1..size : fill[((i - 1) % FillLen) + 1] \in Cell
  BY <1>1
<1>3. CASE size >= 0
  BY <1>2, <1>3 DEF Repeat
<1>4. CASE size < 0
  <2>1. Repeat(fill, size) = << >>
    BY <1>4 DEF Repeat
  <2> QED
    BY <1>4, <2>1
<1> QED
  BY <1>3, <1>4

LEMMA AppendFillSound ==
  ASSUME NEW g, Sound(g), ~g.raised, NEW fill \in [1..FillLen -> Cell],
         NEW size \in Nat
  PROVE  Sound(AppendFill(g, fill, size))
<1>1. CASE g.mem.sparse
  <2>1. size \div BlockSize \in Nat
    BY SizesAssumption
  <2>2. fill \in Seq(Cell) /\ Len(fill) = FillLen
    BY SizesAssumption
  <2>3. FillChunk(fill, size) \in Chunk /\ FillChunk(fill, size).type # "CRC32"
    BY <2>1, <2>2 DEF FillChunk, Chunk, ChunkType
  <2>4. AppendFill(g, fill, size) = AppendChunk(g, FillChunk(fill, size))
    BY <1>1 DEF AppendFill
  <2> QED
    BY <1>1, <2>3, <2>4, AppendChunkSound
<1>2. CASE ~g.mem.sparse
  <2>1. AppendFill(g, fill, size) = AppendBytes(g, Repeat(fill, size))
    BY <1>2 DEF AppendFill
  <2> QED
    BY <1>2, <2>1, RepeatType, SparseRemembered, AppendBytesSound
<1> QED
  BY <1>1, <1>2

LEMMA ResizeBytesSound ==
  ASSUME NEW g, Sound(g), ~g.file.sparse, NEW size \in Nat
  PROVE  Sound(Open(ResizeBytes(g.file, size)))
<1> DEFINE old == g.file.bytes
           new == IF size <= Len(old) THEN SubSeq(old, 1, size)
                  ELSE old \o [i \in 1..(size - Len(old)) |-> Zero]
<1>1. g.file \in File /\ old \in Seq(Cell) /\ Len(old) \in Nat
  BY DEF Sound, Handler, File
<1>2. new \in Seq(Cell)
  <2>1. CASE size <= Len(old)
    BY <2>1, <1>1
  <2>2. CASE ~(size <= Len(old))
    <3>1. [i \in 1..(size - Len(old)) |-> Zero] \in Seq(Cell)
      BY <2>2, <1>1, ZeroAssumption
    <3> QED
      BY <2>2, <3>1, <1>1
  <2> QED
    BY <2>1, <2>2
<1>3. ResizeBytes(g.file, size) = [g.file EXCEPT !.bytes = new]
  BY <1>1 DEF ResizeBytes
<1> QED
  BY <1>2, <1>3, RawSound

LEMMA AppendDontCareSound ==
  ASSUME NEW g, Sound(g), ~g.raised, NEW size \in Nat
  PROVE  Sound(AppendDontCare(g, size))
<1>1. CASE g.mem.sparse
  <2>1. size \div BlockSize \in Nat
    BY SizesAssumption
  <2>2. DontCareChunk(size) \in Chunk /\ DontCareChunk(size).type # "CRC32"
    BY <2>1 DEF DontCareChunk, Chunk, ChunkType
  <2>3. AppendDontCare(g, size) = AppendChunk(g, DontCareChunk(size))
    BY <1>1 DEF AppendDontCare
  <2> QED
    BY <1>1, <2>2, <2>3, AppendChunkSound
<1>2. CASE ~g.mem.sparse
  <2>1. Len(g.file.bytes) \in Nat /\ ~g.file.sparse
    BY <1>2, SparseRemembered
  <2>2. AppendDontCare(g, size) =
          Open(ResizeBytes(g.file, Len(g.file.bytes) + size))
    BY <1>2, <2>1 DEF AppendDontCare
  <2>3. Len(g.file.bytes) + size \in Nat
    BY <2>1
  <2> QED
    BY <2>1, <2>2, <2>3, ResizeBytesSound
<1> QED
  BY <1>1, <1>2

-----------------------------------------------------------------------------
(* Truncating.                                                             *)

(* bisect finds an entry, the last that starts at or before the offset.    *)
LEMMA EntryAtExists ==
  ASSUME NEW table, NEW n \in Nat \ {0}, Len(table) = n, NEW p \in Nat,
         \A i \in 1..n : table[i].off \in Nat,
         table[1].off <= p
  PROVE  /\ EntryAt(table, p) \in 1..n
         /\ table[EntryAt(table, p)].off <= p
         /\ \A l \in (EntryAt(table, p) + 1)..n : table[l].off > p
<1> DEFINE S == {i \in 0..(n - 1) : table[n - i].off <= p}
<1>1. n - 1 \in S
  <2>1. n - (n - 1) = 1 /\ n - 1 \in 0..(n - 1)
    OBVIOUS
  <2> QED
    BY <2>1
<1>2. PICK i \in S : \A j \in S : i <= j
  <2>1. S \in SUBSET Nat
    OBVIOUS
  <2> HIDE DEF S
  <2> QED
    BY <1>1, <2>1, NatLeast
<1>3. /\ i \in Nat /\ n - i \in 1..n
      /\ table[n - i].off <= p
  BY <1>2
<1>4. ASSUME NEW l \in ((n - i) + 1)..n
      PROVE  table[l].off > p
  <2>1. n - l \in 0..(n - 1) /\ n - l < i /\ n - (n - l) = l
    BY <1>2
  <2>2. n - l \notin S
    <3> HIDE DEF S
    <3>1. i \in Nat /\ n - l \in Nat
      BY <1>3, <2>1
    <3> QED
      BY <1>2, <2>1, <3>1
  <2>3. ~(table[l].off <= p)
    BY <2>1, <2>2
  <2>4. table[l].off \in Nat
    BY <1>3
  <2> QED
    BY <2>3, <2>4
<1> QED
  BY <1>3, <1>4 DEF EntryAt

LEMMA CutSound ==
  ASSUME NEW g, Sound(g), ~g.raised, g.mem.sparse,
         NEW size \in Nat, size % BlockSize = 0, size < g.mem.image_size
  PROVE  LET cs   == g.file.chunks
             e    == OutputEnd(cs)
             k    == EntryAt(g.mem.chunks, size)
             keep == size - e[k - 1]
             short == [cs[k] EXCEPT
                         !.sz = keep \div BlockSize,
                         !.data = IF cs[k].type = "RAW"
                                  THEN SubSeq(@, 1, Least(keep, Len(@))) ELSE @]
             d    == Cut(g, size).file
         IN  /\ Sound(Cut(g, size))
             /\ k \in 1..Len(cs) /\ e[k - 1] <= size /\ size < e[k]
             /\ d.sparse /\ Len(d.chunks) = (IF keep = 0 THEN k - 1 ELSE k)
             /\ \A i \in 1..(k - 1) : d.chunks[i] = cs[i]
             /\ keep # 0 => d.chunks[k] = short
             /\ short \in Chunk /\ short.sz * BlockSize = keep
<1> DEFINE f == g.file
           cs == f.chunks
           n == Len(cs)
           e == OutputEnd(cs)
           k == EntryAt(g.mem.chunks, size)
           keep == size - e[k - 1]
           before == SubSeq(cs, 1, k - 1)
           short == [cs[k] EXCEPT
                       !.sz = keep \div BlockSize,
                       !.data = IF cs[k].type = "RAW"
                                THEN SubSeq(@, 1, Least(keep, Len(@))) ELSE @]
           ds == IF keep = 0 THEN before ELSE before \o << short >>
           m == IF keep = 0 THEN k - 1 ELSE k
           new == [f EXCEPT !.chunks = ds, !.total_chunks = m,
                            !.total_blocks = size \div BlockSize]
<1>1. /\ f \in File /\ cs \in Seq(Chunk) /\ n \in Nat /\ Plain(f)
      /\ f.sparse /\ g.mem = ReadHeader(f)
  BY DEF Sound, Handler, File, ReadHeader
<1>2. /\ \A i \in 1..n : cs[i] \in Chunk
      /\ \A i \in 0..n : e[i] \in Nat /\ e[i] % BlockSize = 0
      /\ e[0] = 0
  BY <1>1, OutputEndType, OutputEndStep
<1>3. g.mem.image_size = e[n] /\ g.mem.chunks = Table(cs) /\ n > 0
  <2>1. g.mem.image_size = e[n] /\ g.mem.chunks = Table(cs)
    BY <1>1 DEF ReadHeader
  <2> HIDE DEF e
  <2> QED
    BY <2>1, <1>1, <1>2
<1>4. /\ Len(g.mem.chunks) = n
      /\ \A i \in 1..n : /\ g.mem.chunks[i].off = e[i - 1]
                         /\ g.mem.chunks[i].at = i
                         /\ g.mem.chunks[i].type = cs[i].type
  <2>1. g.mem.chunks =
          [i \in 1..n |->
             [type |-> cs[i].type, at |-> i, off |-> e[i - 1],
              size |-> cs[i].sz * BlockSize,
              fill |-> IF cs[i].type = "FILL" THEN cs[i].data ELSE << >>]]
    BY <1>1, <1>3, PlainTable
  <2> HIDE DEF e, n
  <2> QED
    BY <2>1, <1>1
<1>5. k \in 1..n /\ e[k - 1] <= size /\ size < e[k]
  <2>1. 1 \in 1..n /\ n \in Nat \ {0}
    BY <1>1, <1>3
  <2>2. g.mem.chunks[1].off = 0
    BY <2>1, <1>2, <1>4
  <2>3. /\ k \in 1..n
        /\ g.mem.chunks[k].off <= size
        /\ \A l \in (k + 1)..n : g.mem.chunks[l].off > size
    <3>1. \A i \in 1..n : g.mem.chunks[i].off \in Nat
      <4>1. \A i \in 1..n : i - 1 \in 0..n
        BY <1>1
      <4> HIDE DEF e, n
      <4> QED
        BY <4>1, <1>2, <1>4
    <3> DEFINE t == g.mem.chunks
    <3>2. Len(t) = n /\ t[1].off <= size /\ \A i \in 1..n : t[i].off \in Nat
      BY <2>2, <3>1, <1>4
    <3> HIDE DEF n, t
    <3>3. /\ EntryAt(t, size) \in 1..n /\ t[EntryAt(t, size)].off <= size
          /\ \A l \in (EntryAt(t, size) + 1)..n : t[l].off > size
      BY <2>1, <3>2, EntryAtExists
    <3> QED
      BY <3>3 DEF t
  <2> HIDE DEF k, e, n
  <2>4. size < e[k]
    <3>1. CASE k = n
      BY <3>1, <1>3
    <3>2. CASE k # n
      <4>1. k + 1 \in (k + 1)..n /\ k + 1 \in 1..n /\ (k + 1) - 1 = k
            /\ k \in 0..n
        BY <1>1, <2>3, <3>2
      <4>2. g.mem.chunks[k + 1].off = e[k] /\ e[k] \in Nat
        BY <4>1, <1>2, <1>4
      <4> QED
        BY <4>1, <4>2, <2>3
    <3> QED
      BY <3>1, <3>2
  <2> QED
    BY <2>3, <2>4, <1>4
<1>6. Cut(g, size) = Open(new)
  <2>1. /\ g.mem.chunks[k].off = e[k - 1] /\ g.mem.chunks[k].at = k
        /\ g.mem.chunks[k].type = cs[k].type
    BY <1>4, <1>5
  <2> HIDE DEF e, n
  <2> QED
    BY <2>1 DEF Cut
<1> HIDE DEF k, e, n
<1>7. /\ keep \in Nat /\ keep % BlockSize = 0 /\ keep \div BlockSize \in Nat
      /\ (keep \div BlockSize) * BlockSize = keep
      /\ e[k - 1] \in Nat
  <2>1. k - 1 \in 0..n
    BY <1>1, <1>5
  <2>2. e[k - 1] \in Nat /\ e[k - 1] % BlockSize = 0
    BY <2>1, <1>2
  <2>3. keep \in Nat
    BY <2>2, <1>5
  <2>4. keep % BlockSize = 0
    <3> DEFINE x == e[k - 1]
    <3>1. x \in Int /\ x % BlockSize = 0 /\ size \in Int
      BY <2>2
    <3> HIDE DEF x
    <3>2. (size - x) % BlockSize = 0
      BY <3>1, SumOfMultiples
    <3> QED
      BY <3>2 DEF x
  <2> HIDE DEF keep
  <2>5. (keep \div BlockSize) * BlockSize = keep
    BY <2>3, <2>4, MultipleOfBlocks
  <2> QED
    BY <2>2, <2>3, <2>4, <2>5, SizesAssumption
<1>8. short \in Chunk /\ short.sz = keep \div BlockSize /\ short.type = cs[k].type
  <2> DEFINE data == IF cs[k].type = "RAW"
                     THEN SubSeq(cs[k].data, 1, Least(keep, Len(cs[k].data)))
                     ELSE cs[k].data
  <2>1. cs[k] \in Chunk
    BY <1>2, <1>5
  <2>2. cs[k].data \in Seq(Cell) /\ cs[k].type \in ChunkType
    BY <2>1 DEF Chunk
  <2> HIDE DEF keep
  <2>3. SubSeq(cs[k].data, 1, Least(keep, Len(cs[k].data))) \in Seq(Cell)
    <3>1. Least(keep, Len(cs[k].data)) \in 0..Len(cs[k].data)
      <4> DEFINE l == Len(cs[k].data)
      <4>1. l \in Nat
        BY <2>2
      <4> HIDE DEF l
      <4>2. keep \in Nat
        BY <1>7
      <4>3. Least(keep, l) \in 0..l
        BY <4>1, <4>2 DEF Least
      <4> QED
        BY <4>3 DEF l
    <3> QED
      BY <2>2, <3>1
  <2>4. data \in Seq(Cell) /\ (cs[k].type = "FILL" => data = cs[k].data)
    BY <2>2, <2>3
  <2>5. short = [cs[k] EXCEPT !.sz = keep \div BlockSize, !.data = data]
    BY <2>1 DEF Chunk
  <2> HIDE DEF data, short
  <2> QED
    BY <1>7, <2>1, <2>4, <2>5 DEF Chunk
<1>9. /\ ds \in Seq(Chunk) /\ Len(ds) = m /\ m \in Nat
      /\ \A i \in 1..(k - 1) : ds[i] = cs[i]
      /\ keep # 0 => ds[k] = short
  <2>1. k \in 1..Len(cs) /\ cs \in Seq(Chunk)
    BY <1>1, <1>5 DEF n
  <2> HIDE DEF cs, keep, short
  <2>2. /\ before \in Seq(Chunk) /\ Len(before) = k - 1
        /\ \A i \in 1..(k - 1) : before[i] = cs[i]
    BY <2>1
  <2> HIDE DEF before
  <2> QED
    BY <1>8, <2>1, <2>2
<1>10. OutputEnd(ds)[m] = size
  <2>1. k - 1 \in 0..Len(cs) /\ k - 1 \in Nat /\ k - 1 \in 0..(k - 1)
    BY <1>1, <1>5 DEF n
  <2>2. CASE keep = 0
    <3> HIDE DEF ds
    <3>1. OutputEnd(ds)[k - 1] = e[k - 1] /\ m = k - 1
      BY <1>1, <1>9, <2>1, <2>2, OutputEndPrefix DEF e
    <3> QED
      BY <2>2, <3>1, <1>7
  <2>3. CASE keep # 0
    <3>1. m = (k - 1) + 1
      BY <1>5, <2>3
    <3> HIDE DEF ds, short, m, keep
    <3>2. OutputEnd(ds)[m] = e[k - 1] + short.sz * BlockSize
      <4>1. ds[(k - 1) + 1] = short /\ Len(ds) = (k - 1) + 1
        BY <1>5, <1>9, <2>3, <3>1 DEF keep
      <4> DEFINE j == k - 1
      <4>2. /\ j \in 0..Len(cs) /\ ds \in Seq(Chunk) /\ short \in Chunk
            /\ cs \in Seq(Chunk) /\ Len(ds) = j + 1 /\ ds[j + 1] = short
            /\ \A i \in 1..j : ds[i] = cs[i]
        BY <1>1, <1>8, <1>9, <2>1, <4>1
      <4> HIDE DEF j, cs
      <4>3. OutputEnd(ds)[j + 1] = OutputEnd(cs)[j] + short.sz * BlockSize
        BY <4>2, OutputEndAfter
      <4> QED
        BY <3>1, <4>3 DEF e, j
    <3>3. OutputEnd(ds)[m] = e[k - 1] + keep
      BY <3>2, <1>7, <1>8
    <3> QED
      BY <3>3, <1>7 DEF keep
  <2> QED
    BY <2>2, <2>3
<1> HIDE DEF ds, m, keep, short
<1>11. /\ new \in File /\ new.sparse /\ new.chunks = ds
       /\ new.total_chunks = m /\ new.total_blocks = size \div BlockSize
  <2>1. size \div BlockSize \in Int
    BY SizesAssumption
  <2> QED
    BY <2>1, <1>1, <1>9 DEF File
<1> HIDE DEF new
<1>12. Plain(new)
  <2>1. ASSUME NEW i \in 1..m
        PROVE  ds[i].type # "CRC32"
    <3>1. i \in 1..(k - 1) \/ (i = k /\ keep # 0)
      BY <1>1, <1>5, <2>1 DEF m
    <3>2. CASE i \in 1..(k - 1)
      BY <3>2, <1>1, <1>5, <1>9 DEF Plain, n
    <3>3. CASE i = k /\ keep # 0
      BY <3>3, <1>1, <1>5, <1>8, <1>9 DEF Plain, n
    <3> QED
      BY <3>1, <3>2, <3>3
  <2> QED
    BY <2>1, <1>9, <1>11 DEF Plain
<1>13. HeaderAccepted(new)
  <2>1. (size \div BlockSize) * BlockSize = size
    BY MultipleOfBlocks
  <2> QED
    BY <1>9, <1>10, <1>11, <2>1, BlocksCounted
<1>14. Sound(Open(new)) /\ Open(new).file = new
  BY <1>11, <1>12, <1>13, OpenSound
<1>15. short.sz * BlockSize = keep
  BY <1>7, <1>8
<1>16. /\ Sound(Cut(g, size))
       /\ k \in 1..n /\ e[k - 1] <= size /\ size < e[k]
       /\ Cut(g, size).file.sparse
       /\ Len(Cut(g, size).file.chunks) = m
       /\ \A i \in 1..(k - 1) : Cut(g, size).file.chunks[i] = cs[i]
       /\ keep # 0 => Cut(g, size).file.chunks[k] = short
       /\ short \in Chunk /\ short.sz * BlockSize = keep
  BY <1>5, <1>6, <1>8, <1>9, <1>11, <1>14, <1>15
<1> QED
  BY <1>16 DEF k, e, n, m, keep, short

LEMMA TruncateSound ==
  ASSUME NEW g, Sound(g), ~g.raised, NEW size \in Nat
  PROVE  Sound(Truncate(g, size))
<1>1. CASE ~g.mem.sparse
  <2>1. Truncate(g, size) = Open(ResizeBytes(g.file, size))
    BY <1>1 DEF Truncate
  <2> QED
    BY <1>1, <2>1, SparseRemembered, ResizeBytesSound
<1>2. CASE g.mem.sparse /\ size % BlockSize # 0
  BY <1>2, RaisingSound DEF Truncate
<1>3. CASE g.mem.sparse /\ size % BlockSize = 0
  <2>1. CASE size = g.mem.image_size
    <3>1. Truncate(g, size) = [g EXCEPT !.raised = FALSE]
      BY <1>3, <2>1 DEF Truncate
    <3>2. [g EXCEPT !.raised = FALSE] = g
      BY DEF Sound, Handler
    <3> QED
      BY <3>1, <3>2
  <2>2. CASE size < g.mem.image_size
    <3>1. Truncate(g, size) = Cut(g, size)
      BY <1>3, <2>2, SparseRemembered DEF Truncate
    <3>2. Sound(Cut(g, size))
      BY <1>3, <2>2, CutSound
    <3> QED
      BY <3>1, <3>2
  <2>3. CASE size > g.mem.image_size
    <3>1. Truncate(g, size) = AppendDontCare(g, size - g.mem.image_size)
      BY <1>3, <2>3, SparseRemembered DEF Truncate
    <3>2. size - g.mem.image_size \in Nat
      BY <2>3, SparseRemembered
    <3> QED
      BY <3>1, <3>2, AppendDontCareSound
  <2> QED
    BY <2>1, <2>2, <2>3, SparseRemembered
<1> QED
  BY <1>1, <1>2, <1>3

-----------------------------------------------------------------------------
(* Reading.                                                                *)

Reader == [pos : Nat, to_go : Int, cells : Seq(Cell), raised : BOOLEAN]

(* A part of a sequence is a sequence, however the bounds lie.             *)
LEMMA PartType ==
  ASSUME NEW s \in Seq(Cell), NEW lo \in Nat, NEW hi \in Int, hi <= Len(s)
  PROVE  SubSeq(s, lo + 1, hi) \in Seq(Cell)
<1>1. CASE lo + 1 <= hi
  BY <1>1
<1>2. CASE ~(lo + 1 <= hi)
  <2>1. SubSeq(s, lo + 1, hi) = << >>
    BY <1>2
  <2> QED
    BY <2>1
<1> QED
  BY <1>1, <1>2

(* The pattern is repeated often enough for any part of n cells.           *)
LEMMA PatternLongEnough ==
  ASSUME NEW n \in Int, NEW mod \in 0..(FillLen - 1)
  PROVE  /\ FillLen * ((n \div FillLen) + 2) \in Int
         /\ mod + n <= FillLen * ((n \div FillLen) + 2)
<1> DEFINE q == n \div FillLen
<1>1. FillLen \in Nat \ {0} /\ q \in Int
  BY SizesAssumption
<1>2. n < FillLen * q + FillLen
  BY <1>1
<1> HIDE DEF q
<1>3. FillLen * (q + 2) = FillLen * q + FillLen + FillLen /\ FillLen * q \in Int
  BY <1>1
<1> QED
  BY <1>1, <1>2, <1>3 DEF q

LEMMA HeldType ==
  ASSUME NEW f \in File, NEW c \in Entry, NEW skip \in Nat, NEW n \in Int,
         c.at \in 1..Len(f.chunks), c.type # "CRC32",
         c.type = "FILL" => c.fill \in [1..FillLen -> Cell]
  PROVE  Held(f, c, skip, n) \in Seq(Cell)
<1>1. c.type \in {"RAW", "FILL", "DONT_CARE"}
  BY DEF Entry, ChunkType
<1>2. CASE c.type = "RAW"
  <2> DEFINE data == f.chunks[c.at].data
  <2>1. data \in Seq(Cell) /\ Len(data) \in Nat
    <3>1. f.chunks[c.at] \in Chunk
      BY DEF File
    <3> QED
      BY <3>1 DEF Chunk
  <2>2. Held(f, c, skip, n) = SubSeq(data, skip + 1, Least(skip + n, Len(data)))
    BY <1>2 DEF Held
  <2> HIDE DEF data
  <2>3. Least(skip + n, Len(data)) \in Int /\ Least(skip + n, Len(data)) <= Len(data)
    BY <2>1 DEF Least
  <2> QED
    BY <2>1, <2>2, <2>3, PartType
<1>3. CASE c.type = "FILL"
  <2> DEFINE mod == skip % FillLen
             size == FillLen * ((n \div FillLen) + 2)
             all == Repeat(c.fill, size)
             hi == IF mod + n < 0 THEN (mod + n) + Len(all) ELSE mod + n
  <2>1. mod \in Nat /\ mod \in 0..(FillLen - 1)
    BY SizesAssumption
  <2>2. size \in Int /\ mod + n <= size
    <3> HIDE DEF mod
    <3> QED
      BY <2>1, PatternLongEnough
  <2> HIDE DEF mod, size
  <2>3. all \in Seq(Cell) /\ (size >= 0 => Len(all) = size)
    BY <1>3, <2>2, RepeatType
  <2> HIDE DEF all
  <2>4. hi \in Int /\ hi <= Len(all)
    BY <2>1, <2>2, <2>3
  <2>5. Held(f, c, skip, n) = SubSeq(all, mod + 1, hi)
    BY <1>3 DEF Held, Slice, all, size, mod
  <2> HIDE DEF hi
  <2> QED
    BY <2>1, <2>3, <2>4, <2>5, PartType
<1>4. CASE c.type = "DONT_CARE"
  <2>1. Held(f, c, skip, n) = [i \in 1..n |-> Zero]
    BY <1>4 DEF Held
  <2>2. CASE n >= 0
    BY <2>1, <2>2, ZeroAssumption
  <2>3. CASE n < 0
    <3>1. [i \in 1..n |-> Zero] = << >>
      BY <2>3
    <3> QED
      BY <2>1, <3>1
  <2> QED
    BY <2>2, <2>3
<1> QED
  BY <1>1, <1>2, <1>3, <1>4

(* One turn of the loop: it stops, or has reached the end of the entry.    *)
LEMMA ReadEntryType ==
  ASSUME NEW f \in File, NEW c \in Entry, NEW r \in Reader,
         c.at \in 1..Len(f.chunks), c.type # "CRC32",
         c.type = "FILL" => c.fill \in [1..FillLen -> Cell],
         r.to_go > 0 => c.off <= r.pos
  PROVE  /\ ReadEntry(f, r, c) \in Reader
         /\ ReadEntry(f, r, c).to_go > 0 =>
              ReadEntry(f, r, c).pos = c.off + c.size
<1>1. CASE r.to_go <= 0
  <2>1. ReadEntry(f, r, c) = r
    BY <1>1 DEF ReadEntry
  <2> QED
    BY <1>1, <2>1 DEF Reader
<1>2. CASE ~(r.to_go <= 0)
  <2> DEFINE skip == r.pos - c.off
             n == Least(c.size - skip, r.to_go)
  <2>1. /\ r.pos \in Nat /\ r.to_go \in Int /\ r.to_go > 0
        /\ r.cells \in Seq(Cell) /\ c.off \in Nat /\ c.size \in Nat
        /\ c.off <= r.pos
    BY <1>2 DEF Reader, Entry
  <2>2. skip \in Nat /\ n \in Int
    BY <2>1 DEF Least
  <2>3. r.pos + n \in Nat /\ r.to_go - n \in Int
        /\ (r.to_go - n > 0 => r.pos + n = c.off + c.size)
    BY <2>1 DEF Least
  <2> HIDE DEF skip, n
  <2>4. Held(f, c, skip, n) \in Seq(Cell)
    BY <2>2, HeldType
  <2>5. r.cells \o Held(f, c, skip, n) \in Seq(Cell)
    BY <2>1, <2>4
  <2>6. ReadEntry(f, r, c) =
          [pos |-> r.pos + n, to_go |-> r.to_go - n,
           cells |-> r.cells \o Held(f, c, skip, n),
           raised |-> c.type = "RAW" /\ n < -1]
    BY <1>2 DEF ReadEntry, skip, n
  <2>7. (c.type = "RAW" /\ n < -1) \in BOOLEAN
    OBVIOUS
  <2> QED
    BY <2>3, <2>5, <2>6, <2>7 DEF Reader
<1> QED
  BY <1>1, <1>2

(* The entries of a table without CRC32 chunks lie one after the other.    *)
LEMMA TableEntries ==
  ASSUME NEW g, Sound(g), ~g.raised, g.mem.sparse
  PROVE  LET t == g.mem.chunks
         IN  /\ Len(t) \in Nat
             /\ \A k \in 1..Len(t) :
                  /\ t[k] \in Entry
                  /\ t[k].at \in 1..Len(g.file.chunks)
                  /\ t[k].type # "CRC32"
                  /\ t[k].type = "FILL" => t[k].fill \in [1..FillLen -> Cell]
             /\ Len(t) > 0 => t[1].off = 0
             /\ \A k \in 1..Len(t) :
                  k + 1 <= Len(t) => t[k + 1].off = t[k].off + t[k].size
<1> DEFINE f == g.file
           cs == f.chunks
           n == Len(cs)
           e == OutputEnd(cs)
           t == g.mem.chunks
<1>1. /\ f \in File /\ cs \in Seq(Chunk) /\ n \in Nat /\ Plain(f) /\ f.sparse
      /\ g.mem = ReadHeader(f) /\ g.mem \in Memory
  BY DEF Sound, Handler, File, ReadHeader
<1>2. t \in Seq(Entry)
  BY <1>1 DEF Memory
<1>3. t = [k \in 1..n |->
             [type |-> cs[k].type, at |-> k, off |-> e[k - 1],
              size |-> cs[k].sz * BlockSize,
              fill |-> IF cs[k].type = "FILL" THEN cs[k].data ELSE << >>]]
  <2>1. t = Table(cs)
    BY <1>1 DEF ReadHeader
  <2> QED
    BY <2>1, <1>1, PlainTable
<1>4. e[0] = 0 /\ \A k \in 1..n : e[k] = e[k - 1] + cs[k].sz * BlockSize
  BY <1>1, OutputEndStep
<1>5. \A k \in 1..n : cs[k] \in Chunk
  BY <1>1
<1> HIDE DEF e
<1>6. Len(t) = n
  BY <1>1, <1>3
<1>7. ASSUME NEW k \in 1..n
      PROVE  /\ t[k] \in Entry /\ t[k].at \in 1..n /\ t[k].type # "CRC32"
             /\ t[k].type = "FILL" => t[k].fill \in [1..FillLen -> Cell]
  <2>1. t[k] \in Entry
    BY <1>2, <1>6
  <2>2. t[k].at = k /\ t[k].type = cs[k].type /\
          t[k].fill = IF cs[k].type = "FILL" THEN cs[k].data ELSE << >>
    BY <1>3
  <2>3. cs[k].type # "CRC32"
    BY <1>1 DEF Plain
  <2>4. cs[k].type = "FILL" => cs[k].data \in [1..FillLen -> Cell]
    BY <1>5 DEF Chunk
  <2> QED
    BY <2>1, <2>2, <2>3, <2>4
<1>8. n > 0 => t[1].off = 0
  BY <1>1, <1>3, <1>4
<1>9. ASSUME NEW k \in 1..n, k + 1 <= n
      PROVE  t[k + 1].off = t[k].off + t[k].size
  <2>1. k + 1 \in 1..n /\ (k + 1) - 1 = k
    BY <1>1, <1>9
  <2>2. t[k + 1].off = e[k] /\ t[k].off = e[k - 1]
        /\ t[k].size = cs[k].sz * BlockSize
    BY <1>3, <2>1
  <2> QED
    BY <2>2, <1>4
<1> HIDE DEF t, n
<1>10. /\ Len(t) \in Nat
       /\ \A k \in 1..Len(t) :
            /\ t[k] \in Entry /\ t[k].at \in 1..n /\ t[k].type # "CRC32"
            /\ t[k].type = "FILL" => t[k].fill \in [1..FillLen -> Cell]
       /\ Len(t) > 0 => t[1].off = 0
       /\ \A k \in 1..Len(t) :
            k + 1 <= Len(t) => t[k + 1].off = t[k].off + t[k].size
  BY <1>1, <1>6, <1>7, <1>8, <1>9
<1> QED
  BY <1>10 DEF t, n

(* The loop of read() starts at the entry that holds the offset and takes   *)
(* one entry after the other.                                              *)
LEMMA ReadLoop ==
  ASSUME NEW g, Sound(g), ~g.raised, g.mem.sparse, NEW p \in Nat, NEW size \in Nat,
         size > 0, g.mem.chunks # << >>
  PROVE  LET t == g.mem.chunks
             first == EntryAt(t, p)
         IN  /\ first \in 1..Len(t) /\ t[first].off <= p
             /\ \A l \in (first + 1)..Len(t) : t[l].off > p
             /\ \E turn :
                  /\ Read(g, p, size) = turn[Len(t)]
                  /\ turn[first - 1] =
                       [pos |-> p, to_go |-> size, cells |-> << >>, raised |-> FALSE]
                  /\ \A j \in first..Len(t) :
                       turn[j] = ReadEntry(g.file, turn[j - 1], t[j])
<1> DEFINE f == g.file
           t == g.mem.chunks
           r0 == [pos |-> p, to_go |-> size, cells |-> << >>, raised |-> FALSE]
           n == Len(t)
           first == EntryAt(t, p)
           lo == first - 1
           Solves(fn, k) ==
             fn = [j \in lo..k |-> IF j < first THEN r0
                                   ELSE ReadEntry(f, fn[j - 1], t[j])]
           turn == CHOOSE fn : Solves(fn, n)
           T == {i \in 0..(n - lo) : \E fn : Solves(fn, lo + i)}
<1>1. Read(g, p, size) = turn[n]
  BY DEF Read
<1>2. /\ n \in Nat
      /\ \A k \in 1..n :
           /\ t[k] \in Entry /\ t[k].at \in 1..Len(f.chunks)
           /\ t[k].type # "CRC32"
           /\ t[k].type = "FILL" => t[k].fill \in [1..FillLen -> Cell]
      /\ n > 0 => t[1].off = 0
      /\ \A k \in 1..n : k + 1 <= n => t[k + 1].off = t[k].off + t[k].size
  BY TableEntries
<1>3. n > 0
  <2>1. t \in Seq(Entry)
    BY DEF Sound, Handler, Memory
  <2> QED
    BY <2>1
<1>4. /\ first \in 1..n /\ t[first].off <= p
      /\ \A l \in (first + 1)..n : t[l].off > p
  <2>1. \A k \in 1..n : t[k].off \in Nat
    BY <1>2 DEF Entry
  <2>2. t[1].off <= p /\ n \in Nat \ {0}
    BY <1>2, <1>3
  <2> HIDE DEF t
  <2> QED
    BY <2>1, <2>2, EntryAtExists
<1> HIDE DEF first, n, t, r0
<1>5. lo \in Nat /\ lo + 1 = first /\ lo < first /\ n - lo \in Nat
      /\ lo + (n - lo) = n /\ lo \in lo..n /\ lo + 0 = lo
  <2>1. n \in Nat /\ first \in 1..n
    BY <1>2, <1>4
  <2> QED
    BY <2>1
<1>6. 0 \in T
  <2>1. Solves([j \in lo..lo |-> r0], lo + 0)
    BY <1>5
  <2> HIDE DEF Solves, lo
  <2>2. \E fn : Solves(fn, lo + 0)
    BY <2>1
  <2> QED
    BY <2>2, <1>5
<1>7. ASSUME NEW i \in 0..(n - lo), i \in T, i + 1 <= n - lo
      PROVE  i + 1 \in T
  <2>1. PICK fn : Solves(fn, lo + i)
    BY <1>7
  <2> DEFINE k == lo + i
             gn == [j \in lo..(k + 1) |->
                      IF j = k + 1 THEN ReadEntry(f, fn[k], t[k + 1]) ELSE fn[j]]
  <2>2. k \in Nat /\ k + 1 \in Nat /\ ~(k + 1 < first) /\ lo <= k
        /\ lo + (i + 1) = k + 1
    BY <1>5
  <2>3. \A j \in lo..k :
          fn[j] = IF j < first THEN r0 ELSE ReadEntry(f, fn[j - 1], t[j])
    BY <2>1
  <2> HIDE DEF lo, k
  <2>4. \A j \in lo..k : gn[j] = fn[j]
    BY <2>2, <1>5
  <2>5. ASSUME NEW j \in lo..(k + 1)
        PROVE  gn[j] = IF j < first THEN r0 ELSE ReadEntry(f, gn[j - 1], t[j])
    <3>1. CASE j = k + 1
      <4>1. gn[j] = ReadEntry(f, fn[k], t[j]) /\ j - 1 = k /\ k \in lo..k
        BY <3>1, <2>2, <1>5
      <4>2. gn[k] = fn[k]
        BY <4>1, <2>4
      <4> HIDE DEF gn
      <4> QED
        BY <3>1, <4>1, <4>2, <2>2
    <3>2. CASE j \in lo..k
      <4>1. ~(j < first) => j - 1 \in lo..k
        BY <3>2, <1>5, <2>2
      <4> HIDE DEF gn
      <4> QED
        BY <3>2, <4>1, <2>3, <2>4
    <3> QED
      BY <3>1, <3>2, <2>2, <1>5
  <2>6. Solves(gn, k + 1)
    BY <2>5 DEF lo
  <2> HIDE DEF Solves, gn
  <2>7. \E x : Solves(x, lo + (i + 1))
    BY <2>6, <2>2
  <2> QED
    BY <2>7, <1>7
<1>8. n - lo \in T
  <2> HIDE DEF T, lo
  <2>1. \A i \in 0..(n - lo) : i \in T /\ i + 1 <= n - lo => i + 1 \in T
    BY <1>7
  <2>2. \A i \in 0..(n - lo) : i \in T
    BY <1>5, <1>6, <2>1, IntervalInduction
  <2> QED
    BY <2>2, <1>5
<1>9. Solves(turn, n)
  <2> HIDE DEF Solves, lo
  <2>1. \E fn : Solves(fn, n)
    BY <1>5, <1>8
  <2> QED
    BY <2>1
<1>10. \A j \in lo..n :
         turn[j] = IF j < first THEN r0 ELSE ReadEntry(f, turn[j - 1], t[j])
  BY <1>9
<1> HIDE DEF turn, Solves, T
<1>11. turn[first - 1] = r0
  BY <1>4, <1>5, <1>10
<1>12. \A j \in first..n : turn[j] = ReadEntry(f, turn[j - 1], t[j])
  BY <1>4, <1>5, <1>10
<1> HIDE DEF lo
<1> QED
  BY <1>1, <1>4, <1>11, <1>12 DEF first, n, t, r0

(* Whatever read() is asked for, it returns cells and a cursor.            *)
LEMMA ReadType ==
  ASSUME NEW g, Sound(g), ~g.raised, NEW p \in Nat, NEW size \in Nat
  PROVE  Read(g, p, size) \in Reader
<1> DEFINE f == g.file
           t == g.mem.chunks
           r0 == [pos |-> p, to_go |-> size, cells |-> << >>, raised |-> FALSE]
<1>1. r0 \in Reader /\ r0.pos = p /\ f \in File
  BY DEF Reader, Sound, Handler
<1>2. CASE ~g.mem.sparse
  <2> DEFINE got == SubSeq(f.bytes, p + 1, Least(p + size, Len(f.bytes)))
  <2>1. f.bytes \in Seq(Cell) /\ Len(f.bytes) \in Nat
    BY <1>1 DEF File
  <2>2. got \in Seq(Cell)
    <3>1. Least(p + size, Len(f.bytes)) \in Int
          /\ Least(p + size, Len(f.bytes)) <= Len(f.bytes)
      BY <2>1 DEF Least
    <3> QED
      BY <2>1, <3>1, PartType
  <2>3. Read(g, p, size) = [r0 EXCEPT !.pos = p + Len(got), !.cells = got]
    BY <1>2 DEF Read
  <2> HIDE DEF got, r0
  <2>4. p + Len(got) \in Nat
    BY <2>2
  <2> QED
    BY <1>1, <2>2, <2>3, <2>4 DEF Reader
<1>3. CASE g.mem.sparse /\ size = 0
  <2>1. Read(g, p, size) = r0
    BY <1>3 DEF Read
  <2> HIDE DEF r0
  <2> QED
    BY <2>1, <1>1
<1>4. CASE g.mem.sparse /\ size > 0 /\ t = << >>
  <2>1. Read(g, p, size) = [r0 EXCEPT !.raised = TRUE]
    BY <1>4 DEF Read
  <2> HIDE DEF r0
  <2> QED
    BY <2>1, <1>1 DEF Reader
<1>5. CASE g.mem.sparse /\ size > 0 /\ t # << >>
  <2> DEFINE n == Len(t)
             first == EntryAt(t, p)
  <2>1. PICK turn :
          /\ Read(g, p, size) = turn[n]
          /\ turn[first - 1] = r0
          /\ \A j \in first..n : turn[j] = ReadEntry(f, turn[j - 1], t[j])
    BY <1>5, ReadLoop
  <2>2. /\ n \in Nat
        /\ \A k \in 1..n :
             /\ t[k] \in Entry /\ t[k].at \in 1..Len(f.chunks)
             /\ t[k].type # "CRC32"
             /\ t[k].type = "FILL" => t[k].fill \in [1..FillLen -> Cell]
        /\ \A k \in 1..n : k + 1 <= n => t[k + 1].off = t[k].off + t[k].size
    BY <1>5, TableEntries
  <2>3. first \in 1..n /\ t[first].off <= p
    BY <1>5, ReadLoop
  <2> HIDE DEF first, n, t, r0
  <2> DEFINE lo == first - 1
             Good(j) == /\ turn[j] \in Reader
                        /\ j + 1 <= n /\ turn[j].to_go > 0 =>
                             t[j + 1].off <= turn[j].pos
             U == {i \in 0..(n - lo) : Good(lo + i)}
  <2>4. /\ lo \in Nat /\ lo + 1 = first /\ lo < first /\ n - lo \in Nat
        /\ lo + (n - lo) = n /\ lo \in lo..n /\ lo + 0 = lo /\ first \in Int
    <3>1. n \in Nat /\ first \in 1..n
      BY <2>2, <2>3
    <3> QED
      BY <3>1
  <2> HIDE DEF Good, U
  <2>5. 0 \in U
    <3>1. turn[lo] = r0
      BY <2>1
    <3> HIDE DEF lo
    <3>2. turn[lo] \in Reader /\ t[lo + 1].off <= turn[lo].pos
      BY <3>1, <1>1, <2>3, <2>4
    <3> QED
      BY <3>1, <3>2, <2>4 DEF U, Good
  <2>6. ASSUME NEW i \in 0..(n - lo), i \in U, i + 1 <= n - lo
         PROVE  i + 1 \in U
    <3> DEFINE k == lo + i
    <3>1. /\ k \in lo..n /\ k + 1 \in first..n
          /\ (k + 1) - 1 = k /\ k + 1 \in 1..n /\ lo + (i + 1) = k + 1
      BY <2>6, <2>2, <2>4
    <3>2. Good(k)
      BY <2>6 DEF U
    <3> HIDE DEF k, lo
    <3>3. turn[k + 1] = ReadEntry(f, turn[k], t[k + 1])
      BY <2>1, <3>1
    <3>4. turn[k] \in Reader /\ (turn[k].to_go > 0 => t[k + 1].off <= turn[k].pos)
      BY <3>1, <3>2 DEF Good
    <3>5. /\ turn[k + 1] \in Reader
          /\ turn[k + 1].to_go > 0 =>
               turn[k + 1].pos = t[k + 1].off + t[k + 1].size
      BY <1>1, <2>2, <3>1, <3>3, <3>4, ReadEntryType
    <3>6. (k + 1) + 1 <= n => t[(k + 1) + 1].off = t[k + 1].off + t[k + 1].size
      BY <2>2, <3>1
    <3>7. t[k + 1].off + t[k + 1].size \in Nat
      BY <2>2, <3>1 DEF Entry
    <3>8. Good(k + 1)
      BY <3>5, <3>6, <3>7 DEF Good
    <3> QED
      BY <3>1, <3>8, <2>6 DEF U
  <2>7. n - lo \in U
    <3> HIDE DEF lo
    <3>1. \A i \in 0..(n - lo) : i \in U /\ i + 1 <= n - lo => i + 1 \in U
      BY <2>6
    <3>2. \A i \in 0..(n - lo) : i \in U
      BY <2>4, <2>5, <3>1, IntervalInduction
    <3> QED
      BY <3>2, <2>4
  <2>8. turn[n] \in Reader
    <3> HIDE DEF lo
    <3> QED
      BY <2>4, <2>7 DEF U, Good
  <2> QED
    BY <2>1, <2>8
<1> QED
  BY <1>2, <1>3, <1>4, <1>5
(* The hypotheses.  A RAW chunk that a failed write left short is read as  *)
(* far as it goes, and CRC32 chunks have no entry to read.                 *)
WholeChunk(c) == c.type = "RAW" => Len(c.data) = c.sz * BlockSize
Whole(f) == \A i \in 1..Len(f.chunks) : WholeChunk(f.chunks[i])
-----------------------------------------------------------------------------
(* What truncate and read are to do, on a flat sequence of cells.          *)
Resized(s, n) ==
  IF n <= Len(s) THEN SubSeq(s, 1, n)
  ELSE s \o [i \in 1..(n - Len(s)) |-> Zero]
Piece(s, p, n) == SubSeq(s, p + 1, IF p + n <= Len(s) THEN p + n ELSE Len(s))

-----------------------------------------------------------------------------
(* The content of a sparse file, chunk by chunk.                           *)

ChunkLen(c) == c.sz * BlockSize

(* The cells a chunk stands for.                                           *)
ChunkCells(c) == [q \in 1..ChunkLen(c) |-> CellOf(c, q - 1)]

LEMMA ChunkLenType ==
  ASSUME NEW c \in Chunk
  PROVE  ChunkLen(c) \in Nat
BY ChunkOutput DEF ChunkLen

LEMMA PatternIndex ==
  ASSUME NEW q \in Int
  PROVE  q % FillLen \in 0..(FillLen - 1)
BY SizesAssumption

LEMMA CellOfType ==
  ASSUME NEW c \in Chunk, NEW q \in Nat
  PROVE  CellOf(c, q) \in Cell
<1>1. c.data \in Seq(Cell) /\ (c.type = "FILL" => Len(c.data) = FillLen)
  BY DEF Chunk
<1>2. CASE c.type = "RAW"
  BY <1>1, <1>2, ZeroAssumption DEF CellOf
<1>3. CASE c.type = "FILL"
  <2>1. (q % FillLen) + 1 \in 1..FillLen
    BY PatternIndex, SizesAssumption
  <2>2. CellOf(c, q) = c.data[(q % FillLen) + 1]
    BY <1>3 DEF CellOf
  <2> QED
    BY <1>1, <1>3, <2>1, <2>2
<1>4. CASE c.type \notin {"RAW", "FILL"}
  BY <1>4, ZeroAssumption DEF CellOf
<1> QED
  BY <1>2, <1>3, <1>4

LEMMA ChunkCellsType ==
  ASSUME NEW c \in Chunk
  PROVE  ChunkCells(c) \in Seq(Cell) /\ Len(ChunkCells(c)) = ChunkLen(c)
<1>1. ChunkLen(c) \in Nat
  BY ChunkLenType
<1>2. \A q \in 1..ChunkLen(c) : CellOf(c, q - 1) \in Cell
  <2>1. \A q \in 1..ChunkLen(c) : q - 1 \in Nat
    BY <1>1
  <2> QED
    BY <2>1, CellOfType
<1> QED
  BY <1>1, <1>2 DEF ChunkCells

(* A sequence is the concatenation of two when it holds the cells of each. *)
LEMMA ConcatIs ==
  ASSUME NEW s \in Seq(Cell), NEW t \in Seq(Cell), NEW u \in Seq(Cell),
         Len(u) = Len(s) + Len(t),
         \A i \in 1..Len(s) : s[i] = u[i],
         \A i \in 1..Len(t) : u[Len(s) + i] = t[i]
  PROVE  u = s \o t
<1>1. Len(s) \in Nat /\ Len(t) \in Nat
  OBVIOUS
<1>2. s \o t \in Seq(Cell) /\ Len(s \o t) = Len(u)
  OBVIOUS
<1>3. ASSUME NEW i \in 1..Len(u)
      PROVE  (s \o t)[i] = u[i]
  <2>1. CASE i <= Len(s)
    BY <2>1, <1>1
  <2>2. CASE ~(i <= Len(s))
    <3>1. i - Len(s) \in 1..Len(t) /\ Len(s) + (i - Len(s)) = i
      BY <2>2, <1>1
    <3>2. (s \o t)[i] = t[i - Len(s)]
      BY <2>2, <1>1
    <3>3. u[Len(s) + (i - Len(s))] = t[i - Len(s)]
      BY <3>1
    <3> QED
      BY <3>1, <3>2, <3>3
  <2> QED
    BY <2>1, <2>2
<1> QED
  BY <1>2, <1>3

(* The cells of a part of a sequence.                                      *)
LEMMA PartCells ==
  ASSUME NEW s \in Seq(Cell), NEW lo \in Nat, NEW hi \in Nat,
         lo <= hi, hi <= Len(s)
  PROVE  /\ SubSeq(s, lo + 1, hi) \in Seq(Cell)
         /\ Len(SubSeq(s, lo + 1, hi)) = hi - lo
         /\ \A i \in 1..(hi - lo) : SubSeq(s, lo + 1, hi)[i] = s[lo + i]
         /\ SubSeq(s, lo + 1, hi) = [i \in 1..(hi - lo) |-> s[lo + i]]
<1> DEFINE u == SubSeq(s, lo + 1, hi)
<1>1. CASE lo = hi
  <2>1. u = << >> /\ hi - lo = 0
    BY <1>1
  <2>2. [i \in 1..0 |-> s[lo + i]] = << >>
    OBVIOUS
  <2>3. << >> \in Seq(Cell) /\ Len(<< >>) = 0 /\ 1..0 = {}
    OBVIOUS
  <2> HIDE DEF u
  <2>4. u \in Seq(Cell) /\ Len(u) = hi - lo /\ u = [i \in 1..(hi - lo) |-> s[lo + i]]
    BY <2>1, <2>2, <2>3
  <2>5. \A i \in 1..(hi - lo) : u[i] = s[lo + i]
    BY <2>1, <2>3
  <2> QED
    BY <2>4, <2>5 DEF u
<1>2. CASE lo # hi
  <2>1. u \in Seq(Cell) /\ Len(u) = hi - lo
    BY <1>2
  <2>2. \A i \in 1..(hi - lo) : u[i] = s[lo + i]
    BY <1>2
  <2> HIDE DEF u
  <2>3. u = [i \in 1..(hi - lo) |-> u[i]]
    BY <2>1
  <2> QED
    BY <2>1, <2>2, <2>3 DEF u
<1> QED
  BY <1>1, <1>2

(* Two adjacent parts of a sequence.                                       *)
LEMMA PartsConcat ==
  ASSUME NEW s \in Seq(Cell), NEW lo \in Nat, NEW mid \in Nat, NEW hi \in Nat,
         lo <= mid, mid <= hi, hi <= Len(s)
  PROVE  SubSeq(s, lo + 1, mid) \o SubSeq(s, mid + 1, hi) = SubSeq(s, lo + 1, hi)
<1> DEFINE v == SubSeq(s, lo + 1, mid)
           t == SubSeq(s, mid + 1, hi)
           u == SubSeq(s, lo + 1, hi)
<1>1. Len(s) \in Nat /\ mid <= Len(s) /\ lo <= hi
  OBVIOUS
<1>2. /\ v \in Seq(Cell) /\ Len(v) = mid - lo
      /\ \A i \in 1..(mid - lo) : v[i] = s[lo + i]
  BY <1>1, PartCells
<1>3. /\ t \in Seq(Cell) /\ Len(t) = hi - mid
      /\ \A i \in 1..(hi - mid) : t[i] = s[mid + i]
  BY <1>1, PartCells
<1>4. /\ u \in Seq(Cell) /\ Len(u) = hi - lo
      /\ \A i \in 1..(hi - lo) : u[i] = s[lo + i]
  BY <1>1, PartCells
<1> HIDE DEF v, t, u
<1>5. Len(u) = Len(v) + Len(t)
  BY <1>2, <1>3, <1>4
<1>6. ASSUME NEW i \in 1..Len(v)
      PROVE  v[i] = u[i]
  <2>1. i \in 1..(mid - lo) /\ i \in 1..(hi - lo)
    BY <1>2
  <2> QED
    BY <2>1, <1>2, <1>4
<1>7. ASSUME NEW i \in 1..Len(t)
      PROVE  u[Len(v) + i] = t[i]
  <2>1. i \in 1..(hi - mid) /\ (mid - lo) + i \in 1..(hi - lo)
        /\ lo + ((mid - lo) + i) = mid + i
    BY <1>3
  <2> QED
    BY <2>1, <1>2, <1>3, <1>4
<1>8. u = v \o t
  BY <1>2, <1>3, <1>4, <1>5, <1>6, <1>7, ConcatIs
<1> QED
  BY <1>8 DEF u, v, t

(* Each cell of the image is in the output of a chunk.                     *)
LEMMA CellHasChunk ==
  ASSUME NEW cs \in Seq(Chunk), NEW p \in 1..OutputEnd(cs)[Len(cs)]
  PROVE  \E k \in 1..Len(cs) : OutputEnd(cs)[k - 1] < p /\ p <= OutputEnd(cs)[k]
<1> DEFINE e == OutputEnd(cs)
           n == Len(cs)
           S == {k \in 0..n : p <= e[k]}
<1>1. n \in Nat /\ \A k \in 0..n : e[k] \in Nat
  BY OutputEndType
<1>2. e[0] = 0
  BY OutputEndStep
<1> HIDE DEF e
<1>3. n \in S
  BY <1>1 DEF e
<1>4. PICK k \in S : \A j \in S : k <= j
  <2>1. S \in SUBSET Nat
    BY <1>1
  <2> HIDE DEF S
  <2> QED
    BY <1>3, <2>1, NatLeast
<1>5. k # 0 /\ p \in Nat \ {0}
  BY <1>1, <1>2, <1>4 DEF e
<1>6. k \in 1..n /\ k - 1 \in 0..n
  BY <1>1, <1>4, <1>5
<1>7. ~(p <= e[k - 1])
  BY <1>1, <1>4, <1>6
<1> QED
  BY <1>1, <1>4, <1>5, <1>6, <1>7 DEF e

(* Only one chunk's output has it.                                         *)
LEMMA CellHasOneChunk ==
  ASSUME NEW cs \in Seq(Chunk), NEW p \in Nat,
         NEW j \in 1..Len(cs), OutputEnd(cs)[j - 1] < p,
         NEW k \in 1..Len(cs), p <= OutputEnd(cs)[k]
  PROVE  j <= k
<1> DEFINE e == OutputEnd(cs)
<1>1. SUFFICES ASSUME ~(j <= k) PROVE FALSE
  OBVIOUS
<1>2. Len(cs) \in Nat /\ k \in 0..Len(cs) /\ j - 1 \in k..Len(cs) /\ j - 1 \in 0..Len(cs)
  BY <1>1
<1>3. e[k] <= e[j - 1]
  BY <1>2, OutputEndMonotone
<1>4. e[k] \in Nat /\ e[j - 1] \in Nat
  BY <1>2, OutputEndType
<1> HIDE DEF e
<1> QED
  BY <1>3, <1>4 DEF e

(* The holder CHOOSE picks in Content.                                     *)
LEMMA ContentCell ==
  ASSUME NEW f \in File, f.sparse, NEW k \in 1..Len(f.chunks),
         NEW q \in 1..ChunkLen(f.chunks[k])
  PROVE  LET p == OutputEnd(f.chunks)[k - 1] + q
         IN  /\ p \in 1..OutputEnd(f.chunks)[Len(f.chunks)]
             /\ Content(f)[p] = CellOf(f.chunks[k], q - 1)
<1> DEFINE cs == f.chunks
           n == Len(cs)
           e == OutputEnd(cs)
           p == e[k - 1] + q
           holder == CHOOSE i \in 1..n : e[i - 1] < p /\ p <= e[i]
<1>1. cs \in Seq(Chunk) /\ n \in Nat /\ k - 1 \in 0..n /\ k \in 0..n /\ n \in k..n
  BY DEF File
<1>2. e[k - 1] \in Nat /\ e[k] \in Nat /\ e[n] \in Nat
  BY <1>1, OutputEndType
<1>3. e[k] = e[k - 1] + ChunkLen(cs[k])
  BY <1>1, OutputEndStep DEF ChunkLen
<1>4. e[k] <= e[n]
  BY <1>1, OutputEndMonotone
<1>5. ChunkLen(cs[k]) \in Nat
  BY <1>1, ChunkLenType
<1>6. Content(f) = [x \in 1..e[n] |->
                      LET hx == CHOOSE i \in 1..n : e[i - 1] < x /\ x <= e[i]
                      IN  CellOf(cs[hx], x - 1 - e[hx - 1])]
  BY DEF Content
<1> HIDE DEF e, n
<1>7. /\ p \in 1..e[n] /\ p \in Nat /\ e[k - 1] < p /\ p <= e[k]
      /\ p - 1 - e[k - 1] = q - 1
  BY <1>2, <1>3, <1>4, <1>5 DEF n
<1>8. holder \in 1..n /\ e[holder - 1] < p /\ p <= e[holder]
  BY <1>7 DEF n
<1> HIDE DEF holder, p
<1>9. holder = k
  <2>1. holder <= k
    BY <1>1, <1>7, <1>8, CellHasOneChunk DEF e, n
  <2>2. k <= holder
    BY <1>1, <1>7, <1>8, CellHasOneChunk DEF e, n
  <2> QED
    BY <2>1, <2>2, <1>1, <1>8 DEF n
<1>10. Content(f)[p] = CellOf(cs[holder], p - 1 - e[holder - 1])
  BY <1>6, <1>7 DEF holder
<1> QED
  BY <1>7, <1>9, <1>10 DEF p, n, e

LEMMA ContentType ==
  ASSUME NEW f \in File
  PROVE  /\ Content(f) \in Seq(Cell)
         /\ f.sparse => Len(Content(f)) = OutputEnd(f.chunks)[Len(f.chunks)]
<1> DEFINE cs == f.chunks
           n == Len(cs)
           e == OutputEnd(cs)
<1>1. CASE ~f.sparse
  BY <1>1 DEF Content, File
<1>2. CASE f.sparse
  <2>1. cs \in Seq(Chunk) /\ n \in Nat
    BY DEF File
  <2>2. \A k \in 0..n : e[k] \in Nat
    BY <2>1, OutputEndType
  <2>3. DOMAIN Content(f) = 1..e[n]
    BY <1>2 DEF Content
  <2>4. Content(f) = [p \in 1..e[n] |-> Content(f)[p]]
    BY <1>2 DEF Content
  <2>5. ASSUME NEW p \in 1..e[n]
        PROVE  Content(f)[p] \in Cell
    <3>1. PICK k \in 1..n : e[k - 1] < p /\ p <= e[k]
      BY <2>1, CellHasChunk
    <3>2. e[k] = e[k - 1] + ChunkLen(cs[k])
      BY <2>1, OutputEndStep DEF ChunkLen
    <3>3. k - 1 \in 0..n /\ k \in 0..n /\ cs[k] \in Chunk
      BY <2>1
    <3>4. e[k - 1] \in Nat /\ e[k] \in Nat /\ ChunkLen(cs[k]) \in Nat
      BY <2>2, <3>3, ChunkLenType
    <3> DEFINE q == p - e[k - 1]
    <3> HIDE DEF e
    <3>5. q \in 1..ChunkLen(cs[k]) /\ e[k - 1] + q = p /\ q - 1 \in Nat
      BY <3>1, <3>2, <3>4
    <3> HIDE DEF q
    <3>6. Content(f)[p] = CellOf(cs[k], q - 1)
      BY <1>2, <3>5, ContentCell DEF e
    <3> QED
      BY <3>3, <3>5, <3>6, CellOfType
  <2>6. e[n] \in Nat
    BY <2>1, <2>2
  <2> DEFINE s == Content(f)
             m == e[n]
  <2> HIDE DEF s, m
  <2>7. s = [p \in 1..m |-> s[p]] /\ \A p \in 1..m : s[p] \in Cell
    BY <2>4, <2>5 DEF s, m
  <2>8. m \in Nat
    BY <2>6 DEF m
  <2>9. s \in Seq(Cell) /\ Len(s) = m
    BY <2>7, <2>8
  <2> QED
    BY <2>9 DEF s, m
<1> QED
  BY <1>1, <1>2

(* Files that agree on their first k chunks agree on the cells of these.   *)
LEMMA ContentPrefix ==
  ASSUME NEW f \in File, f.sparse, NEW g \in File, g.sparse,
         NEW k \in Nat, k <= Len(f.chunks), k <= Len(g.chunks),
         \A i \in 1..k : f.chunks[i] = g.chunks[i]
  PROVE  \A p \in 1..OutputEnd(f.chunks)[k] : Content(g)[p] = Content(f)[p]
<1> DEFINE cs == f.chunks
           ds == g.chunks
           c == OutputEnd(cs)
           d == OutputEnd(ds)
<1>1. /\ cs \in Seq(Chunk) /\ ds \in Seq(Chunk) /\ Len(cs) \in Nat /\ Len(ds) \in Nat
  BY DEF File
<1>2. \A i \in 0..k : c[i] = d[i]
  BY <1>1, OutputEndPrefix
<1>3. /\ \A i \in 0..Len(cs) : c[i] \in Nat
      /\ \A i \in 1..Len(cs) : c[i] = c[i - 1] + ChunkLen(cs[i])
      /\ c[k] <= c[Len(cs)]
  <2>1. k \in 0..Len(cs) /\ Len(cs) \in k..Len(cs)
    BY <1>1
  <2> QED
    BY <1>1, <2>1, OutputEndType, OutputEndStep, OutputEndMonotone DEF ChunkLen
<1>4. ASSUME NEW p \in 1..c[k]
      PROVE  Content(g)[p] = Content(f)[p]
  <2>1. k \in 0..Len(cs) /\ c[k] \in Nat /\ c[Len(cs)] \in Nat
    BY <1>1, <1>3
  <2>2. p \in 1..c[Len(cs)] /\ p \in Nat
    BY <1>3, <2>1
  <2>3. PICK i \in 1..Len(cs) : c[i - 1] < p /\ p <= c[i]
    BY <1>1, <2>2, CellHasChunk
  <2>4. i <= k
    <3>1. k # 0
      BY <2>1, OutputEndStep, <1>1
    <3>2. k \in 1..Len(cs) /\ p <= c[k]
      BY <2>1, <3>1
    <3> QED
      BY <1>1, <2>2, <2>3, <3>2, CellHasOneChunk
  <2>5. i \in 1..k /\ i \in 1..Len(ds) /\ i - 1 \in 0..k /\ i \in 0..Len(cs)
        /\ i - 1 \in 0..Len(cs) /\ ds[i] = cs[i]
    BY <1>1, <2>3, <2>4
  <2> DEFINE q == p - c[i - 1]
  <2>6. q \in 1..ChunkLen(cs[i]) /\ c[i - 1] + q = p
    <3> HIDE DEF c
    <3>1. c[i - 1] \in Nat /\ c[i] \in Nat
      BY <1>3, <2>5
    <3>2. cs[i] \in Chunk
      BY <1>1
    <3>3. ChunkLen(cs[i]) \in Nat
      BY <3>2, ChunkLenType
    <3>4. c[i] = c[i - 1] + ChunkLen(cs[i])
      BY <1>3, <2>3
    <3> HIDE DEF cs
    <3> QED
      BY <2>2, <2>3, <3>1, <3>3, <3>4
  <2> HIDE DEF q, c, d
  <2>7. Content(f)[p] = CellOf(cs[i], q - 1)
    BY <2>6, ContentCell DEF c
  <2>8. q \in 1..ChunkLen(ds[i]) /\ d[i - 1] + q = p
    BY <1>2, <2>5, <2>6
  <2>9. Content(g)[p] = CellOf(ds[i], q - 1)
    BY <2>5, <2>8, ContentCell DEF d
  <2> QED
    BY <2>5, <2>7, <2>9
<1> QED
  BY <1>4

(* The content of the first k chunks, with one chunk behind them or none.  *)
LEMMA ContentOfFirst ==
  ASSUME NEW f \in File, f.sparse, NEW g \in File, g.sparse,
         NEW k \in 0..Len(f.chunks), Len(g.chunks) = k,
         \A i \in 1..k : g.chunks[i] = f.chunks[i]
  PROVE  Content(g) = SubSeq(Content(f), 1, OutputEnd(f.chunks)[k])
<1> DEFINE e == OutputEnd(f.chunks)
           n == Len(f.chunks)
<1>1. f.chunks \in Seq(Chunk) /\ g.chunks \in Seq(Chunk) /\ n \in Nat /\ n \in k..n
  BY DEF File
<1>2. e[k] \in Nat /\ e[n] \in Nat /\ e[k] <= e[n]
  BY <1>1, OutputEndType, OutputEndMonotone
<1>3. OutputEnd(g.chunks)[k] = e[k]
  <2>1. k \in Nat /\ k <= Len(f.chunks) /\ k <= Len(g.chunks) /\ k \in 0..k
    OBVIOUS
  <2> QED
    BY <1>1, <2>1, OutputEndPrefix
<1> HIDE DEF e, n
<1>4. \A p \in 1..e[k] : Content(g)[p] = Content(f)[p]
  BY <1>1, ContentPrefix DEF e, n
<1>5. Content(g) \in Seq(Cell) /\ Len(Content(g)) = e[k]
  BY <1>3, ContentType
<1>6. Content(f) \in Seq(Cell) /\ Len(Content(f)) = e[n]
  BY ContentType DEF e, n
<1>7. Content(g) = SubSeq(Content(f), 1, e[k])
  BY <1>2, <1>4, <1>5, <1>6
<1> QED
  BY <1>7 DEF e

LEMMA ContentOfFirstAnd ==
  ASSUME NEW f \in File, f.sparse, NEW g \in File, g.sparse,
         NEW k \in 0..Len(f.chunks), NEW c \in Chunk, Len(g.chunks) = k + 1,
         \A i \in 1..k : g.chunks[i] = f.chunks[i],
         g.chunks[k + 1] = c
  PROVE  Content(g) = SubSeq(Content(f), 1, OutputEnd(f.chunks)[k]) \o ChunkCells(c)
<1> DEFINE e == OutputEnd(f.chunks)
           n == Len(f.chunks)
           first == SubSeq(Content(f), 1, e[k])
<1>1. f.chunks \in Seq(Chunk) /\ g.chunks \in Seq(Chunk) /\ n \in Nat /\ n \in k..n
  BY DEF File
<1>2. e[k] \in Nat /\ e[n] \in Nat /\ e[k] <= e[n]
  BY <1>1, OutputEndType, OutputEndMonotone
<1>3. OutputEnd(g.chunks)[k] = e[k]
  <2>1. k \in Nat /\ k <= Len(f.chunks) /\ k <= Len(g.chunks) /\ k \in 0..k
    OBVIOUS
  <2> QED
    BY <1>1, <2>1, OutputEndPrefix
<1>4. OutputEnd(g.chunks)[k + 1] = e[k] + ChunkLen(c)
  BY <1>1, OutputEndAfter DEF ChunkLen
<1> HIDE DEF e, n
<1>5. \A p \in 1..e[k] : Content(g)[p] = Content(f)[p]
  BY <1>1, ContentPrefix DEF e, n
<1>6. Content(g) \in Seq(Cell) /\ Len(Content(g)) = e[k] + ChunkLen(c)
  BY <1>4, ContentType
<1>7. Content(f) \in Seq(Cell) /\ Len(Content(f)) = e[n]
  BY ContentType DEF e, n
<1>8. ChunkCells(c) \in Seq(Cell) /\ Len(ChunkCells(c)) = ChunkLen(c) /\ ChunkLen(c) \in Nat
  BY ChunkCellsType, ChunkLenType
<1>9. \A q \in 1..ChunkLen(c) : Content(g)[e[k] + q] = ChunkCells(c)[q]
  <2>1. k + 1 \in 1..Len(g.chunks) /\ (k + 1) - 1 = k
    BY <1>1
  <2>2. ASSUME NEW q \in 1..ChunkLen(c)
        PROVE  Content(g)[e[k] + q] = CellOf(c, q - 1)
    <3>1. q \in 1..ChunkLen(g.chunks[k + 1])
      OBVIOUS
    <3>2. Content(g)[OutputEnd(g.chunks)[(k + 1) - 1] + q] =
            CellOf(g.chunks[k + 1], q - 1)
      BY <2>1, <3>1, ContentCell
    <3> QED
      BY <1>3, <2>1, <3>2
  <2> QED
    BY <2>2 DEF ChunkCells
<1>10. /\ first \in Seq(Cell) /\ Len(first) = e[k]
       /\ \A p \in 1..e[k] : first[p] = Content(g)[p]
  BY <1>2, <1>5, <1>7
<1> HIDE DEF first
<1>11. Content(g) = first \o ChunkCells(c)
  <2> DEFINE t == ChunkCells(c)
             u == Content(g)
  <2>1. /\ t \in Seq(Cell) /\ Len(t) = ChunkLen(c) /\ u \in Seq(Cell)
        /\ Len(u) = Len(first) + Len(t)
        /\ \A i \in 1..Len(first) : first[i] = u[i]
        /\ \A i \in 1..Len(t) : u[Len(first) + i] = t[i]
    BY <1>6, <1>8, <1>9, <1>10
  <2> HIDE DEF t, u
  <2>2. u = first \o t
    BY <1>10, <2>1, ConcatIs
  <2> QED
    BY <2>2 DEF t, u
<1> QED
  BY <1>11 DEF first, e

-----------------------------------------------------------------------------
(* Appending extends the content.                                          *)

LEMMA OpenKeepsFile ==
  ASSUME NEW f
  PROVE  Open(f).file = f
BY DEF Open

(* The cells of the three kinds of chunk the appends write.                *)
LEMMA RawCells ==
  ASSUME NEW data \in Seq(Cell), Len(data) % BlockSize = 0
  PROVE  /\ RawChunk(data) \in Chunk /\ RawChunk(data).type # "CRC32"
         /\ WholeChunk(RawChunk(data))
         /\ ChunkCells(RawChunk(data)) = data
<1> DEFINE c == RawChunk(data)
           n == Len(data)
<1>1. n \in Nat /\ n \div BlockSize \in Nat /\ (n \div BlockSize) * BlockSize = n
  BY SizesAssumption, MultipleOfBlocks
<1>2. c = [type |-> "RAW", sz |-> n \div BlockSize, data |-> data]
  BY DEF RawChunk
<1> HIDE DEF c, n
<1>3. c \in Chunk /\ c.type # "CRC32"
  BY <1>1, <1>2 DEF Chunk, ChunkType
<1>4. ChunkLen(c) = n
  BY <1>1, <1>2 DEF ChunkLen
<1>5. WholeChunk(c)
  BY <1>1, <1>2 DEF WholeChunk, n
<1>6. \A q \in 1..n : CellOf(c, q - 1) = data[q]
  BY <1>1, <1>2 DEF CellOf, n
<1>7. ChunkCells(c) = data
  <2>1. data = [q \in 1..n |-> data[q]]
    BY DEF n
  <2> QED
    BY <1>4, <1>6, <2>1 DEF ChunkCells
<1> QED
  BY <1>3, <1>5, <1>7 DEF c

LEMMA FillCells ==
  ASSUME NEW fill \in [1..FillLen -> Cell], NEW size \in Nat, size % BlockSize = 0
  PROVE  /\ FillChunk(fill, size) \in Chunk /\ FillChunk(fill, size).type # "CRC32"
         /\ WholeChunk(FillChunk(fill, size))
         /\ ChunkCells(FillChunk(fill, size)) = Repeat(fill, size)
<1> DEFINE c == FillChunk(fill, size)
<1>1. size \div BlockSize \in Nat /\ (size \div BlockSize) * BlockSize = size
  BY SizesAssumption, MultipleOfBlocks
<1>2. c = [type |-> "FILL", sz |-> size \div BlockSize, data |-> fill]
  BY DEF FillChunk
<1>3. fill \in Seq(Cell) /\ Len(fill) = FillLen
  BY SizesAssumption
<1> HIDE DEF c
<1>4. c \in Chunk /\ c.type # "CRC32" /\ WholeChunk(c)
  BY <1>1, <1>2, <1>3 DEF Chunk, ChunkType, WholeChunk
<1>5. ChunkLen(c) = size
  BY <1>1, <1>2 DEF ChunkLen
<1>6. \A q \in 1..size : CellOf(c, q - 1) = fill[((q - 1) % FillLen) + 1]
  BY <1>2 DEF CellOf
<1>7. ChunkCells(c) = Repeat(fill, size)
  BY <1>5, <1>6 DEF ChunkCells, Repeat
<1> QED
  BY <1>4, <1>7 DEF c

LEMMA HoleCells ==
  ASSUME NEW size \in Nat, size % BlockSize = 0
  PROVE  /\ DontCareChunk(size) \in Chunk /\ DontCareChunk(size).type # "CRC32"
         /\ WholeChunk(DontCareChunk(size))
         /\ ChunkCells(DontCareChunk(size)) = [i \in 1..size |-> Zero]
<1> DEFINE c == DontCareChunk(size)
<1>1. size \div BlockSize \in Nat /\ (size \div BlockSize) * BlockSize = size
  BY SizesAssumption, MultipleOfBlocks
<1>2. c = [type |-> "DONT_CARE", sz |-> size \div BlockSize, data |-> << >>]
  BY DEF DontCareChunk
<1> HIDE DEF c
<1>3. c \in Chunk /\ c.type # "CRC32" /\ WholeChunk(c)
  BY <1>1, <1>2 DEF Chunk, ChunkType, WholeChunk
<1>4. ChunkLen(c) = size
  BY <1>1, <1>2 DEF ChunkLen
<1>5. ChunkCells(c) = [i \in 1..size |-> Zero]
  BY <1>2, <1>4 DEF ChunkCells, CellOf
<1> QED
  BY <1>3, <1>5 DEF c

(* A chunk after the last one adds its cells to the content.               *)
LEMMA AppendChunkFlat ==
  ASSUME NEW g, Sound(g), ~g.raised, g.mem.sparse, Whole(g.file),
         NEW c \in Chunk, c.type # "CRC32", WholeChunk(c)
  PROVE  /\ Whole(AppendChunk(g, c).file)
         /\ Content(AppendChunk(g, c).file) = Content(g.file) \o ChunkCells(c)
<1> DEFINE f == g.file
           cs == f.chunks
           n == Len(cs)
           d == AppendChunk(g, c).file
<1>1. f \in File /\ f.sparse /\ cs \in Seq(Chunk) /\ n \in Nat
  <2>1. f \in File /\ f.sparse
    BY SparseRemembered
  <2> QED
    BY <2>1 DEF File
<1>2. /\ Sound(AppendChunk(g, c)) /\ d.sparse /\ Len(d.chunks) = n + 1
      /\ \A i \in 1..n : d.chunks[i] = cs[i]
      /\ d.chunks[n + 1] = c
  BY AppendChunkSound
<1>3. d \in File
  BY <1>2 DEF Sound, Handler
<1>4. Whole(d)
  <2>1. ASSUME NEW i \in 1..(n + 1)
        PROVE  WholeChunk(d.chunks[i])
    <3>1. CASE i = n + 1
      BY <3>1, <1>2
    <3>2. CASE i \in 1..n
      BY <3>2, <1>2 DEF Whole
    <3> QED
      BY <3>1, <3>2, <1>1
  <2> QED
    BY <2>1, <1>2 DEF Whole
<1>5. Content(d) = SubSeq(Content(f), 1, OutputEnd(cs)[n]) \o ChunkCells(c)
  <2>1. n \in 0..Len(cs)
    BY <1>1
  <2> HIDE DEF d
  <2> QED
    BY <1>1, <1>2, <1>3, <2>1, ContentOfFirstAnd
<1>6. SubSeq(Content(f), 1, OutputEnd(cs)[n]) = Content(f)
  <2> DEFINE s == Content(f)
  <2>1. s \in Seq(Cell) /\ Len(s) = OutputEnd(cs)[n]
    BY <1>1, ContentType
  <2> HIDE DEF s
  <2>2. SubSeq(s, 1, Len(s)) = s
    BY <2>1
  <2> QED
    BY <2>1, <2>2 DEF s
<1> QED
  BY <1>4, <1>5, <1>6

(* A raw file is its content.                                              *)
LEMMA RawContent ==
  ASSUME NEW g, Sound(g), ~g.raised, ~g.mem.sparse, Whole(g.file),
         NEW bytes \in Seq(Cell)
  PROVE  LET d == Open([g.file EXCEPT !.bytes = bytes]).file
         IN  Whole(d) /\ Content(d) = bytes /\ Content(g.file) = g.file.bytes
<1> DEFINE d == [g.file EXCEPT !.bytes = bytes]
<1>1. g.file \in File /\ ~g.file.sparse
  BY SparseRemembered
<1>2. d.bytes = bytes /\ d.chunks = g.file.chunks /\ ~d.sparse
  BY <1>1 DEF File
<1>3. Open(d).file = d
  BY OpenKeepsFile
<1> HIDE DEF d
<1>4. Whole(d) /\ Content(d) = bytes /\ Content(g.file) = g.file.bytes
  BY <1>1, <1>2 DEF Whole, Content
<1> QED
  BY <1>3, <1>4 DEF d

LEMMA AppendBytesFlat ==
  ASSUME NEW g, Sound(g), ~g.raised, ~g.mem.sparse, Whole(g.file),
         NEW cells \in Seq(Cell)
  PROVE  /\ Whole(AppendBytes(g, cells).file)
         /\ Content(AppendBytes(g, cells).file) = Content(g.file) \o cells
<1> DEFINE new == g.file.bytes \o cells
<1>1. g.file \in File /\ g.file.bytes \in Seq(Cell)
  BY SparseRemembered
<1>2. new \in Seq(Cell)
  BY <1>1
<1>3. AppendBytes(g, cells) = Open([g.file EXCEPT !.bytes = new])
  BY <1>1 DEF AppendBytes, File
<1>4. Content(g.file) \o cells = new
  BY SparseRemembered DEF Content
<1> HIDE DEF new
<1>5. /\ Whole(Open([g.file EXCEPT !.bytes = new]).file)
      /\ Content(Open([g.file EXCEPT !.bytes = new]).file) = new
  BY <1>2, RawContent
<1> QED
  BY <1>3, <1>4, <1>5

LEMMA AppendRawFlat ==
  ASSUME NEW g, Sound(g), ~g.raised, Whole(g.file),
         NEW data \in Seq(Cell), Len(data) % BlockSize = 0
  PROVE  /\ Whole(AppendRaw(g, data).file)
         /\ Content(AppendRaw(g, data).file) = Content(g.file) \o data
<1>1. CASE g.mem.sparse
  <2>1. AppendRaw(g, data) = AppendChunk(g, RawChunk(data))
    BY <1>1 DEF AppendRaw
  <2> QED
    BY <1>1, <2>1, RawCells, AppendChunkFlat
<1>2. CASE ~g.mem.sparse
  <2>1. AppendRaw(g, data) = AppendBytes(g, data)
    BY <1>2 DEF AppendRaw
  <2> QED
    BY <1>2, <2>1, AppendBytesFlat
<1> QED
  BY <1>1, <1>2

LEMMA AppendFillFlat ==
  ASSUME NEW g, Sound(g), ~g.raised, Whole(g.file),
         NEW fill \in [1..FillLen -> Cell], NEW size \in Nat, size % BlockSize = 0
  PROVE  /\ Whole(AppendFill(g, fill, size).file)
         /\ Content(AppendFill(g, fill, size).file) =
              Content(g.file) \o Repeat(fill, size)
<1>1. CASE g.mem.sparse
  <2>1. AppendFill(g, fill, size) = AppendChunk(g, FillChunk(fill, size))
    BY <1>1 DEF AppendFill
  <2> QED
    BY <1>1, <2>1, FillCells, AppendChunkFlat
<1>2. CASE ~g.mem.sparse
  <2>1. AppendFill(g, fill, size) = AppendBytes(g, Repeat(fill, size))
    BY <1>2 DEF AppendFill
  <2>2. Repeat(fill, size) \in Seq(Cell)
    BY RepeatType
  <2> QED
    BY <1>2, <2>1, <2>2, AppendBytesFlat
<1> QED
  BY <1>1, <1>2

LEMMA ResizeBytesFlat ==
  ASSUME NEW g, Sound(g), ~g.raised, ~g.mem.sparse, Whole(g.file), NEW size \in Nat
  PROVE  /\ Whole(Open(ResizeBytes(g.file, size)).file)
         /\ Content(Open(ResizeBytes(g.file, size)).file) =
              Resized(Content(g.file), size)
<1> DEFINE old == g.file.bytes
           new == IF size <= Len(old) THEN SubSeq(old, 1, size)
                  ELSE old \o [i \in 1..(size - Len(old)) |-> Zero]
<1>1. g.file \in File /\ ~g.file.sparse /\ old \in Seq(Cell) /\ Len(old) \in Nat
  BY SparseRemembered
<1>2. ResizeBytes(g.file, size) = [g.file EXCEPT !.bytes = new]
  BY <1>1 DEF ResizeBytes, File
<1>3. new \in Seq(Cell)
  <2>1. CASE size <= Len(old)
    BY <2>1, <1>1
  <2>2. CASE ~(size <= Len(old))
    <3> DEFINE hole == [i \in 1..(size - Len(old)) |-> Zero]
    <3>1. hole \in Seq(Cell)
      BY <2>2, <1>1, ZeroAssumption
    <3> HIDE DEF hole
    <3>2. old \o hole \in Seq(Cell)
      BY <3>1, <1>1
    <3> QED
      BY <2>2, <3>2 DEF hole
  <2> QED
    BY <2>1, <2>2
<1>4. Content(g.file) = old
  BY <1>1 DEF Content
<1>5. Resized(old, size) = new
  BY DEF Resized
<1> HIDE DEF new, old
<1> QED
  BY <1>2, <1>3, <1>4, <1>5, RawContent

(* A hole of NUL cells.                                                    *)
LEMMA AppendDontCareFlat ==
  ASSUME NEW g, Sound(g), ~g.raised, Whole(g.file),
         NEW size \in Nat, g.mem.sparse => size % BlockSize = 0
  PROVE  /\ Whole(AppendDontCare(g, size).file)
         /\ Content(AppendDontCare(g, size).file) =
              Content(g.file) \o [i \in 1..size |-> Zero]
<1>1. CASE g.mem.sparse
  <2>1. AppendDontCare(g, size) = AppendChunk(g, DontCareChunk(size))
    BY <1>1 DEF AppendDontCare
  <2> QED
    BY <1>1, <2>1, HoleCells, AppendChunkFlat
<1>2. CASE ~g.mem.sparse
  <2> DEFINE s == Content(g.file)
             m == Len(g.file.bytes)
  <2>1. s = g.file.bytes /\ s \in Seq(Cell) /\ m \in Nat /\ m = Len(s)
    BY <1>2, SparseRemembered DEF Content
  <2>2. m + size \in Nat /\ m + size - m = size
    BY <2>1
  <2>3. AppendDontCare(g, size) = Open(ResizeBytes(g.file, m + size))
    BY <1>2, <2>1 DEF AppendDontCare
  <2> HIDE DEF m
  <2>4. /\ Whole(AppendDontCare(g, size).file)
        /\ Content(AppendDontCare(g, size).file) = Resized(s, m + size)
    BY <1>2, <2>2, <2>3, ResizeBytesFlat
  <2> HIDE DEF s
  <2>5. Resized(s, m + size) = s \o [i \in 1..size |-> Zero]
    <3>1. CASE size = 0
      <4>1. Resized(s, m + size) = SubSeq(s, 1, Len(s))
        BY <3>1, <2>1 DEF Resized
      <4>2. SubSeq(s, 1, Len(s)) = s /\ s \o << >> = s
        BY <2>1
      <4>3. [i \in 1..size |-> Zero] = << >>
        BY <3>1
      <4> QED
        BY <4>1, <4>2, <4>3
    <3>2. CASE size # 0
      <4>1. ~(m + size <= Len(s))
        BY <3>2, <2>1
      <4> QED
        BY <4>1, <2>1, <2>2 DEF Resized
    <3> QED
      BY <3>1, <3>2
  <2> QED
    BY <2>4, <2>5 DEF s
<1> QED
  BY <1>1, <1>2

-----------------------------------------------------------------------------
(* Truncating cuts the content, or fills it up with NUL.                   *)

(* A chunk cut in place stands for the cells before the cut.               *)
LEMMA ShortCells ==
  ASSUME NEW c \in Chunk, c.type # "CRC32", WholeChunk(c),
         NEW keep \in Nat, keep <= ChunkLen(c),
         NEW short \in Chunk, short.sz * BlockSize = keep, short.type = c.type,
         short.data = IF c.type = "RAW" THEN SubSeq(c.data, 1, Least(keep, Len(c.data)))
                      ELSE c.data
  PROVE  /\ WholeChunk(short)
         /\ Len(ChunkCells(short)) = keep
         /\ \A q \in 1..keep : ChunkCells(short)[q] = CellOf(c, q - 1)
<1>1. ChunkLen(short) = keep /\ ChunkLen(c) \in Nat
  BY ChunkLenType DEF ChunkLen
<1>2. c.data \in Seq(Cell)
  BY DEF Chunk
<1>3. c.type = "RAW" =>
        /\ short.data = SubSeq(c.data, 1, keep)
        /\ Len(short.data) = keep
        /\ keep <= Len(c.data)
  <2>1. CASE c.type = "RAW"
    <3> DEFINE data == c.data
               m == Len(data)
    <3>1. m = ChunkLen(c) /\ m \in Nat
      BY <2>1, <1>1 DEF WholeChunk, ChunkLen
    <3> HIDE DEF m
    <3>2. Least(keep, m) = keep
      BY <3>1 DEF Least
    <3>3. short.data = SubSeq(data, 1, keep)
      BY <2>1, <3>2 DEF m
    <3> HIDE DEF data
    <3>4. Len(SubSeq(data, 1, keep)) = keep
      BY <1>2, <3>1 DEF data, m
    <3> QED
      BY <3>1, <3>3, <3>4 DEF data, m
  <2> QED
    BY <2>1
<1>4. WholeChunk(short)
  BY <1>1, <1>3 DEF WholeChunk, ChunkLen
<1>5. Len(ChunkCells(short)) = keep
  BY <1>1, ChunkCellsType
<1>6. ASSUME NEW q \in 1..keep
      PROVE  ChunkCells(short)[q] = CellOf(c, q - 1)
  <2>1. ChunkCells(short)[q] = CellOf(short, q - 1)
    BY <1>1 DEF ChunkCells
  <2>2. CASE c.type = "RAW"
    <3> DEFINE data == c.data
               part == short.data
    <3> HIDE DEF data, part
    <3>1. data \in Seq(Cell) /\ part = SubSeq(data, 1, keep) /\ Len(part) = keep
          /\ keep <= Len(data)
      BY <2>2, <1>2, <1>3 DEF data, part
    <3>2. q - 1 < Len(part) /\ q - 1 < Len(data) /\ (q - 1) + 1 = q
          /\ part[q] = data[q]
      BY <3>1
    <3>3. CellOf(short, q - 1) = part[q] /\ CellOf(c, q - 1) = data[q]
      BY <2>2, <3>2 DEF CellOf, part, data
    <3> QED
      BY <2>1, <3>2, <3>3
  <2>3. CASE c.type # "RAW"
    <3>1. CellOf(short, q - 1) = CellOf(c, q - 1)
      BY <2>3 DEF CellOf
    <3> QED
      BY <2>1, <3>1
  <2> QED
    BY <2>2, <2>3
<1> QED
  BY <1>4, <1>5, <1>6

LEMMA CutFlat ==
  ASSUME NEW g, Sound(g), ~g.raised, g.mem.sparse, Whole(g.file),
         NEW size \in Nat, size % BlockSize = 0, size < g.mem.image_size
  PROVE  /\ Whole(Cut(g, size).file)
         /\ Content(Cut(g, size).file) = SubSeq(Content(g.file), 1, size)
<1> DEFINE f == g.file
           cs == f.chunks
           n == Len(cs)
           e == OutputEnd(cs)
           k == EntryAt(g.mem.chunks, size)
           keep == size - e[k - 1]
           short == [cs[k] EXCEPT
                       !.sz = keep \div BlockSize,
                       !.data = IF cs[k].type = "RAW"
                                THEN SubSeq(@, 1, Least(keep, Len(@))) ELSE @]
           d == Cut(g, size).file
<1>1. f \in File /\ f.sparse /\ cs \in Seq(Chunk) /\ n \in Nat /\ Plain(f)
  <2>1. f \in File /\ f.sparse /\ Plain(f)
    BY SparseRemembered DEF Sound
  <2> QED
    BY <2>1 DEF File
<1>2. /\ Sound(Cut(g, size))
      /\ k \in 1..n /\ e[k - 1] <= size /\ size < e[k]
      /\ d.sparse /\ Len(d.chunks) = (IF keep = 0 THEN k - 1 ELSE k)
      /\ \A i \in 1..(k - 1) : d.chunks[i] = cs[i]
      /\ keep # 0 => d.chunks[k] = short
      /\ short \in Chunk /\ short.sz * BlockSize = keep
  BY CutSound
<1>3. d \in File
  BY <1>2 DEF Sound, Handler
<1> DEFINE c == cs[k]
<1>4. c \in Chunk /\ c.type # "CRC32" /\ WholeChunk(c)
  BY <1>1, <1>2 DEF Plain, Whole
<1>5. short.type = c.type
      /\ short.data = IF c.type = "RAW" THEN SubSeq(c.data, 1, Least(keep, Len(c.data)))
                      ELSE c.data
  <2> HIDE DEF keep
  <2> QED
    BY <1>4 DEF Chunk
<1> HIDE DEF k, e, n, d, short
<1>6. /\ k - 1 \in 0..n /\ k \in 0..n /\ n \in k..n
      /\ e[k - 1] \in Nat /\ e[k] \in Nat /\ e[n] \in Nat /\ e[k] <= e[n]
      /\ e[k] = e[k - 1] + ChunkLen(c)
  <2>1. k - 1 \in 0..n /\ k \in 0..n /\ n \in k..n
    BY <1>1, <1>2
  <2>2. e[k - 1] \in Nat /\ e[k] \in Nat /\ e[n] \in Nat
    BY <1>1, <2>1, OutputEndType DEF e, n
  <2>3. e[k] <= e[n]
    BY <1>1, <2>1, OutputEndMonotone DEF e, n
  <2>4. e[k] = e[k - 1] + c.sz * BlockSize
    BY <1>1, <1>2, OutputEndStep DEF e, n
  <2> QED
    BY <2>1, <2>2, <2>3, <2>4 DEF ChunkLen
<1>7. keep \in Nat /\ keep <= ChunkLen(c) /\ e[k - 1] + keep = size
  <2>1. ChunkLen(c) \in Nat
    BY <1>4, ChunkLenType
  <2> HIDE DEF c
  <2> QED
    BY <2>1, <1>2, <1>6
<1> HIDE DEF keep
<1>8. /\ WholeChunk(short) /\ Len(ChunkCells(short)) = keep
      /\ \A q \in 1..keep : ChunkCells(short)[q] = CellOf(c, q - 1)
  <2> HIDE DEF c
  <2> QED
    BY <1>2, <1>4, <1>5, <1>7, ShortCells
<1>9. Whole(d)
  <2>1. ASSUME NEW i \in 1..Len(d.chunks)
        PROVE  WholeChunk(d.chunks[i])
    <3>1. i \in 1..(k - 1) \/ (i = k /\ keep # 0)
      BY <1>1, <1>2, <1>6
    <3>2. CASE i \in 1..(k - 1)
      <4>1. i \in 1..n
        BY <1>1, <1>2, <3>2
      <4> QED
        BY <3>2, <4>1, <1>2 DEF Whole, n
    <3>3. CASE i = k /\ keep # 0
      BY <3>3, <1>2, <1>8
    <3> QED
      BY <3>1, <3>2, <3>3
  <2> QED
    BY <2>1 DEF Whole
<1>10. CASE keep = 0
  <2>1. e[k - 1] = size
    BY <1>6, <1>7, <1>10
  <2> DEFINE j == k - 1
  <2>2. j \in 0..Len(f.chunks) /\ Len(d.chunks) = j /\ OutputEnd(f.chunks)[j] = size
        /\ \A i \in 1..j : d.chunks[i] = f.chunks[i]
    BY <1>2, <1>6, <1>10, <2>1 DEF e, n
  <2> HIDE DEF j
  <2>3. Content(d) = SubSeq(Content(f), 1, OutputEnd(f.chunks)[j])
    BY <1>1, <1>2, <1>3, <2>2, ContentOfFirst
  <2> QED
    BY <1>9, <2>2, <2>3 DEF d
<1>11. CASE keep # 0
  <2> DEFINE j == k - 1
             s == SubSeq(Content(f), 1, e[j])
             t == ChunkCells(short)
             u == SubSeq(Content(f), 1, size)
  <2>1. j \in 0..Len(f.chunks) /\ Len(d.chunks) = j + 1 /\ d.chunks[j + 1] = short
        /\ \A i \in 1..j : d.chunks[i] = f.chunks[i]
    BY <1>2, <1>6, <1>11 DEF n
  <2>2. Content(d) = s \o t
    <3> HIDE DEF j
    <3>1. Content(d) = SubSeq(Content(f), 1, OutputEnd(f.chunks)[j]) \o ChunkCells(short)
      BY <1>1, <1>2, <1>3, <2>1, ContentOfFirstAnd
    <3> QED
      BY <3>1 DEF e
  <2>3. Content(f) \in Seq(Cell) /\ Len(Content(f)) = e[n]
    BY <1>1, ContentType DEF e, n
  <2> DEFINE w == Content(f)
  <2>4. e[j] \in Nat /\ e[j] <= size /\ size <= Len(w) /\ w \in Seq(Cell)
        /\ e[j] + keep = size
    BY <1>2, <1>6, <1>7, <2>3
  <2>5. \A q \in 1..keep : w[e[j] + q] = t[q]
    <3>1. ASSUME NEW q \in 1..keep
          PROVE  w[e[j] + q] = t[q]
      <4>1. q \in 1..ChunkLen(c)
        <5>1. ChunkLen(c) \in Nat
          BY <1>4, ChunkLenType
        <5> HIDE DEF c
        <5> QED
          BY <5>1, <1>7
      <4>2. w[e[k - 1] + q] = CellOf(c, q - 1)
        BY <1>1, <1>2, <4>1, ContentCell DEF e, n
      <4> QED
        BY <4>2, <1>8
    <3> QED
      BY <3>1
  <2>6. t \in Seq(Cell) /\ Len(t) = keep
    BY <1>2, <1>8, ChunkCellsType
  <2>7. u = s \o t
    <3> HIDE DEF w, t, j
    <3> DEFINE x == e[j]
    <3>1. x \in Nat /\ x <= size /\ size <= Len(w) /\ x + keep = size
          /\ \A q \in 1..keep : w[x + q] = t[q]
      BY <2>4, <2>5
    <3>2. s = SubSeq(w, 1, x) /\ u = SubSeq(w, 1, size)
      BY DEF w
    <3> HIDE DEF x, s, u
    <3>3. s \in Seq(Cell) /\ Len(s) = x /\ u \in Seq(Cell) /\ Len(u) = size
          /\ \A i \in 1..x : s[i] = u[i]
      BY <2>4, <3>1, <3>2
    <3>4. \A i \in 1..keep : u[x + i] = t[i]
      BY <2>4, <3>1, <3>2, <1>7
    <3>5. Len(u) = Len(s) + Len(t)
      BY <2>6, <3>1, <3>3
    <3>6. /\ \A i \in 1..Len(s) : s[i] = u[i]
          /\ \A i \in 1..Len(t) : u[Len(s) + i] = t[i]
      BY <2>6, <3>3, <3>4
    <3> QED
      BY <2>6, <3>3, <3>5, <3>6, ConcatIs
  <2> QED
    BY <1>9, <2>2, <2>7 DEF d
<1> QED
  BY <1>10, <1>11

(* image_size is the length of the content.                                *)
LEMMA ImageSize ==
  ASSUME NEW g, Sound(g), ~g.raised
  PROVE  Content(g.file) \in Seq(Cell) /\ g.mem.image_size = Len(Content(g.file))
<1>1. g.mem = ReadHeader(g.file) /\ g.file \in File
  BY DEF Sound, Handler
<1>2. CASE g.file.sparse
  <2>1. g.mem.image_size = OutputEnd(g.file.chunks)[Len(g.file.chunks)]
    BY <1>1, <1>2 DEF ReadHeader
  <2> QED
    BY <1>1, <1>2, <2>1, ContentType
<1>3. CASE ~g.file.sparse
  <2>1. g.mem.image_size = Len(g.file.bytes) /\ Content(g.file) = g.file.bytes
    BY <1>1, <1>3 DEF ReadHeader, Content
  <2> QED
    BY <1>1, <2>1, ContentType
<1> QED
  BY <1>2, <1>3

LEMMA TruncateFlat ==
  ASSUME NEW g, Sound(g), ~g.raised, Whole(g.file), NEW size \in Nat
  PROVE  /\ Whole(Truncate(g, size).file)
         /\ ~Truncate(g, size).raised =>
              Content(Truncate(g, size).file) = Resized(Content(g.file), size)
<1> DEFINE s == Content(g.file)
<1>1. s \in Seq(Cell) /\ g.mem.image_size = Len(s)
  BY ImageSize
<1>2. CASE ~g.mem.sparse
  <2>1. Truncate(g, size) = Open(ResizeBytes(g.file, size))
    BY <1>2 DEF Truncate
  <2> QED
    BY <1>2, <2>1, ResizeBytesFlat
<1>3. CASE g.mem.sparse /\ size % BlockSize # 0
  <2>1. Truncate(g, size) = Raising(g)
    BY <1>3 DEF Truncate
  <2>2. Raising(g).raised /\ Raising(g).file = g.file
    BY DEF Raising, Sound, Handler
  <2> QED
    BY <2>1, <2>2
<1>4. CASE g.mem.sparse /\ size % BlockSize = 0
  <2> HIDE DEF s
  <2>1. CASE size = Len(s)
    <3>1. Truncate(g, size) = [g EXCEPT !.raised = FALSE]
      BY <1>1, <1>4, <2>1 DEF Truncate
    <3>2. [g EXCEPT !.raised = FALSE].file = g.file
      BY DEF Sound, Handler
    <3>3. Resized(s, size) = s
      BY <1>1, <2>1 DEF Resized
    <3> QED
      BY <3>1, <3>2, <3>3 DEF s
  <2>2. CASE size < Len(s)
    <3>1. Truncate(g, size) = Cut(g, size)
      BY <1>1, <1>4, <2>2 DEF Truncate
    <3>2. Resized(s, size) = SubSeq(s, 1, size)
      BY <1>1, <2>2 DEF Resized
    <3>3. /\ Whole(Cut(g, size).file)
          /\ Content(Cut(g, size).file) = SubSeq(Content(g.file), 1, size)
      BY <1>1, <1>4, <2>2, CutFlat
    <3> QED
      BY <3>1, <3>2, <3>3 DEF s
  <2>3. CASE size > Len(s)
    <3> DEFINE more == size - Len(s)
    <3>1. Truncate(g, size) = AppendDontCare(g, more)
      BY <1>1, <1>4, <2>3 DEF Truncate
    <3>2. Resized(s, size) = s \o [i \in 1..more |-> Zero]
      BY <1>1, <2>3 DEF Resized
    <3>3. more \in Nat /\ more % BlockSize = 0
      <4>1. Len(s) \in Int /\ Len(s) % BlockSize = 0
        <5>1. g.file \in File /\ g.file.sparse
          BY <1>4, SparseRemembered
        <5>2. g.file.chunks \in Seq(Chunk)
          BY <5>1 DEF File
        <5>3. Len(g.file.chunks) \in 0..Len(g.file.chunks)
          BY <5>2
        <5>4. OutputEnd(g.file.chunks)[Len(g.file.chunks)] % BlockSize = 0
          BY <5>2, <5>3, OutputEndType
        <5>5. Len(s) = OutputEnd(g.file.chunks)[Len(g.file.chunks)]
          BY <5>1, ContentType DEF s
        <5> QED
          BY <1>1, <5>4, <5>5
      <4>2. (size - Len(s)) % BlockSize = 0
        BY <1>4, <4>1, SumOfMultiples
      <4> QED
        BY <1>1, <2>3, <4>2
    <3> HIDE DEF more
    <3>4. /\ Whole(AppendDontCare(g, more).file)
          /\ Content(AppendDontCare(g, more).file) =
               Content(g.file) \o [i \in 1..more |-> Zero]
      BY <3>3, AppendDontCareFlat
    <3> QED
      BY <3>1, <3>2, <3>4 DEF s
  <2> QED
    BY <1>1, <2>1, <2>2, <2>3
<1> QED
  BY <1>2, <1>3, <1>4

-----------------------------------------------------------------------------
(* Reading returns the content from the cursor on.                         *)

(* Whole patterns do not change the place in the pattern.                  *)
LEMMA PatternPlace ==
  ASSUME NEW a \in Nat, NEW j \in Nat
  PROVE  ((a % FillLen) + j) % FillLen = (a + j) % FillLen
<1> DEFINE q == a \div FillLen
           r == a % FillLen
           x == r + j
           y == x \div FillLen
           z == x % FillLen
<1>1. FillLen \in Nat \ {0}
  BY SizesAssumption
<1>2. a = FillLen * q + r /\ q \in Nat /\ r \in Nat
  BY <1>1
<1> HIDE DEF q, r
<1>3. x = FillLen * y + z /\ y \in Nat /\ z \in 0..(FillLen - 1)
  BY <1>1, <1>2
<1> HIDE DEF y, z
<1>4. a + j = FillLen * (q + y) + z
  BY <1>1, <1>2, <1>3
<1>5. q + y \in Nat
  BY <1>2, <1>3
<1>6. (a + j) % FillLen = z
  <2> DEFINE F == FillLen
             w == q + y
             n == F * w + z
  <2>1. F \in Nat \ {0} /\ w \in Nat /\ z \in 0..(F - 1)
    BY <1>1, <1>3, <1>5
  <2> HIDE DEF F, w
  <2>2. n % F = z
    <3>1. F * w \in Nat
      BY <2>1
    <3>2. (F * w + z) - z = F * w
      BY <2>1, <3>1
    <3> QED
      BY <2>1, <3>1
  <2> QED
    BY <1>4, <2>2 DEF F, w
<1> QED
  BY <1>6 DEF z, r

(* What read() takes from a chunk are the cells the chunk stands for.      *)
LEMMA HeldCells ==
  ASSUME NEW f \in File, NEW k \in 1..Len(f.chunks),
         f.chunks[k].type # "CRC32", WholeChunk(f.chunks[k]),
         NEW c \in Entry, c.type = f.chunks[k].type, c.at = k,
         c.type = "FILL" => c.fill = f.chunks[k].data,
         NEW skip \in Nat, NEW n \in Nat, skip + n <= ChunkLen(f.chunks[k])
  PROVE  Held(f, c, skip, n) = [i \in 1..n |-> CellOf(f.chunks[k], (skip + i) - 1)]
<1> DEFINE ch == f.chunks[k]
           data == ch.data
<1>1. ch \in Chunk /\ data \in Seq(Cell) /\ ChunkLen(ch) \in Nat
  <2>1. ch \in Chunk
    BY DEF File
  <2> QED
    BY <2>1, ChunkLenType DEF Chunk
<1>2. c.type \in {"RAW", "FILL", "DONT_CARE"}
  BY DEF Entry, ChunkType
<1> HIDE DEF data
<1>3. CASE c.type = "RAW"
  <2>1. Held(f, c, skip, n) = SubSeq(data, skip + 1, Least(skip + n, Len(data)))
    BY <1>3 DEF Held, data
  <2>2. Len(data) = ChunkLen(ch) /\ Len(data) \in Nat
    BY <1>1, <1>3 DEF WholeChunk, ChunkLen, data
  <2>3. Least(skip + n, Len(data)) = skip + n
    BY <2>2 DEF Least
  <2>4. \A i \in 1..n : CellOf(ch, (skip + i) - 1) = data[skip + i]
    <3>1. ASSUME NEW i \in 1..n
          PROVE  CellOf(ch, (skip + i) - 1) = data[skip + i]
      <4>1. (skip + i) - 1 < Len(data) /\ ((skip + i) - 1) + 1 = skip + i
        BY <2>2
      <4> QED
        BY <1>3, <4>1 DEF CellOf, data
    <3> QED
      BY <3>1
  <2>5. SubSeq(data, skip + 1, skip + n) = [i \in 1..n |-> data[skip + i]]
    BY <1>1, <2>2
  <2> QED
    BY <2>1, <2>3, <2>4, <2>5
<1>4. CASE c.type = "FILL"
  <2> DEFINE mod == skip % FillLen
             size == FillLen * ((n \div FillLen) + 2)
             all == Repeat(c.fill, size)
  <2>1. mod \in Nat /\ mod \in 0..(FillLen - 1) /\ FillLen \in Nat \ {0}
    BY SizesAssumption
  <2>2. size \in Int /\ mod + n <= size
    <3> HIDE DEF mod
    <3> QED
      BY <2>1, PatternLongEnough
  <2>3. c.fill = data /\ data \in [1..FillLen -> Cell]
    <3>1. c.fill = data /\ data \in Seq(Cell) /\ Len(data) = FillLen
      BY <1>1, <1>4 DEF Chunk, data
    <3> QED
      BY <3>1
  <2> HIDE DEF size
  <2>4. all \in Seq(Cell) /\ Len(all) = size
    <3>1. size >= 0
      BY <2>1, <2>2
    <3> QED
      BY <2>2, <2>3, <3>1, RepeatType
  <2>5. \A i \in 1..n : all[mod + i] = data[(((mod + i) - 1) % FillLen) + 1]
    <3> HIDE DEF mod
    <3>1. \A i \in 1..n : mod + i \in 1..size
      BY <2>1, <2>2
    <3> QED
      BY <2>3, <3>1 DEF Repeat
  <2>6. \A i \in 1..n : ((mod + i) - 1) % FillLen = ((skip + i) - 1) % FillLen
    <3>1. ASSUME NEW i \in 1..n
          PROVE  ((mod + i) - 1) % FillLen = ((skip + i) - 1) % FillLen
      <4>1. i - 1 \in Nat /\ (skip + i) - 1 = skip + (i - 1)
        OBVIOUS
      <4>2. (mod + (i - 1)) % FillLen = (skip + (i - 1)) % FillLen
        BY <4>1, PatternPlace
      <4>3. (mod + i) - 1 = mod + (i - 1)
        <5> HIDE DEF mod
        <5> QED
          BY <2>1
      <4> QED
        BY <4>1, <4>2, <4>3
    <3> QED
      BY <3>1
  <2>7. \A i \in 1..n : CellOf(ch, (skip + i) - 1) = data[(((skip + i) - 1) % FillLen) + 1]
    BY <1>4 DEF CellOf, data
  <2>8. Held(f, c, skip, n) = SubSeq(all, mod + 1, mod + n)
    <3>1. ~(mod + n < 0)
      <4> HIDE DEF mod
      <4> QED
        BY <2>1
    <3> QED
      BY <1>4, <3>1 DEF Held, Slice, all, size
  <2> HIDE DEF all, mod
  <2>9. SubSeq(all, mod + 1, mod + n) = [i \in 1..n |-> all[mod + i]]
    <3>1. mod + n \in Nat /\ mod <= mod + n /\ mod + n <= Len(all)
          /\ (mod + n) - mod = n
      BY <2>1, <2>2, <2>4
    <3>2. SubSeq(all, mod + 1, mod + n) = [i \in 1..((mod + n) - mod) |-> all[mod + i]]
      BY <2>1, <2>4, <3>1, PartCells
    <3> QED
      BY <3>1, <3>2
  <2>10. \A i \in 1..n : all[mod + i] = CellOf(ch, (skip + i) - 1)
    BY <2>5, <2>6, <2>7
  <2> QED
    BY <2>8, <2>9, <2>10
<1>5. CASE c.type = "DONT_CARE"
  <2>1. Held(f, c, skip, n) = [i \in 1..n |-> Zero]
    BY <1>5 DEF Held
  <2>2. \A i \in 1..n : CellOf(ch, (skip + i) - 1) = Zero
    BY <1>5 DEF CellOf
  <2> QED
    BY <2>1, <2>2
<1> QED
  BY <1>2, <1>3, <1>4, <1>5

(* The loop of read() after the entry k: the cells read so far are those   *)
(* of the content from p on, and while it has some to go it stands in the  *)
(* next entry.                                                             *)
Reading(f, p, size, k, r) ==
  LET s == Content(f)
      e == OutputEnd(f.chunks)
  IN  /\ r.pos \in Nat /\ r.to_go \in Nat /\ ~r.raised
      /\ p <= r.pos /\ r.pos <= Len(s)
      /\ r.pos + r.to_go = p + size
      /\ r.cells = SubSeq(s, p + 1, r.pos)
      /\ r.to_go > 0 =>
           e[k] <= r.pos /\ (k < Len(f.chunks) => r.pos <= e[k + 1])

LEMMA ReadTurn ==
  ASSUME NEW f \in File, f.sparse, Plain(f), Whole(f), NEW k \in 1..Len(f.chunks),
         NEW c \in Entry, c.type = f.chunks[k].type, c.at = k,
         c.off = OutputEnd(f.chunks)[k - 1], c.size = ChunkLen(f.chunks[k]),
         c.type = "FILL" => c.fill = f.chunks[k].data,
         NEW p \in Nat, NEW size \in Nat, NEW r, Reading(f, p, size, k - 1, r)
  PROVE  Reading(f, p, size, k, ReadEntry(f, r, c))
<1> DEFINE cs == f.chunks
           e == OutputEnd(cs)
           s == Content(f)
<1>1. cs \in Seq(Chunk) /\ Len(cs) \in Nat /\ cs[k] \in Chunk /\ cs[k].type # "CRC32"
  BY DEF File, Plain
<1>2. /\ r.pos \in Nat /\ r.to_go \in Nat /\ ~r.raised
      /\ p <= r.pos /\ r.pos <= Len(s)
      /\ r.pos + r.to_go = p + size
      /\ r.cells = SubSeq(s, p + 1, r.pos)
      /\ r.to_go > 0 => e[k - 1] <= r.pos /\ r.pos <= e[k]
  <2>1. k - 1 < Len(cs) /\ (k - 1) + 1 = k
    BY <1>1
  <2> HIDE DEF e
  <2> QED
    BY <2>1 DEF Reading, e
<1>3. CASE r.to_go <= 0
  <2>1. ReadEntry(f, r, c) = r /\ ~(r.to_go > 0)
    BY <1>2, <1>3 DEF ReadEntry
  <2> QED
    BY <1>2, <2>1 DEF Reading
<1>4. CASE r.to_go > 0
  <2>1. /\ k - 1 \in 0..Len(cs) /\ k \in 0..Len(cs) /\ Len(cs) \in k..Len(cs)
        /\ Len(cs) \in 0..Len(cs)
    BY <1>1
  <2>2. /\ e[k - 1] \in Nat /\ e[k] \in Nat /\ e[Len(cs)] \in Nat
        /\ e[k] <= e[Len(cs)] /\ e[k] = e[k - 1] + ChunkLen(cs[k])
        /\ k < Len(cs) => e[k] <= e[k + 1]
    <3>1. e[k] = e[k - 1] + cs[k].sz * BlockSize
      BY <1>1, OutputEndStep
    <3>2. k < Len(cs) => k + 1 \in k..Len(cs)
      BY <1>1
    <3> QED
      BY <1>1, <2>1, <3>1, <3>2, OutputEndType, OutputEndMonotone DEF ChunkLen
  <2>3. s \in Seq(Cell) /\ Len(s) = e[Len(cs)] /\ ChunkLen(cs[k]) \in Nat
    BY <1>1, ContentType, ChunkLenType
  <2> DEFINE x == r.pos
             y == r.to_go
             lo == e[k - 1]
             hi == e[k]
             end == Len(s)
             skip == x - lo
             n == Least((hi - lo) - skip, y)
             held == Held(f, c, skip, n)
  <2>4. hi - lo = c.size
    BY <2>2, <2>3
  <2>5. ReadEntry(f, r, c) =
          [pos |-> x + n, to_go |-> y - n, cells |-> r.cells \o held,
           raised |-> c.type = "RAW" /\ n < -1]
    <3>1. r.pos - c.off = skip /\ c.size - (r.pos - c.off) = (hi - lo) - skip
      BY <2>4
    <3>2. Least(c.size - (r.pos - c.off), r.to_go) = n
      BY <3>1
    <3> HIDE DEF n, skip
    <3>3. ~(r.to_go <= 0)
      BY <1>2, <1>4
    <3> QED
      BY <3>1, <3>2, <3>3 DEF ReadEntry
  <2>6. /\ x \in Nat /\ y \in Nat /\ y > 0 /\ lo \in Nat /\ hi \in Nat /\ end \in Nat
        /\ p <= x /\ x + y = p + size /\ lo <= x /\ x <= hi /\ hi <= end
    BY <1>2, <1>4, <2>2, <2>3
  <2> HIDE DEF x, y, lo, hi, end
  <2>7. /\ skip \in Nat /\ n \in Nat /\ skip + n <= hi - lo /\ lo + skip = x
        /\ x + n \in Nat /\ y - n \in Nat /\ p <= x + n /\ x + n <= end
        /\ (x + n) + (y - n) = p + size
        /\ (y - n > 0 => x + n = hi)
    BY <2>6 DEF Least
  <2> HIDE DEF skip, n, held
  <2>8. held = SubSeq(s, x + 1, x + n)
    <3>1. skip + n <= ChunkLen(cs[k])
      BY <2>4, <2>7
    <3>2. held = [i \in 1..n |-> CellOf(cs[k], (skip + i) - 1)]
      BY <1>1, <2>7, <3>1, HeldCells DEF Whole, held
    <3>3. ASSUME NEW i \in 1..n
          PROVE  CellOf(cs[k], (skip + i) - 1) = s[x + i]
      <4> DEFINE q == skip + i
      <4>1. q \in 1..(hi - lo) /\ lo + q = x + i
        BY <2>6, <2>7
      <4>2. q \in 1..ChunkLen(cs[k])
        BY <2>4, <4>1
      <4> HIDE DEF q
      <4>3. s[lo + q] = CellOf(cs[k], q - 1)
        BY <4>2, ContentCell DEF lo
      <4> QED
        BY <4>1, <4>3 DEF q
    <3>4. SubSeq(s, x + 1, x + n) = [i \in 1..((x + n) - x) |-> s[x + i]]
      <4>1. x <= x + n /\ x + n <= Len(s)
        BY <2>6, <2>7 DEF end
      <4> HIDE DEF s
      <4> QED
        BY <2>3, <2>6, <2>7, <4>1, PartCells
    <3>5. (x + n) - x = n
      BY <2>6, <2>7
    <3> QED
      BY <3>2, <3>3, <3>4, <3>5
  <2>9. r.cells \o held = SubSeq(s, p + 1, x + n)
    <3>1. x <= x + n /\ x + n <= Len(s) /\ p <= x
      BY <2>6, <2>7 DEF end
    <3>2. r.cells = SubSeq(s, p + 1, x)
      BY <1>2 DEF x
    <3> HIDE DEF s
    <3>3. SubSeq(s, p + 1, x) \o SubSeq(s, x + 1, x + n) = SubSeq(s, p + 1, x + n)
      BY <2>3, <2>6, <2>7, <3>1, PartsConcat
    <3> QED
      BY <2>8, <3>2, <3>3
  <2>10. y - n > 0 => e[k] <= x + n /\ (k < Len(cs) => x + n <= e[k + 1])
    <3>1. e[k] <= e[k]
      BY <2>2
    <3> QED
      BY <2>2, <2>7, <3>1 DEF hi
  <2>11. (c.type = "RAW" /\ n < -1) = FALSE
    BY <2>7
  <2>12. ReadEntry(f, r, c) =
           [pos |-> x + n, to_go |-> y - n, cells |-> SubSeq(s, p + 1, x + n),
            raised |-> FALSE]
    BY <2>5, <2>9, <2>11
  <2> HIDE DEF s, e
  <2>13. /\ ReadEntry(f, r, c).pos = x + n /\ ReadEntry(f, r, c).to_go = y - n
         /\ ReadEntry(f, r, c).cells = SubSeq(s, p + 1, x + n)
         /\ ReadEntry(f, r, c).raised = FALSE
    <3> DEFINE new == x + n
               togo == y - n
               got == SubSeq(s, p + 1, new)
               turn == ReadEntry(f, r, c)
    <3>1. turn = [pos |-> new, to_go |-> togo, cells |-> got, raised |-> FALSE]
      BY <2>12
    <3> HIDE DEF new, togo, got, turn
    <3>2. turn.pos = new /\ turn.to_go = togo /\ turn.cells = got /\ turn.raised = FALSE
      BY <3>1
    <3> QED
      BY <3>2 DEF new, togo, got, turn
  <2>14. x + n <= Len(s)
    BY <2>7 DEF end
  <2> QED
    BY <2>7, <2>10, <2>13, <2>14 DEF Reading, s, e
<1> QED
  BY <1>2, <1>3, <1>4

(* read() returns the cells from the cursor on, fewer than asked for only  *)
(* at the end, does not raise, and moves the cursor by what it returned.   *)
LEMMA ReadFlat ==
  ASSUME NEW g, Sound(g), ~g.raised, Whole(g.file), NEW p \in Nat, NEW size \in Nat,
         p <= g.mem.image_size, g.mem.image_size > 0
  PROVE  /\ ~Read(g, p, size).raised
         /\ Read(g, p, size).cells = Piece(Content(g.file), p, size)
         /\ Read(g, p, size).pos = p + Len(Read(g, p, size).cells)
<1> DEFINE f == g.file
           cs == f.chunks
           n == Len(cs)
           e == OutputEnd(cs)
           s == Content(f)
           r0 == [pos |-> p, to_go |-> size, cells |-> << >>, raised |-> FALSE]
<1>1. /\ f \in File /\ cs \in Seq(Chunk) /\ n \in Nat /\ Plain(f)
      /\ g.mem.sparse = f.sparse
      /\ s \in Seq(Cell) /\ Len(s) = g.mem.image_size
  BY SparseRemembered, ImageSize DEF Sound, File
<1>2. Len(s) \in Nat /\ p <= Len(s) /\ Len(s) > 0
  BY <1>1
<1>3. CASE ~g.mem.sparse
  <2> DEFINE hi == IF p + size <= Len(s) THEN p + size ELSE Len(s)
             got == SubSeq(s, p + 1, hi)
  <2>1. s = f.bytes
    BY <1>1, <1>3 DEF Content
  <2>2. Read(g, p, size) = [r0 EXCEPT !.pos = p + Len(got), !.cells = got]
    BY <1>3, <2>1 DEF Read, Least
  <2>3. got = Piece(s, p, size)
    BY DEF Piece
  <2> HIDE DEF got
  <2>4. Read(g, p, size) = [pos |-> p + Len(got), to_go |-> size, cells |-> got,
                            raised |-> FALSE]
    BY <2>2
  <2> QED
    BY <2>3, <2>4
<1>4. CASE g.mem.sparse /\ size = 0
  <2>1. Read(g, p, size) = r0
    BY <1>4 DEF Read
  <2>2. Piece(s, p, size) = SubSeq(s, p + 1, p)
    <3> HIDE DEF s
    <3> QED
      BY <1>2, <1>4 DEF Piece
  <2>3. SubSeq(s, p + 1, p) = << >>
    OBVIOUS
  <2> QED
    BY <2>1, <2>2, <2>3
<1>5. CASE g.mem.sparse /\ size > 0
  <2> DEFINE t == g.mem.chunks
             first == EntryAt(t, p)
             lo == first - 1
  <2>1. /\ t = Table(cs) /\ f.sparse
    BY <1>5, <1>1 DEF Sound, ReadHeader
  <2>2. /\ Len(t) = n
        /\ \A k \in 1..n :
             /\ t[k].type = cs[k].type /\ t[k].at = k /\ t[k].off = e[k - 1]
             /\ t[k].size = ChunkLen(cs[k])
             /\ t[k].type = "FILL" => t[k].fill = cs[k].data
    <3>1. t = [k \in 1..n |->
                 [type |-> cs[k].type, at |-> k, off |-> e[k - 1],
                  size |-> cs[k].sz * BlockSize,
                  fill |-> IF cs[k].type = "FILL" THEN cs[k].data ELSE << >>]]
      BY <1>1, <2>1, PlainTable
    <3> HIDE DEF e, t, n
    <3> QED
      BY <1>1, <3>1 DEF ChunkLen
  <2>3. \A k \in 1..n : t[k] \in Entry
    BY <1>5, <2>2, TableEntries
  <2>4. Len(s) = e[n] /\ n # 0 /\ t # << >>
    <3>1. Len(s) = e[n]
      BY <1>1, <2>1, ContentType
    <3>2. e[0] = 0
      BY <1>1, OutputEndStep
    <3> HIDE DEF e, s, t
    <3> QED
      BY <1>2, <2>2, <3>1, <3>2
  <2>5. /\ first \in 1..n /\ t[first].off <= p
        /\ \A l \in (first + 1)..n : t[l].off > p
    BY <1>5, <2>2, <2>4, ReadLoop
  <2>6. PICK turn :
          /\ Read(g, p, size) = turn[n]
          /\ turn[lo] = r0
          /\ \A j \in first..n : turn[j] = ReadEntry(f, turn[j - 1], t[j])
    BY <1>5, <2>2, <2>4, ReadLoop
  <2> HIDE DEF first, t
  <2>7. Reading(f, p, size, lo, turn[lo])
    <3>1. e[lo] <= p
      BY <2>2, <2>5
    <3>2. lo < n => p <= e[lo + 1]
      <4>1. lo + 1 = first /\ first \in 0..n
        BY <1>1, <2>5
      <4>2. e[first] \in Nat
        BY <1>1, <4>1, OutputEndType
      <4>3. CASE first = n
        BY <1>2, <2>4, <4>1, <4>3
      <4>4. CASE first # n
        <5>1. first + 1 \in (first + 1)..n /\ first + 1 \in 1..n
              /\ (first + 1) - 1 = first
          BY <1>1, <2>5, <4>4
        <5>2. t[first + 1].off = e[first] /\ t[first + 1].off > p
          BY <2>2, <2>5, <5>1
        <5> HIDE DEF e
        <5> QED
          BY <4>1, <4>2, <5>2
      <4> QED
        BY <4>3, <4>4
    <3>3. SubSeq(s, p + 1, p) = << >> /\ p <= p /\ p + size = p + size
      OBVIOUS
    <3> HIDE DEF e, s, n, lo
    <3> QED
      BY <1>2, <2>6, <3>1, <3>2, <3>3 DEF Reading, e, s, n
  <2> DEFINE T == {i \in 0..(n - lo) : Reading(f, p, size, lo + i, turn[lo + i])}
  <2>8. lo \in Nat /\ n - lo \in Nat /\ lo + (n - lo) = n /\ lo + 0 = lo
    BY <1>1, <2>5
  <2>9. 0 \in T
    <3> HIDE DEF lo, n
    <3> QED
      BY <2>7, <2>8
  <2>10. ASSUME NEW i \in 0..(n - lo), i \in T, i + 1 <= n - lo
         PROVE  i + 1 \in T
    <3> DEFINE k == lo + (i + 1)
    <3>1. k \in first..n /\ k \in 1..n /\ k - 1 = lo + i
      BY <1>1, <2>5, <2>8, <2>10
    <3>2. Reading(f, p, size, k - 1, turn[k - 1])
      BY <2>10, <3>1
    <3>3. turn[k] = ReadEntry(f, turn[k - 1], t[k])
      BY <2>6, <3>1
    <3> HIDE DEF k, lo
    <3>4. Reading(f, p, size, k, ReadEntry(f, turn[k - 1], t[k]))
      BY <1>1, <2>1, <2>2, <2>3, <3>1, <3>2, ReadTurn
    <3> QED
      BY <2>8, <2>10, <3>3, <3>4 DEF k
  <2>11. \A i \in 0..(n - lo) : i \in T
    <3> HIDE DEF T, n, lo
    <3>1. \A i \in 0..(n - lo) : i \in T /\ i + 1 <= n - lo => i + 1 \in T
      BY <2>10
    <3> QED
      BY <2>8, <2>9, <3>1, IntervalInduction
  <2>12. Reading(f, p, size, n, turn[n])
    <3>1. n - lo \in T
      <4> HIDE DEF T, n, lo
      <4> QED
        BY <2>8, <2>11
    <3> QED
      BY <2>8, <3>1
  <2> DEFINE r == turn[n]
             hi == r.pos
  <2>13. /\ hi \in Nat /\ r.to_go \in Nat /\ ~r.raised /\ p <= hi /\ hi <= Len(s)
         /\ hi + r.to_go = p + size /\ r.cells = SubSeq(s, p + 1, hi)
         /\ r.to_go > 0 => Len(s) <= hi
    BY <2>4, <2>12 DEF Reading
  <2> HIDE DEF r, hi, s
  <2>14. hi = IF p + size <= Len(s) THEN p + size ELSE Len(s)
    BY <1>2, <2>13
  <2>15. r.cells = Piece(s, p, size)
    BY <2>13, <2>14 DEF Piece
  <2>16. Len(r.cells) = hi - p
    BY <1>1, <2>13, PartCells
  <2>17. hi = p + Len(r.cells)
    BY <2>13, <2>16
  <2>18. Read(g, p, size) = r
    BY <2>6 DEF r
  <2> QED
    BY <2>13, <2>15, <2>17, <2>18 DEF s, hi
<1> QED
  BY <1>3, <1>4, <1>5

-----------------------------------------------------------------------------
(* The methods as operations on what an image holds.                       *)

(* A file that is read as the cells s, and a handler that has read it.     *)
Rests(f, s) ==
  /\ f \in File /\ Plain(f) /\ Whole(f)
  /\ HeaderAccepted(f) /\ Content(f) = s
Holds(g, s) ==
  /\ Sound(g) /\ ~g.raised /\ Whole(g.file)
  /\ Content(g.file) = s

LEMMA HoldsIsOpen ==
  ASSUME NEW g, NEW s, Holds(g, s)
  PROVE  g = Open(g.file) /\ Rests(g.file, s)
<1>1. g \in Handler /\ HeaderAccepted(g.file) /\ g.mem = ReadHeader(g.file) /\ ~g.raised
  BY DEF Holds, Sound
<1>2. g = [file |-> g.file, mem |-> g.mem, raised |-> g.raised] /\ g.raised = FALSE
      /\ g.file \in File
  BY <1>1 DEF Handler
<1>3. g = Open(g.file)
  BY <1>1, <1>2 DEF Open
<1> QED
  BY <1>1, <1>2, <1>3 DEF Holds, Rests, Sound

LEMMA RestsOpens ==
  ASSUME NEW f, NEW s, Rests(f, s)
  PROVE  Holds(Open(f), s) /\ Open(f).file = f
<1>1. Sound(Open(f)) /\ Open(f).file = f
  BY OpenSound DEF Rests
<1>2. ~Open(f).raised
  BY DEF Rests, Open
<1> QED
  BY <1>1, <1>2 DEF Rests, Holds

(* What a handler knows of the cells it holds.                             *)
LEMMA HoldsSize ==
  ASSUME NEW g, NEW s, Holds(g, s)
  PROVE  /\ s \in Seq(Cell) /\ Len(s) \in Nat
         /\ g.mem.image_size = Len(s)
         /\ g.mem.sparse = g.file.sparse /\ g.file.sparse \in BOOLEAN
         /\ g.file.sparse => Len(s) % BlockSize = 0
         /\ ~g.file.sparse => Len(s) >= HeaderLen /\ g.file.bytes = s
<1>1. s \in Seq(Cell) /\ g.mem.image_size = Len(s)
  BY ImageSize DEF Holds
<1>2. g.mem.sparse = g.file.sparse /\ g.file \in File
  BY SparseRemembered DEF Holds
<1>3. g.file.sparse \in BOOLEAN /\ g.file.chunks \in Seq(Chunk)
  BY <1>2 DEF File
<1>4. Len(s) \in Nat
  BY <1>1
<1>5. ASSUME g.file.sparse PROVE Len(s) % BlockSize = 0
  <2>1. Len(s) = OutputEnd(g.file.chunks)[Len(g.file.chunks)]
    BY <1>2, <1>5, ContentType DEF Holds
  <2>2. Len(g.file.chunks) \in 0..Len(g.file.chunks)
    BY <1>3
  <2> QED
    BY <1>3, <2>1, <2>2, OutputEndType
<1>6. ASSUME ~g.file.sparse PROVE Len(s) >= HeaderLen /\ g.file.bytes = s
  <2>1. g.file.bytes = s
    BY <1>6 DEF Content, Holds
  <2>2. HeaderAccepted(g.file)
    BY HoldsIsOpen DEF Rests
  <2> QED
    BY <1>6, <2>1, <2>2 DEF HeaderAccepted
<1> QED
  BY <1>1, <1>2, <1>3, <1>4, <1>5, <1>6

(* A method that opens its file again holds what the file has become.      *)
LEMMA OpenHolds ==
  ASSUME NEW f, NEW s, Sound(Open(f)), Whole(f), Content(f) = s,
         ~f.sparse => Len(s) >= HeaderLen
  PROVE  Holds(Open(f), s)
<1>1. Open(f).file = f
  BY OpenKeepsFile
<1>2. f.sparse => HeaderAccepted(f)
  BY <1>1 DEF Sound
<1>3. ~f.sparse => HeaderAccepted(f)
  BY DEF Content, HeaderAccepted
<1>4. ~Open(f).raised
  BY <1>2, <1>3 DEF Open
<1> QED
  BY <1>1, <1>4 DEF Holds

LEMMA LengthOfConcat ==
  ASSUME NEW s \in Seq(Cell), NEW t \in Seq(Cell)
  PROVE  /\ s \o t \in Seq(Cell) /\ Len(s \o t) = Len(s) + Len(t)
         /\ Len(s) \in Nat /\ Len(t) \in Nat /\ Len(s \o t) \in Nat
  OBVIOUS

LEMMA AppendRawHolds ==
  ASSUME NEW g, NEW s, Holds(g, s), NEW data \in Seq(Cell),
         g.file.sparse => Len(data) % BlockSize = 0
  PROVE  /\ Holds(AppendRaw(g, data), s \o data)
         /\ AppendRaw(g, data).file.sparse = g.file.sparse
<1> DEFINE o == AppendRaw(g, data)
<1>1. /\ s \in Seq(Cell) /\ g.mem.sparse = g.file.sparse /\ g.file.sparse \in BOOLEAN
      /\ ~g.file.sparse => Len(s) >= HeaderLen
  BY HoldsSize
<1>2. s \o data \in Seq(Cell) /\ Len(s \o data) = Len(s) + Len(data) /\ Len(data) \in Nat
      /\ Len(s) \in Nat
  BY <1>1, LengthOfConcat
<1>3. HeaderLen \in Nat
  BY SizesAssumption
<1>4. Sound(g) /\ ~g.raised /\ Whole(g.file) /\ Content(g.file) = s
  BY DEF Holds
<1>5. CASE g.file.sparse
  <2> DEFINE c == RawChunk(data)
             f == WriteChunk(CountChunk(g, c.sz), c)
  <2>1. o = Open(f)
    BY <1>1, <1>5 DEF AppendRaw, AppendChunk
  <2>2. o = AppendChunk(g, c)
    BY <1>1, <1>5 DEF AppendRaw
  <2>3. c \in Chunk /\ c.type # "CRC32"
    BY <1>5, RawCells
  <2> HIDE DEF c
  <2>4. Sound(AppendChunk(g, c)) /\ AppendChunk(g, c).file.sparse
    BY <1>1, <1>4, <1>5, <2>3, AppendChunkSound
  <2>5. Whole(o.file) /\ Content(o.file) = s \o data
    BY <1>4, <1>5, AppendRawFlat
  <2> HIDE DEF f, o
  <2>6. o.file = f
    BY <2>1, OpenKeepsFile
  <2>7. Holds(o, s \o data)
    BY <2>1, <2>2, <2>4, <2>5, <2>6, OpenHolds
  <2> QED
    BY <1>5, <2>2, <2>4, <2>7 DEF o
<1>6. CASE ~g.file.sparse
  <2> DEFINE f == [g.file EXCEPT !.bytes = @ \o data]
  <2>1. o = Open(f) /\ o = AppendBytes(g, data)
    BY <1>1, <1>6 DEF AppendRaw, AppendBytes
  <2>2. Sound(AppendBytes(g, data))
    BY <1>4, <1>6, AppendBytesSound
  <2>3. Whole(AppendBytes(g, data).file) /\ Content(AppendBytes(g, data).file) = s \o data
    BY <1>1, <1>4, <1>6, AppendBytesFlat
  <2>4. f.sparse = g.file.sparse
    BY <1>4, <1>6 DEF Sound, Handler, File
  <2> HIDE DEF f, o
  <2>5. o.file = f
    BY <2>1, OpenKeepsFile
  <2>6. Len(s \o data) >= HeaderLen
    BY <1>1, <1>2, <1>3, <1>6
  <2>7. Holds(o, s \o data)
    BY <2>1, <2>2, <2>3, <2>5, <2>6, OpenHolds
  <2> QED
    BY <1>1, <1>6, <2>4, <2>5, <2>7 DEF o
<1> QED
  BY <1>1, <1>5, <1>6

(* The same for a handler that is known to have opened its file.           *)
LEMMA OpenedHolds ==
  ASSUME NEW h, NEW f, NEW s, h = Open(f), Sound(h), Whole(h.file),
         Content(h.file) = s, ~h.file.sparse => Len(s) >= HeaderLen
  PROVE  Holds(h, s)
BY OpenKeepsFile, OpenHolds

LEMMA RawKept ==
  ASSUME NEW g, NEW s, Holds(g, s), ~g.file.sparse, NEW size \in Nat
  PROVE  ResizeBytes(g.file, size).sparse = g.file.sparse
BY DEF Holds, Sound, Handler, File, ResizeBytes

LEMMA ChunkHolds ==
  ASSUME NEW g, NEW s, Holds(g, s), g.file.sparse,
         NEW c \in Chunk, c.type # "CRC32", WholeChunk(c)
  PROVE  /\ Holds(AppendChunk(g, c), s \o ChunkCells(c))
         /\ AppendChunk(g, c).file.sparse = g.file.sparse
<1> DEFINE o == AppendChunk(g, c)
<1>1. Sound(g) /\ ~g.raised /\ Whole(g.file) /\ Content(g.file) = s /\ g.mem.sparse
  BY SparseRemembered DEF Holds
<1>2. Sound(o) /\ o.file.sparse
  BY <1>1, AppendChunkSound
<1>3. Whole(o.file) /\ Content(o.file) = s \o ChunkCells(c)
  BY <1>1, AppendChunkFlat
<1>4. o = Open(WriteChunk(CountChunk(g, c.sz), c))
  BY DEF AppendChunk
<1> HIDE DEF o
<1>5. Holds(o, s \o ChunkCells(c))
  BY <1>2, <1>3, <1>4, OpenedHolds
<1>6. o.file.sparse = g.file.sparse
  <2>1. o.file.sparse \in BOOLEAN /\ g.file.sparse \in BOOLEAN
    BY <1>1, <1>2 DEF Sound, Handler, File
  <2> QED
    BY <1>2, <2>1
<1> QED
  BY <1>5, <1>6 DEF o

LEMMA AppendDontCareHolds ==
  ASSUME NEW g, NEW s, Holds(g, s), NEW size \in Nat,
         g.file.sparse => size % BlockSize = 0
  PROVE  /\ Holds(AppendDontCare(g, size), s \o [i \in 1..size |-> Zero])
         /\ AppendDontCare(g, size).file.sparse = g.file.sparse
<1>1. /\ s \in Seq(Cell) /\ Len(s) \in Nat
      /\ g.mem.sparse = g.file.sparse /\ g.file.sparse \in BOOLEAN
      /\ ~g.file.sparse => Len(s) >= HeaderLen /\ g.file.bytes = s
  BY HoldsSize
<1>2. Sound(g) /\ ~g.raised /\ Whole(g.file) /\ Content(g.file) = s
  BY DEF Holds
<1>3. ASSUME g.file.sparse
       PROVE  /\ Holds(AppendDontCare(g, size), s \o [i \in 1..size |-> Zero])
              /\ AppendDontCare(g, size).file.sparse = g.file.sparse
  <2> DEFINE c == DontCareChunk(size)
  <2>1. AppendDontCare(g, size) = AppendChunk(g, c)
    BY <1>1, <1>3 DEF AppendDontCare
  <2>2. /\ c \in Chunk /\ c.type # "CRC32" /\ WholeChunk(c)
        /\ ChunkCells(c) = [i \in 1..size |-> Zero]
    BY <1>3, HoleCells
  <2> HIDE DEF c
  <2>3. /\ Holds(AppendChunk(g, c), s \o ChunkCells(c))
        /\ AppendChunk(g, c).file.sparse = g.file.sparse
    BY <1>3, <2>2, ChunkHolds
  <2> QED
    BY <2>1, <2>2, <2>3
<1>4. ASSUME ~g.file.sparse
       PROVE  /\ Holds(AppendDontCare(g, size), s \o [i \in 1..size |-> Zero])
              /\ AppendDontCare(g, size).file.sparse = g.file.sparse
  <2> DEFINE f == ResizeBytes(g.file, Len(g.file.bytes) + size)
             o == AppendDontCare(g, size)
             t == s \o [i \in 1..size |-> Zero]
  <2>1. Len(g.file.bytes) + size \in Nat
    BY <1>1, <1>4
  <2>2. o = Open(f)
    BY <1>1, <1>4, <2>1 DEF AppendDontCare
  <2>3. f.sparse = g.file.sparse
    BY <1>4, <2>1, RawKept
  <2>4. Sound(o)
    BY <1>2, AppendDontCareSound
  <2>5. Whole(o.file) /\ Content(o.file) = t
    BY <1>1, <1>2, <1>4, AppendDontCareFlat
  <2>6. [i \in 1..size |-> Zero] \in Seq(Cell) /\ Len([i \in 1..size |-> Zero]) = size
    BY ZeroAssumption
  <2>7. Len(t) >= HeaderLen
    <3> HIDE DEF f, o
    <3>1. Len(t) = Len(s) + size
      BY <1>1, <2>6, LengthOfConcat
    <3> HIDE DEF t
    <3> QED
      BY <1>1, <1>4, <3>1, SizesAssumption
  <2> HIDE DEF f, o, t
  <2>8. o.file = f
    BY <2>2, OpenKeepsFile
  <2>9. Holds(o, t)
    BY <2>2, <2>4, <2>5, <2>7, OpenedHolds
  <2> QED
    BY <2>3, <2>8, <2>9 DEF o, t
<1> QED
  BY <1>3, <1>4

(* A sparse file only: in a raw file a fill is written like data.          *)
LEMMA AppendFillHolds ==
  ASSUME NEW g, NEW s, Holds(g, s), g.file.sparse,
         NEW fill \in [1..FillLen -> Cell], NEW size \in Nat, size % BlockSize = 0
  PROVE  /\ Holds(AppendFill(g, fill, size), s \o Repeat(fill, size))
         /\ AppendFill(g, fill, size).file.sparse = g.file.sparse
<1> DEFINE c == FillChunk(fill, size)
<1>1. g.mem.sparse
  BY SparseRemembered DEF Holds
<1>2. AppendFill(g, fill, size) = AppendChunk(g, c)
  BY <1>1 DEF AppendFill
<1>3. /\ c \in Chunk /\ c.type # "CRC32" /\ WholeChunk(c)
      /\ ChunkCells(c) = Repeat(fill, size)
  BY FillCells
<1> HIDE DEF c
<1>4. /\ Holds(AppendChunk(g, c), s \o ChunkCells(c))
      /\ AppendChunk(g, c).file.sparse = g.file.sparse
  BY <1>3, ChunkHolds
<1> QED
  BY <1>2, <1>3, <1>4

LEMMA CutHolds ==
  ASSUME NEW g, NEW s, Holds(g, s), g.file.sparse,
         NEW size \in Nat, size % BlockSize = 0, size < Len(s)
  PROVE  /\ Holds(Cut(g, size), SubSeq(s, 1, size))
         /\ Cut(g, size).file.sparse = g.file.sparse
<1> DEFINE o == Cut(g, size)
<1>1. g.mem.sparse /\ size < g.mem.image_size
  BY HoldsSize
<1>2. Sound(g) /\ ~g.raised /\ Whole(g.file) /\ Content(g.file) = s
  BY DEF Holds
<1>3. Sound(o) /\ o.file.sparse
  BY <1>1, <1>2, CutSound
<1>4. Whole(o.file) /\ Content(o.file) = SubSeq(s, 1, size)
  BY <1>1, <1>2, CutFlat
<1>5. \E f : o = Open(f)
  BY DEF Cut
<1> HIDE DEF o
<1>6. Holds(o, SubSeq(s, 1, size))
  BY <1>3, <1>4, <1>5, OpenedHolds
<1>7. o.file.sparse = g.file.sparse
  <2>1. o.file.sparse \in BOOLEAN /\ g.file.sparse \in BOOLEAN
    BY <1>2, <1>3 DEF Sound, Handler, File
  <2> QED
    BY <1>3, <2>1
<1> QED
  BY <1>6, <1>7 DEF o

LEMMA TruncateHolds ==
  ASSUME NEW g, NEW s, Holds(g, s), NEW size \in Nat,
         g.file.sparse => size % BlockSize = 0,
         ~g.file.sparse => size >= HeaderLen
  PROVE  /\ Holds(Truncate(g, size), Resized(s, size))
         /\ Truncate(g, size).file.sparse = g.file.sparse
<1>1. /\ s \in Seq(Cell) /\ Len(s) \in Nat /\ g.mem.image_size = Len(s)
      /\ g.mem.sparse = g.file.sparse /\ g.file.sparse \in BOOLEAN
      /\ g.file.sparse => Len(s) % BlockSize = 0
      /\ ~g.file.sparse => Len(s) >= HeaderLen /\ g.file.bytes = s
  BY HoldsSize
<1>2. Sound(g) /\ ~g.raised /\ Whole(g.file) /\ Content(g.file) = s
  BY DEF Holds
<1>3. ASSUME ~g.file.sparse
       PROVE  /\ Holds(Truncate(g, size), Resized(s, size))
              /\ Truncate(g, size).file.sparse = g.file.sparse
  <2> DEFINE f == ResizeBytes(g.file, size)
             o == Truncate(g, size)
             t == Resized(s, size)
  <2>1. o = Open(f)
    BY <1>1, <1>3 DEF Truncate
  <2>2. f.sparse = g.file.sparse
    BY <1>3, RawKept
  <2>3. Sound(o)
    BY <1>2, TruncateSound
  <2>4. Whole(o.file) /\ Content(o.file) = t
    BY <1>1, <1>2, <1>3, <2>1, ResizeBytesFlat
  <2>5. Len(t) >= HeaderLen
    <3>1. CASE size <= Len(s)
      BY <3>1, <1>1, <1>3, SizesAssumption DEF Resized
    <3>2. CASE ~(size <= Len(s))
      <4> DEFINE z == [i \in 1..(size - Len(s)) |-> Zero]
      <4>1. z \in Seq(Cell) /\ Len(z) = size - Len(s)
        BY <3>2, <1>1, ZeroAssumption
      <4>2. Len(t) = Len(s \o z)
        BY <3>2 DEF Resized
      <4> HIDE DEF z, t
      <4>3. Len(s \o z) = Len(s) + Len(z)
        BY <1>1, <4>1, LengthOfConcat
      <4> QED
        BY <1>1, <1>3, <4>1, <4>2, <4>3
    <3> QED
      BY <3>1, <3>2
  <2> HIDE DEF f, o, t
  <2>6. o.file = f
    BY <2>1, OpenKeepsFile
  <2>7. Holds(o, t)
    BY <2>1, <2>3, <2>4, <2>5, OpenedHolds
  <2> QED
    BY <2>2, <2>6, <2>7 DEF o, t
<1>4. ASSUME g.file.sparse, size = Len(s)
       PROVE  /\ Holds(Truncate(g, size), Resized(s, size))
              /\ Truncate(g, size).file.sparse = g.file.sparse
  <2>1. Truncate(g, size) = [g EXCEPT !.raised = FALSE]
    BY <1>1, <1>4 DEF Truncate
  <2>2. [g EXCEPT !.raised = FALSE] = g
    BY <1>2 DEF Sound, Handler
  <2>3. Resized(s, size) = s
    BY <1>1, <1>4 DEF Resized
  <2> QED
    BY <2>1, <2>2, <2>3
<1>5. ASSUME g.file.sparse, size < Len(s)
       PROVE  /\ Holds(Truncate(g, size), Resized(s, size))
              /\ Truncate(g, size).file.sparse = g.file.sparse
  <2>1. Truncate(g, size) = Cut(g, size)
    BY <1>1, <1>5 DEF Truncate
  <2>2. Resized(s, size) = SubSeq(s, 1, size)
    BY <1>1, <1>5 DEF Resized
  <2> QED
    BY <1>5, <2>1, <2>2, CutHolds
<1>6. ASSUME g.file.sparse, size > Len(s)
       PROVE  /\ Holds(Truncate(g, size), Resized(s, size))
              /\ Truncate(g, size).file.sparse = g.file.sparse
  <2> DEFINE more == size - Len(s)
  <2>1. Truncate(g, size) = AppendDontCare(g, more)
    BY <1>1, <1>6 DEF Truncate
  <2>2. Resized(s, size) = s \o [i \in 1..more |-> Zero]
    BY <1>1, <1>6 DEF Resized
  <2>3. more \in Nat /\ more % BlockSize = 0
    BY <1>1, <1>6, SumOfMultiples
  <2> HIDE DEF more
  <2>4. /\ Holds(AppendDontCare(g, more), s \o [i \in 1..more |-> Zero])
        /\ AppendDontCare(g, more).file.sparse = g.file.sparse
    BY <2>3, AppendDontCareHolds
  <2> QED
    BY <2>1, <2>2, <2>4
<1> QED
  BY <1>1, <1>3, <1>4, <1>5, <1>6

LEMMA ReadHolds ==
  ASSUME NEW g, NEW s, Holds(g, s), NEW p \in Nat, NEW size \in Nat,
         p <= Len(s), Len(s) > 0
  PROVE  Read(g, p, size).cells = Piece(s, p, size)
<1>1. Sound(g) /\ ~g.raised /\ Whole(g.file) /\ Content(g.file) = s
  BY DEF Holds
<1>2. g.mem.image_size = Len(s)
  BY HoldsSize
<1> QED
  BY <1>1, <1>2, ReadFlat
=============================================================================
