------------------------------ MODULE HashTree ------------------------------
(***************************************************************************)
(* The hash tree of dm-verity as generate_hash_tree computes it, a block   *)
(* at a time, and as the kernel reads it.  A hash is the term of what it   *)
(* was computed from; a block of the tree holds Fan hashes.                *)
(***************************************************************************)
EXTENDS Integers, Sequences, SequencesExt

CONSTANTS Fan,       \* hashes in a block: block_size by padded digest_size
          NoHash     \* the zeros in place of a hash

ASSUME HashTreeAssumption == Fan \in Nat /\ Fan > 1 /\ NoHash[1] # "hash"

Hash(block) == << "hash", block >>
BlocksFor(n) == (n + Fan - 1) \div Fan
TreeBlock(hashes) == << "tree", hashes >>

(* The blocks of each level above the image's.                             *)
LevelSizes(n) ==
  LET sizes[k \in 0..n] == IF k <= 1 THEN << >> ELSE << BlocksFor(k) >> \o sizes[BlocksFor(k)]
  IN  sizes[n]

Total(sizes) ==
  LET sum[k \in 0..Len(sizes)] == IF k = 0 THEN 0 ELSE sum[k - 1] + sizes[k]
  IN  sum[Len(sizes)]

(* Mutant: the levels from the lowest to the top.                          *)
LevelOffsetsUpwards(n) ==
  LET sizes == LevelSizes(n) IN [i \in DOMAIN sizes |-> Total(SubSeq(sizes, 1, i - 1))]

(* calc_hash_level_offsets: the top level comes first.                     *)
LevelOffsets(n) ==
  LET sizes == LevelSizes(n) IN [i \in DOMAIN sizes |-> Total(SubSeq(sizes, i + 1, Len(sizes)))]

TreeSize(n) == Total(LevelSizes(n))

-----------------------------------------------------------------------------
(* generate_hash_tree, as a loop.  remaining counts down the blocks of a   *)
(* level; what has been hashed of it is out.                               *)

StartTree(n) ==
  [size |-> n, level |-> 0, src |-> n, remaining |-> n, out |-> << >>,
   tree |-> [i \in 1..TreeSize(n) |-> TreeBlock(<< >>)], root |-> NoHash]

TreeDone(g) == g.root # NoHash

(* Where the next block is read from: the image or the array.              *)
ReadsImage(g) == g.level = 0
ImageBlock(g) == g.src - g.remaining
ArrayBlock(g) == g.tree[LevelOffsets(g.size)[g.level] + g.src - g.remaining + 1]

Group(hashes) ==
  [b \in 1..BlocksFor(Len(hashes)) |->
     TreeBlock([i \in 1..Fan |-> IF (b - 1) * Fan + i <= Len(hashes)
                                 THEN hashes[(b - 1) * Fan + i] ELSE NoHash])]

(* The image is one block: its hash is the root.                           *)
HashOnlyBlock(g, block) == [g EXCEPT !.root = Hash(block), !.remaining = 0]

(* One block, and behind the last of a level its output goes into the      *)
(* array; a level of one block is the top.                                 *)
HashBlock(g, block) ==
  LET out == Append(g.out, Hash(block))
      blocks == Group(out)
      offset == LevelOffsets(g.size)[g.level + 1]
      written == [i \in DOMAIN g.tree |->
                    IF i - offset \in DOMAIN blocks THEN blocks[i - offset] ELSE g.tree[i]]
  IN  IF g.remaining > 1 THEN [g EXCEPT !.out = out, !.remaining = @ - 1]
      ELSE [g EXCEPT !.tree = written, !.level = @ + 1, !.src = Len(blocks),
                     !.remaining = Len(blocks), !.out = << >>,
                     !.root = IF Len(blocks) = 1 THEN Hash(blocks[1]) ELSE NoHash]

-----------------------------------------------------------------------------
(* What dm-verity expects: levels of blocks, each the hashes of the level  *)
(* below, until one block is left; on disk the top level comes first.      *)
Levels(data) ==
  LET above[n \in 0..Len(data)] ==
        IF n = 0 THEN << data >>
        ELSE LET below == above[n - 1][Len(above[n - 1])] IN
             IF Len(below) <= 1 THEN above[n - 1]
             ELSE Append(above[n - 1], Group([i \in DOMAIN below |-> Hash(below[i])]))
  IN  above[Len(data)]

VerityRoot(data) == LET ls == Levels(data) IN Hash(ls[Len(ls)][1])
VerityTree(data) == FlattenSeq(Reverse(Tail(Levels(data))))
=============================================================================
