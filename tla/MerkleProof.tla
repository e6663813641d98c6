---------------------------- MODULE MerkleProof ----------------------------
(***************************************************************************)
(* The Merkle tree of a transparency log: avbtool 1.1's check of an        *)
(* inclusion proof, and the tree and the proofs of RFC 6962, which the     *)
(* logs keep.  A hash is the term it is computed from: hashes that differ  *)
(* are hashes of something else.                                           *)
(***************************************************************************)
EXTENDS Integers, Sequences

HashLeaf(leaf) == << "leaf", leaf >>
HashChildren(l, r) == << "node", l, r >>

(* The loops of chain_inner and chain_border_right: a hash after the other *)
(* on the side the path is not on.                                         *)
Climb(seed, proof, onLeft) ==
  LET c[k \in 0..Len(proof)] ==
        IF k = 0 THEN seed
        ELSE IF onLeft[k] THEN HashChildren(c[k - 1], proof[k])
        ELSE HashChildren(proof[k], c[k - 1])
  IN  c[Len(proof)]

(* Up the left border: every hash that is left is of a tree to the left.   *)
ChainBorderRight(seed, proof) == Climb(seed, proof, [k \in DOMAIN proof |-> FALSE])

(* 2^n: shifting right by n divides by it.                                 *)
Pow2[n \in Nat] == IF n = 0 THEN 1 ELSE 2 * Pow2[n - 1]

Bit(n, i) == (n \div Pow2[i]) % 2

(* Below the border, the bits of the index say on which side the path is.  *)
ChainInner(seed, proof, index) ==
  Climb(seed, proof, [k \in DOMAIN proof |-> Bit(index, k - 1) = 0])

(* (a ^ b).bit_length(): how many low bits hold all that a and b differ in.*)
DifferingBits(a, b) ==
  CHOOSE k \in 0..(a + b) :
    /\ a \div Pow2[k] = b \div Pow2[k]
    /\ \A j \in 0..(k - 1) : a \div Pow2[j] # b \div Pow2[j]

(* root_from_icp, of an index below the size; a slice past the end of the  *)
(* proof is what there is of it.                                           *)
RootFromIcp(index, size, proof, hash) ==
  LET n == DifferingBits(index, size - 1)
      inner == IF n < Len(proof) THEN n ELSE Len(proof)
  IN  ChainBorderRight(ChainInner(hash, SubSeq(proof, 1, inner), index),
                       SubSeq(proof, inner + 1, Len(proof)))

-----------------------------------------------------------------------------
(* RFC 6962, which a log follows: the largest power of two below n splits  *)
(* a tree of n > 1 leaves.                                                 *)
Split(n) == CHOOSE k \in {Pow2[i] : i \in 0..n} : k < n /\ n <= 2 * k

(* MTH(D[lo:hi]), and the path of a leaf within it, for every << lo, hi >>.*)
TreeHash(leaves) ==
  LET h[s \in (0..Len(leaves)) \X (0..Len(leaves))] ==
        IF s[2] <= s[1] + 1 THEN HashLeaf(leaves[s[2]])
        ELSE LET k == s[1] + Split(s[2] - s[1]) IN HashChildren(h[<< s[1], k >>], h[<< k, s[2] >>])
  IN  h

RootHash(leaves) == TreeHash(leaves)[<< 0, Len(leaves) >>]

TreePath(leaves, index) ==
  LET h == TreeHash(leaves)
      path[s \in (0..Len(leaves)) \X (0..Len(leaves))] ==
        IF s[2] <= s[1] + 1 THEN << >>
        ELSE LET k == s[1] + Split(s[2] - s[1]) IN
             IF index < k THEN Append(path[<< s[1], k >>], h[<< k, s[2] >>])
             ELSE Append(path[<< k, s[2] >>], h[<< s[1], k >>])
  IN  path

InclusionProof(leaves, index) == TreePath(leaves, index)[<< 0, Len(leaves) >>]
=============================================================================
