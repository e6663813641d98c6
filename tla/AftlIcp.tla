------------------------------ MODULE AftlIcp ------------------------------
(***************************************************************************)
(* avbtool 1.1, make_icp_from_vbmeta: a vbmeta image is submitted to one   *)
(* transparency log after another, and the inclusion proofs they answer    *)
(* with are written behind it; info_image_icp reads them back.  The logs   *)
(* grow on their own, answer from any tree that holds the leaf, and may    *)
(* answer wrongly or not at all.  A file is a sequence of cells: a header, *)
(* a URL, a signed root and each hash of a proof take one.                 *)
(***************************************************************************)
EXTENDS MerkleProof, FiniteSets, SequencesExt

CONSTANTS Log,           \* the transparency logs
          Vbmeta,        \* the vbmeta blobs
          VbmetaSize,    \* cells of a vbmeta blob, by its header
          Pad,           \* a NUL cell
          PaddingSizes,  \* --padding_size, 0 for none
          ReadLimit,     \* what info_image_icp reads, in cells
          StartTrees,    \* bound: what each log has at the start
          MaxLeaves      \* bound: the leaves of each log

(* What the leaves of a log say.                                           *)
LeafData == ({"firmware"} \X Vbmeta) \cup ({"other"} \X Nat)

ASSUME AftlAssumption ==
  /\ IsFiniteSet(Log) /\ MaxLeaves \in [Log -> Nat]
  /\ VbmetaSize \in Nat \ {0} /\ ReadLimit \in Nat
  /\ PaddingSizes \subseteq Nat
  /\ \A l \in Log : \A t \in StartTrees[l] : t \in Seq(LeafData) /\ Len(t) <= MaxLeaves[l]

VARIABLES tree,     \* the leaves of each log
          image,    \* the file the command is given
          servers,  \* transparency_log_servers, in order
          at,       \* the server being asked
          asked,    \* the log has the leaf and has not answered
          entries,  \* icp_entries, each with what verify_icp said of it
          output,   \* the output file
          result,   \* what the command returned
          pc

vars == << tree, image, servers, at, asked, entries, output, result, pc >>

Blob(v) == [n \in 1..VbmetaSize |-> << "vbmeta", v, n >>]
HasFooter(file) == file # << >> /\ file[Len(file)] = << "footer" >>
VbmetaOf(file) == SubSeq(file, 1, VbmetaSize)
Leaf(file) == << "firmware", file[1][2] >>

-----------------------------------------------------------------------------
(* An entry and its bytes.                                                 *)

SignedRoot(leaf, size, root, key, whole) ==
  [leaf_hash |-> HashLeaf(leaf), tree_size |-> size, root_hash |-> root,
   key |-> key, whole |-> whole]

(* translate_response                                                      *)
Entry(log, a) == [log_url |-> << log >>, leaf_index |-> a.index,
                  signed_root_blob |-> SignedRoot(a.leaf, a.size, a.root, a.key, a.whole),
                  proofs |-> a.proofs]

(* is_valid: among sizes that agree by construction, the one of the log's  *)
(* signature does not.                                                     *)
IsValid(e) == e.signed_root_blob.whole

(* Mutant: only the signature of the root is looked at.                    *)
VerifySignature(e, key) == e.signed_root_blob.key = key

(* verify_icp against the key at the server's position.                    *)
VerifyIcp(e, key) ==
  LET r == e.signed_root_blob IN
  /\ RootFromIcp(e.leaf_index, r.tree_size, e.proofs, r.leaf_hash) = r.root_hash
  /\ r.key = key

EncodeEntry(e, next) ==
  << << "entry", [log_url_size |-> Len(e.log_url), leaf_index |-> e.leaf_index,
                  signed_root_blob_size |-> 1, proof_hash_count |-> Len(e.proofs),
                  proof_size |-> Len(e.proofs), next_entry |-> next] >> >>
  \o << << "url", e.log_url[1] >>, << "root", e.signed_root_blob >> >> \o e.proofs

(* The header of the blob and the entries behind it, marked as they are.   *)
EncodeMarked(es, next) ==
  LET b[n \in 0..Len(es)] == IF n = 0 THEN << << "icp", Len(es) >> >>
                             ELSE b[n - 1] \o EncodeEntry(es[n], next[n])
  IN  b[Len(es)]

(* Mutant: the marker is set on the entry that is added.                   *)
EncodeMarkedOnAdd(es) == EncodeMarked(es, [n \in DOMAIN es |-> IF n > 1 THEN 1 ELSE 0])

(* AvbIcpBlob.encode: each entry is marked when another is added behind it.*)
EncodeBlob(es) == EncodeMarked(es, [n \in DOMAIN es |-> IF n < Len(es) THEN 1 ELSE 0])

(* AvbIcpEntry(data): a last entry has to end where the data ends, and no  *)
(* entry can be longer than the data.                                      *)
ExpectedSize(h) == 1 + h.log_url_size + h.signed_root_blob_size + h.proof_size

EntryRefused(data) ==
  \/ data[1][1] # "entry"
  \/ LET size == ExpectedSize(data[1][2]) IN
     \/ Len(data) < size
     \/ Len(data) # size /\ data[1][2].next_entry = 0

(* Without data the constructor makes an entry of zeros.                   *)
Blank == [log_url |-> << >>, leaf_index |-> 0, signed_root_blob |-> {}, proofs |-> << >>]

DecodeEntry(data) ==
  LET h == data[1][2] IN
  [log_url |-> << data[2][2] >>, leaf_index |-> h.leaf_index, signed_root_blob |-> data[3][2],
   proofs |-> SubSeq(data, 4, 3 + h.proof_hash_count)]

(* What is left, what was found, and how the loop is.                      *)
Loop(data, es, state) == [data |-> data, entries |-> es, state |-> state]

(* Mutant: the loop ends quietly where the data ends.                      *)
NextEntryIfAny(l, last) ==
  IF l.data = << >> THEN Loop(l.data, l.entries, "ok")
  ELSE CASE l.state # "on" -> l
         [] l.state = "on" /\ EntryRefused(l.data) -> Loop(l.data, l.entries, "refused")
         [] OTHER -> LET h == l.data[1][2] IN
                     Loop(SubSeq(l.data, ExpectedSize(h) + 1, Len(l.data)),
                          Append(l.entries, DecodeEntry(l.data)), "on")

(* One turn of the loop of AvbIcpBlob(data).                               *)
NextEntry(l, last) ==
  CASE l.state # "on" -> l
    [] l.state = "on" /\ l.data = << >> ->
         Loop(l.data, Append(l.entries, Blank), IF last THEN "ok" ELSE "refused")
    [] l.state = "on" /\ l.data # << >> /\ EntryRefused(l.data) ->
         Loop(l.data, l.entries, "refused")
    [] OTHER ->
       LET h == l.data[1][2] IN
       Loop(SubSeq(l.data, ExpectedSize(h) + 1, Len(l.data)),
            Append(l.entries, DecodeEntry(l.data)),
            CASE h.next_entry = 1 /\ ~last -> "on"
              [] h.next_entry = 0 /\ ~last -> "refused"
              [] OTHER -> "ok")

DecodeBlob(data) ==
  LET count == data[1][2]
      l[n \in 0..count] == IF n = 0 THEN Loop(Tail(data), << >>, "on")
                           ELSE NextEntry(l[n - 1], n = count)
  IN  l[count]

(* info_image_icp: "none" when there are no proofs; "refused" when reading *)
(* them raises.                                                            *)
InfoImageIcp(file) ==
  LET data == SubSeq(file, VbmetaSize + 1,
                     IF Len(file) < VbmetaSize + ReadLimit THEN Len(file)
                     ELSE VbmetaSize + ReadLimit)
  IN  CASE Len(file) < VbmetaSize -> Loop(data, << >>, "refused")
        [] Len(file) >= VbmetaSize /\ (data = << >> \/ data[1][1] # "icp") ->
             Loop(data, << >>, "none")
        [] OTHER -> DecodeBlob(data)

-----------------------------------------------------------------------------
(* The logs.                                                               *)

Server == servers[at]

(* Others' leaves.  Those a log gets while nobody waits for it are leaves  *)
(* it could have had at the start (StartTrees).                            *)
Grow ==
  /\ pc = "request" /\ asked
  /\ Len(tree[Server]) < MaxLeaves[Server]
  /\ tree' = [tree EXCEPT ![Server] = Append(@, << "other", Len(@) >>)]
  /\ UNCHANGED << image, servers, at, asked, entries, output, result, pc >>

Places(leaves, leaf) == {p \in 1..Len(leaves) : leaves[p] = leaf}

Answer(leaf, index, leaves, proofs, key) ==
  [leaf |-> leaf, index |-> index, size |-> Len(leaves), root |-> RootHash(leaves),
   proofs |-> proofs, key |-> key, whole |-> TRUE]

(* What a log that works can answer: the proof of a place of the leaf in a *)
(* tree it has had since.                                                  *)
GoodAnswers(l, leaf) ==
  UNION {{Answer(leaf, p - 1, SubSeq(tree[l], 1, n), InclusionProof(SubSeq(tree[l], 1, n), p - 1), l) :
            n \in p..Len(tree[l])} :
         p \in Places(tree[l], leaf)}

(* What one that does not can answer instead: another index, a proof that  *)
(* is cut, another leaf, a signature with another key or not as long as it *)
(* should be; an index past the tree.                                      *)
BadAnswers(l, leaf) ==
  UNION {{[g EXCEPT !.index = k] : k \in (0..g.size) \ {g.index}}
         \cup {[g EXCEPT !.proofs = SubSeq(@, 1, Len(@) - 1)]}
         \cup {[g EXCEPT !.leaf = << "unlogged" >>], [g EXCEPT !.key = "nobody"],
               [g EXCEPT !.whole = FALSE]} :
         g \in GoodAnswers(l, leaf)}

-----------------------------------------------------------------------------
(* The command.                                                            *)

(* The parameters are checked before; opening the output empties it.       *)
Start ==
  /\ pc = "idle"
  /\ servers' \in {s \in SeqOf(Log, Cardinality(Log)) : s # << >> /\ IsInjective(s)}
  /\ at' = 1 /\ asked' = FALSE /\ entries' = << >> /\ output' = << >> /\ result' = "none"
  /\ pc' = "request"
  /\ UNCHANGED << tree, image >>

(* The request reaches the log, which takes the leaf in.                   *)
Request ==
  /\ pc = "request" /\ at <= Len(servers) /\ ~asked
  /\ Len(tree[Server]) < MaxLeaves[Server]
  /\ tree' = [tree EXCEPT ![Server] = Append(@, Leaf(image))]
  /\ asked' = TRUE
  /\ UNCHANGED << image, servers, at, entries, output, result, pc >>

(* A channel that fails, before or after the log has the leaf.             *)
RpcError ==
  /\ pc = "request" /\ at <= Len(servers)
  /\ at' = at + 1 /\ asked' = FALSE
  /\ UNCHANGED << tree, image, servers, entries, output, result, pc >>

(* Mutant: the key is looked up at the place the entry will have.          *)
KeyOfEntry == servers[Len(entries) + 1]

(* transparency_log_pub_keys[i], the key of the log at i.                  *)
Key == Server

(* The entry is kept whether or not it could be verified; an index that is *)
(* not in the tree raises, and the server is skipped.                      *)
Receive(a, good) ==
  LET e == Entry(Server, a) IN
  entries' = IF a.index >= a.size THEN entries
             ELSE Append(entries, [entry |-> e, good |-> good, verified |-> VerifyIcp(e, Key)])

Answered ==
  /\ pc = "request" /\ at <= Len(servers) /\ asked
  /\ \/ \E a \in GoodAnswers(Server, Leaf(image)) : Receive(a, TRUE)
     \/ \E a \in BadAnswers(Server, Leaf(image)) : Receive(a, FALSE)
  /\ at' = at + 1 /\ asked' = FALSE
  /\ UNCHANGED << tree, image, servers, output, result, pc >>

Icps == [n \in DOMAIN entries |-> entries[n].entry]

Accepted ==
  /\ entries # << >>
  /\ \A n \in DOMAIN entries : IsValid(entries[n].entry)
  /\ ~HasFooter(image)

NulPadding(size, p) == IF p = 0 THEN << >> ELSE [n \in 1..((0 - size) % p) |-> Pad]

Whole(p) ==
  LET file == VbmetaOf(image) \o EncodeBlob(Icps) IN file \o NulPadding(Len(file), p)

Finish ==
  /\ pc = "request" /\ at > Len(servers)
  /\ IF Accepted THEN result' = "True" /\ \E p \in PaddingSizes : output' = Whole(p)
     ELSE result' = "False" /\ output' = output
  /\ pc' = "done"
  /\ UNCHANGED << tree, image, servers, at, asked, entries >>

(* A kill leaves as much of the output as has been flushed.                *)
Killed ==
  /\ pc = "request" /\ at > Len(servers) /\ Accepted
  /\ pc' = "killed"
  /\ \E n \in 0..(Len(Whole(0)) - 1) : output' = SubSeq(Whole(0), 1, n)
  /\ UNCHANGED << tree, image, servers, at, asked, entries, result >>

(* What the command is given: a vbmeta image as it was made, one with the  *)
(* proofs of an earlier command behind it, or a partition with a footer.   *)
OldEntry(v) ==
  LET l == CHOOSE l \in Log : TRUE IN
  Entry(l, Answer(<< "firmware", v >>, 0, << << "firmware", v >> >>, << >>, l))

Init ==
  /\ tree \in {t \in [Log -> UNION {StartTrees[l] : l \in Log}] : \A l \in Log : t[l] \in StartTrees[l]}
  /\ \E v \in Vbmeta : \/ image \in {Blob(v), Append(Blob(v), << "footer" >>)}
                       \/ image = Blob(v) \o EncodeBlob(<< OldEntry(v) >>)
  /\ servers = << >> /\ at = 1 /\ asked = FALSE /\ entries = << >>
  /\ output = << >> /\ result = "none" /\ pc = "idle"

Next == Grow \/ Start \/ Request \/ RpcError \/ Answered \/ Finish \/ Killed

Spec == Init /\ [][Next]_vars

-----------------------------------------------------------------------------
(* A log that works is believed: whatever tree it answers from, as it      *)
(* grows meanwhile, and whichever logs before it failed.                   *)
GoodAnswersVerify ==
  \A n \in DOMAIN entries : entries[n].good => entries[n].verified

(* verify_icp is not fooled by a log that answers wrongly: the leaf of an  *)
(* entry it accepted is in the tree whose root that log's key signed.      *)
VerifiedLeafIsLogged ==
  \A n \in DOMAIN entries : entries[n].verified =>
    LET e == entries[n].entry IN
    \E p \in 1..e.signed_root_blob.tree_size :
      HashLeaf(tree[e.log_url[1]][p]) = e.signed_root_blob.leaf_hash

(* Behind the vbmeta blob of its image the file of a command that returned *)
(* True holds the proofs this command got, none of them twice and none of  *)
(* those the image came with:  info_image_icp reads them when the file has *)
(* no padding.  With padding it raises, for the last entry has to end      *)
(* where the file does.                                                    *)
OutputReadsBack ==
  result = "True" =>
    LET read == InfoImageIcp(output) IN
    /\ VbmetaOf(output) = VbmetaOf(image)
    /\ Len(output) = VbmetaSize + Len(EncodeBlob(Icps)) =>
         read.state = "ok" /\ read.entries = Icps
    /\ Len(output) > VbmetaSize + Len(EncodeBlob(Icps)) => read.state = "refused"

(* What the docstring says of the result: True only if inclusion proofs    *)
(* "could be successfully validated".                                      *)
TrueMeansValidated == result = "True" => \E n \in DOMAIN entries : entries[n].verified

(* A file that a kill has cut is never read as one with fewer proofs, or   *)
(* with a proof that is not there, other than the one of zeros.            *)
CutNeverShort ==
  pc = "killed" /\ InfoImageIcp(output).state = "ok" =>
    /\ Len(InfoImageIcp(output).entries) = Len(Icps)
    /\ \A n \in DOMAIN Icps : InfoImageIcp(output).entries[n] \in {Icps[n], Blank}
=============================================================================
