------------------------------ MODULE AvbVerify ------------------------------
(***************************************************************************)
(* avbtool 1.2: partitions are signed, a vbmeta image is made from them,   *)
(* and verify_image checks it, one file and one descriptor at a time,      *)
(* while partitions may be built and signed anew or be damaged.  A file is *)
(* a sequence of cells: a block of data or of a hash tree, the header of a *)
(* vbmeta blob, a hash, a signature, a cell of a descriptor, a key.        *)
(***************************************************************************)
EXTENDS AvbDescriptors, HashTree, FiniteSets

CONSTANTS Part,         \* the partitions
          Top,          \* the name of the file of the vbmeta image
          Key,          \* the signing keys
          NoKey,        \* no key: of algorithm NONE, or none to check with
          BlobAlign,    \* what the blocks of a vbmeta blob are filled up to
          StartFiles,   \* bound: the partitions' files at the start
          NewFiles,     \* bound: what a partition is built and signed as later
          MakeCommand,  \* bound: the command lines of make_vbmeta_image
          VerifyCommand,\* bound: those of verify_image
          MaxChanges    \* bound: how often a file changes once vbmeta is made

ASSUME VerifyAssumption ==
  /\ BlobAlign \in Nat \ {0} /\ MaxChanges \in Nat
  /\ Top \notin Part /\ NoKey \notin Key
  /\ Zero[1] \notin {"AVB0", "AVBf", "signature", "descriptor", "hash"}

VARIABLES file,     \* the files, by name
          made,     \* the command line of make_vbmeta_image, and the descriptors
                    \* that files had then
          changes,  \* how many files have been changed since
          args,     \* the command line of verify_image
          frame,    \* the image that is verified, and the descriptors parsed from it
          outer,    \* the frame of the image that chains to it, or none
          gen,      \* generate_hash_tree
          touched,  \* the files changed since the command began
          pc

vars == << file, made, changes, args, frame, outer, gen, touched, pc >>

-----------------------------------------------------------------------------
(* A vbmeta blob.                                                          *)

Digest(header, aux) == << "digest", header, aux >>
Signature(key, header, aux) == << "signature", key, header, aux >>

(* The header of an algorithm other than NONE has room for a hash and a    *)
(* signature; the auxiliary block holds the descriptors and then the key.  *)
Header(key, encoded, location, minor) ==
  LET hash == IF key = NoKey THEN 0 ELSE 1 IN
  << "AVB0", [authentication_data_block_size |-> RoundUp(2 * hash, BlobAlign),
              auxiliary_data_block_size |-> RoundUp(Len(encoded) + hash, BlobAlign),
              algorithm |-> IF key = NoKey THEN "NONE" ELSE "RSA",
              hash_offset |-> 0, hash_size |-> hash,
              signature_offset |-> hash, signature_size |-> hash,
              descriptors_offset |-> 0, descriptors_size |-> Len(encoded),
              public_key_offset |-> Len(encoded), public_key_size |-> hash,
              minor |-> minor, rollback_index_location |-> location] >>

(* _generate_vbmeta_blob, from the encoded descriptors on.                 *)
Blob(key, encoded, location, minor) ==
  LET header == Header(key, encoded, location, minor)
      content == encoded \o (IF key = NoKey THEN << >> ELSE << KeyCell(key) >>)
      aux == content \o Zeros(header[2].auxiliary_data_block_size - Len(content))
      auth == IF key = NoKey THEN << >>
              ELSE << Digest(header, aux), Signature(KeyCell(key), header, aux) >>
  IN  << header >> \o auth \o Zeros(header[2].authentication_data_block_size - Len(auth)) \o aux

(* What the sizes of a header say is where.                                *)
Slice(blob, offset, size) == Upto(blob, offset, size)
AuxOffset(h) == 1 + h.authentication_data_block_size
AuxBlob(h, blob) == Slice(blob, AuxOffset(h), h.auxiliary_data_block_size)
KeyBlob(h, blob) == Slice(blob, AuxOffset(h) + h.public_key_offset, h.public_key_size)

(* Mutant: the signature is checked against the header and the descriptors *)
(* but the stored hash is not compared with the computed one.              *)
SignatureOfHash(h, blob) ==
  \/ h.algorithm = "NONE"
  \/ LET digest == Slice(blob, 1 + h.hash_offset, h.hash_size)
         sig == Slice(blob, 1 + h.signature_offset, h.signature_size)
     IN  sig[1][1] = "signature" /\ digest[1][1] = "digest"
         /\ << sig[1][3], sig[1][4] >> = << digest[1][2], digest[1][3] >>

(* verify_vbmeta_signature: the hash is the one of the header and the      *)
(* auxiliary block, and the signature is of it, by the embedded key.       *)
SignatureVerifies(h, blob) ==
  \/ h.algorithm = "NONE"
  \/ LET aux == AuxBlob(h, blob)
         key == KeyBlob(h, blob)
     IN  /\ Slice(blob, 1 + h.hash_offset, h.hash_size) = << Digest(blob[1], aux) >>
         /\ Slice(blob, 1 + h.signature_offset, h.signature_size)
              = << Signature(key[1], blob[1], aux) >>

(* _parse_image: the header and the descriptors, if it does not raise.     *)
HasFooter(f) == f # << >> /\ f[Len(f)][1] = "AVBf"
VbmetaOffset(f) == IF HasFooter(f) THEN f[Len(f)][2].vbmeta_offset ELSE 0

HasHeader(f) == Len(f) > VbmetaOffset(f) /\ f[VbmetaOffset(f) + 1][1] = "AVB0"
HeaderOf(f) == f[VbmetaOffset(f) + 1][2]

DescriptorsOf(h, f) ==
  Slice(f, VbmetaOffset(f) + AuxOffset(h) + h.descriptors_offset, h.descriptors_size)

Parses(f) == HasHeader(f) /\ Accepted(DescriptorsOf(HeaderOf(f), f))
Descs(f) == IF Parses(f) THEN ParseDescriptors(DescriptorsOf(HeaderOf(f), f)) ELSE << >>

(* The blob verify_image reads.                                            *)
BlobOf(f) ==
  Slice(f, VbmetaOffset(f), AuxOffset(HeaderOf(f)) + HeaderOf(f).auxiliary_data_block_size)

-----------------------------------------------------------------------------
(* The files of partitions, as AvbFooters' commands leave them; what is    *)
(* between the blob and the footer is left out.                            *)

WithFooter(data, rest, blob) ==
  data \o rest \o blob
  \o << << "AVBf", [original_image_size |-> Len(data), vbmeta_offset |-> Len(data) + Len(rest),
                    vbmeta_size |-> Len(blob)] >> >>

HashDigest(salt, data) == << << "sha256", salt, data >> >>

(* add_hash_footer; with --use_persistent_digest the descriptor has no     *)
(* digest.                                                                 *)
HashFooterImage(name, data, key, persistent) ==
  LET salt == IF persistent THEN << >> ELSE << << "salt" >> >>
      d == HashDescriptor(name, Len(data), salt,
                          IF persistent THEN << >> ELSE HashDigest(salt, data))
  IN  WithFooter(data, << >>, Blob(key, Encode(d), 0, IF persistent THEN 1 ELSE 0))

(* The two command lines of --setup_as_rootfs_from_kernel and of           *)
(* --setup_rootfs_from_kernel.                                             *)
RootfsCmdlines(ht) ==
  << CmdlineDescriptor("unless_disabled", << "verity", ht.fixed.image_size, ht.var[3] >>),
     CmdlineDescriptor("if_disabled", << "plain" >>) >>

(* add_hashtree_footer; with --no_hashtree the tree is not kept.           *)
HashtreeFooterImage(name, data, key, keepTree, setup, location) ==
  LET tree == IF keepTree THEN VerityTree(data) ELSE << >>
      d == HashtreeDescriptor(name, Len(data), Len(data), Len(tree), << << "salt" >> >>,
                              << VerityRoot(data) >>)
      ds == << d >> \o (IF setup THEN RootfsCmdlines(d) ELSE << >>)
  IN  WithFooter(data, tree,
                 Blob(key, EncodeAll(ds), location, IF location > 0 THEN 2 ELSE 0))

ZeroMark == << "ZeRoHaSH" >>

(* zero_hashtree: the marker in the first block, zeros in the others.      *)
Zeroed(f, ht) ==
  [i \in DOMAIN f |->
     IF i - ht.fixed.tree_offset \notin 1..ht.fixed.tree_size THEN f[i]
     ELSE IF i - ht.fixed.tree_offset = 1 THEN ZeroMark ELSE Zero]

-----------------------------------------------------------------------------
(* make_vbmeta_image.                                                      *)

(* Rollback index locations are used once, and above 0.                    *)
ChainsAccepted(c) ==
  \A i \in DOMAIN c.chain :
    /\ c.chain[i].location >= 1
    /\ c.chain[i].location # c.location
    /\ \A j \in 1..(i - 1) : c.chain[i].location # c.chain[j].location

ChainDescriptors(c) ==
  [i \in DOMAIN c.chain |-> ChainDescriptor(c.chain[i].name, c.chain[i].location, c.chain[i].key)]

FirstHashtree(ds) ==
  ds[CHOOSE i \in DOMAIN ds : /\ ds[i].tag = HashtreeTag
                              /\ \A j \in 1..(i - 1) : ds[j].tag # HashtreeTag]

(* --setup_rootfs_from_kernel, given or not: the first hashtree descriptor *)
(* of an image.                                                            *)
SetupDescriptors(c, files) ==
  FlattenSeq([i \in DOMAIN c.setup |-> RootfsCmdlines(FirstHashtree(Descs(files[c.setup[i]])))])

SetupAccepted(c, files) ==
  \A i \in DOMAIN c.setup : \E d \in ToSet(Descs(files[c.setup[i]])) : d.tag = HashtreeTag

(* The descriptors of the images, in the order they are given.             *)
Found(c, files) == FlattenSeq([i \in DOMAIN c.include |-> Descs(files[c.include[i]])])

SameDescriptor(d, e) == HasPartitionName(d) /\ d.tag = e.tag /\ d.var[1] = e.var[1]

(* Mutant: the first of the descriptors of a partition is the one kept.    *)
FirstSeen(ds) ==
  {i \in DOMAIN ds : HasPartitionName(ds[i]) /\ \A j \in 1..(i - 1) : ~SameDescriptor(ds[i], ds[j])}

(* descriptors_dict: of the descriptors of one class for one partition the *)
(* last one is kept.                                                       *)
LastSeen(ds) ==
  {i \in DOMAIN ds : HasPartitionName(ds[i]) /\
                     \A j \in (i + 1)..Len(ds) : ~SameDescriptor(ds[i], ds[j])}

(* Those that name no partition come first, in their order; the others     *)
(* are sorted by class and name, which is some order.                      *)
IncludedDescriptors(c, files) ==
  LET ds == Found(c, files) IN
  FlattenSeq([i \in DOMAIN ds |-> IF HasPartitionName(ds[i]) THEN << >> ELSE << ds[i] >>])
    \o SetToSeq({ds[i] : i \in LastSeen(ds)})

Highest(s) == CHOOSE n \in s : \A k \in s : k <= n

(* The version of libavb that all that is included needs.                  *)
RequiredMinor(c, files) ==
  Highest({IF c.location > 0 THEN 2 ELSE 0}
            \cup {HeaderOf(files[c.include[i]]).minor : i \in DOMAIN c.include})

MakeAccepted(c, files) ==
  /\ \A i \in DOMAIN c.include : Parses(files[c.include[i]])
  /\ ChainsAccepted(c) /\ SetupAccepted(c, files)

VbmetaImage(c, files) ==
  Blob(c.key,
       EncodeAll(ChainDescriptors(c) \o << PropertyDescriptor("fingerprint", "build") >>
                 \o SetupDescriptors(c, files) \o IncludedDescriptors(c, files)),
       c.location, RequiredMinor(c, files))

(* The output is opened "wb" and empty before the command looks at its     *)
(* arguments, and the command writes nothing before the whole blob is      *)
(* made: a command that is refused leaves the empty file of Init and may   *)
(* be given again, a step that changes nothing here.  The included images  *)
(* are parsed twice, for the version and for the descriptors; nobody       *)
(* changes them in between, MayChange begins after the command (a bound).  *)
MakeVbmeta ==
  /\ pc = "make"
  /\ \E c \in MakeCommand :
       /\ MakeAccepted(c, file)
       /\ file' = [file EXCEPT ![Top] = VbmetaImage(c, file)]
       /\ made' = [cmd |-> c, descs |-> [n \in DOMAIN file |-> Descs(file'[n])]]
  /\ pc' = "idle"
  /\ UNCHANGED << changes, args, frame, outer, gen, touched >>

(* A partition built and signed anew, its tree zeroed, or a cell of a file *)
(* damaged, before verify_image is run or while it runs.                   *)
Become(n, f) ==
  /\ file[n] # f
  /\ file' = [file EXCEPT ![n] = f]
  /\ touched' = touched \cup {n}
  /\ changes' = changes + 1
  /\ UNCHANGED << made, args, frame, outer, gen, pc >>

MayChange == pc \notin {"make", "ok", "failed"} /\ changes < MaxChanges

BuildAnew == MayChange /\ \E p \in Part : \E f \in NewFiles[p] : Become(p, f)

ZeroHashtree ==
  /\ MayChange
  /\ \E p \in Part : \E d \in ToSet(Descs(file[p])) :
       d.tag = HashtreeTag /\ d.fixed.tree_size > 0 /\ Become(p, Zeroed(file[p], d))

Damage ==
  /\ MayChange /\ pc = "idle"
  /\ \E n \in Part \cup {Top} : \E i \in DOMAIN file[n] :
       Become(n, [file[n] EXCEPT ![i] = << "damaged" >>])

-----------------------------------------------------------------------------
(* verify_image.                                                           *)

Frame(name, follow, expected) ==
  [name |-> name, follow |-> follow, expected |-> expected, descs |-> << >>, at |-> 0]

Start ==
  /\ pc = "idle"
  /\ args' \in VerifyCommand
  /\ frame' = Frame(args'.image, args'.follow, args'.expected)
  /\ outer' = << >>
  /\ touched' = {}
  /\ pc' = "open"
  /\ UNCHANGED << file, made, changes, gen >>

Checked(f) ==
  /\ Parses(f)
  /\ SignatureVerifies(HeaderOf(f), BlobOf(f))
  /\ args.key = NoKey \/ KeyBlob(HeaderOf(f), BlobOf(f)) = << KeyCell(args.key) >>

(* The image is parsed; its signature and key are checked.                 *)
Open ==
  /\ pc = "open"
  /\ frame' = [frame EXCEPT !.descs = Descs(file[frame.name]), !.at = 1]
  /\ pc' = IF Checked(file[frame.name]) THEN "descriptors" ELSE "failed"
  /\ UNCHANGED << file, made, changes, args, outer, gen, touched >>

Desc == frame.descs[frame.at]
More == frame.at <= Len(frame.descs)

(* The file a descriptor names, if there is one.                           *)
Named(d) == {n \in Part \cup {Top} : Names(d, n)}

Verdict(ok) ==
  IF ok THEN frame' = [frame EXCEPT !.at = @ + 1] /\ pc' = "descriptors"
  ELSE pc' = "failed" /\ frame' = frame

(* Properties and command lines have nothing to verify.                    *)
PassOver ==
  /\ pc = "descriptors" /\ More /\ Desc.tag \in {PropertyTag, CmdlineTag}
  /\ Verdict(TRUE)
  /\ UNCHANGED << file, made, changes, args, outer, gen, touched >>

(* Mutant: an image that is longer than the descriptor's is hashed whole.  *)
HashOfFile(d, f) ==
  d.var[3] = << >> \/ HashDigest(d.var[2], f) = d.var[3]

(* The digest of the first image_size bytes, unless there is no digest.    *)
HashMatches(d, f) ==
  d.var[3] = << >> \/ HashDigest(d.var[2], Upto(f, 0, d.fixed.image_size)) = d.var[3]

VerifyHash ==
  /\ pc = "descriptors" /\ More /\ Desc.tag = HashTag
  /\ Verdict(\E n \in Named(Desc) : HashMatches(Desc, file[n]))
  /\ UNCHANGED << file, made, changes, args, outer, gen, touched >>

VerifyHashtree ==
  /\ pc = "descriptors" /\ More /\ Desc.tag = HashtreeTag
  /\ IF Named(Desc) = {} THEN pc' = "failed" /\ UNCHANGED gen
     ELSE pc' = "tree" /\ gen' = StartTree(Desc.fixed.image_size)
  /\ UNCHANGED << file, made, changes, args, frame, outer, touched >>

ImageRead == Upto(file[CHOOSE n \in Named(Desc) : TRUE], ImageBlock(gen), 1)

(* A block of the image, or of the array.  What is left to read of an      *)
(* image that has ended never gets less: there is no step then.            *)
HashNextBlock ==
  /\ pc = "tree" /\ ~TreeDone(gen)
  /\ \/ /\ ReadsImage(gen) /\ ImageRead # << >>
        /\ gen' = IF gen.size = 1 THEN HashOnlyBlock(gen, ImageRead[1])
                  ELSE HashBlock(gen, ImageRead[1])
     \/ ~ReadsImage(gen) /\ gen' = HashBlock(gen, ArrayBlock(gen))
  /\ UNCHANGED << file, made, changes, args, frame, outer, touched, pc >>

(* A single block that is not there is hashed as it is read.               *)
HashEmptyImage ==
  /\ pc = "tree" /\ ~TreeDone(gen) /\ gen.size = 1 /\ ImageRead = << >>
  /\ gen' = HashOnlyBlock(gen, << >>)
  /\ UNCHANGED << file, made, changes, args, frame, outer, touched, pc >>

OnDisk(d, f) == Upto(f, d.fixed.tree_offset, d.fixed.tree_size)
IsZeroed(d, disk) == d.fixed.tree_size = 0 \/ Upto(disk, 0, 1) = << ZeroMark >>

(* The root, and the tree in the file unless zeros are accepted in it.     *)
TreeMatches(d, f) ==
  /\ d.var[3] = << >> \/ gen.root = d.var[3][1]
  /\ \/ args.accept_zeroed /\ IsZeroed(d, OnDisk(d, f))
     \/ OnDisk(d, f) = gen.tree

CompareTree ==
  /\ pc = "tree" /\ TreeDone(gen)
  /\ Verdict(\E n \in Named(Desc) : TreeMatches(Desc, file[n]))
  /\ gen' = StartTree(0)
  /\ UNCHANGED << file, made, changes, args, outer, touched >>

(* expected_chain_partitions_map.get: what is expected of its partition.   *)
Expected(d) == {e \in frame.expected : Names(d, e.name)}

ChainMatches(d) ==
  \E e \in Expected(d) : d = ChainDescriptor(e.name, e.location, e.key)

(* Mutant: the partitions a chained image chains to are followed as well.  *)
FollowAll(d) ==
  \E n \in Named(d) : frame' = Frame(n, TRUE, {})

(* verify_image again, with nothing expected or followed any more.         *)
Follow(d) ==
  \E n \in Named(d) : frame' = Frame(n, FALSE, {})

VerifyChain ==
  /\ pc = "descriptors" /\ More /\ Desc.tag = ChainTag
  /\ ChainMatches(Desc) \/ (frame.follow /\ Expected(Desc) = {})
  /\ IF frame.follow
     THEN Follow(Desc) /\ outer' = << [frame EXCEPT !.at = @ + 1] >> /\ pc' = "open"
     ELSE Verdict(TRUE) /\ UNCHANGED outer
  /\ UNCHANGED << file, made, changes, args, gen, touched >>

(* A chained partition that is not as expected, or not there.              *)
RefuseChain ==
  /\ pc = "descriptors" /\ More /\ Desc.tag = ChainTag
  /\ \/ ~ChainMatches(Desc) /\ ~(frame.follow /\ Expected(Desc) = {})
     \/ frame.follow /\ Named(Desc) = {}
  /\ pc' = "failed"
  /\ UNCHANGED << file, made, changes, args, frame, outer, gen, touched >>

Return ==
  /\ pc = "descriptors" /\ ~More
  /\ IF outer = << >> THEN pc' = "ok" /\ UNCHANGED << frame, outer >>
     ELSE frame' = outer[1] /\ outer' = << >> /\ pc' = pc
  /\ UNCHANGED << file, made, changes, args, gen, touched >>

Verify ==
  \/ Open \/ PassOver \/ VerifyHash \/ VerifyHashtree \/ HashNextBlock \/ HashEmptyImage
  \/ CompareTree \/ VerifyChain \/ RefuseChain \/ Return

Init ==
  /\ \E f \in StartFiles : file = [n \in Part \cup {Top} |-> IF n = Top THEN << >> ELSE f[n]]
  /\ made = << >> /\ changes = 0 /\ args = << >>
  /\ frame = Frame(Top, FALSE, {}) /\ outer = << >> /\ gen = StartTree(0) /\ touched = {} /\ pc = "make"

Next ==
  \/ MakeVbmeta \/ BuildAnew \/ ZeroHashtree \/ Damage \/ Start \/ Verify

Spec == Init /\ [][Next]_vars /\ WF_vars(Verify)

-----------------------------------------------------------------------------
(* Properties.                                                             *)

IsFromLastImage(d, c, files) ==
  \E i \in DOMAIN c.include :
    /\ d \in ToSet(Descs(files[c.include[i]]))
    /\ \A j \in (i + 1)..Len(c.include) :
         \A e \in ToSet(Descs(files[c.include[j]])) : ~SameDescriptor(d, e)

(* What make_vbmeta_image took from the images is read back from its       *)
(* output: one descriptor for each class and partition, that of the last   *)
(* image with one, and a version no lower than any of the images'          *)
(* (avbtool.v1.2.py:3131-3155).                                            *)
LastIsIncluded ==
  pc = "idle" /\ changes = 0 =>
  LET c == made.cmd
      ds == Descs(file[Top])
      partitions == {d \in ToSet(Found(c, file)) : HasPartitionName(d)}
  IN  /\ Parses(file[Top])
      /\ \A d \in partitions :
           /\ Cardinality({i \in DOMAIN ds : SameDescriptor(d, ds[i])}) = 1
           /\ \E e \in ToSet(ds) : SameDescriptor(d, e) /\ IsFromLastImage(e, c, file)
      /\ \A i \in DOMAIN c.include :
           HeaderOf(file[Top]).minor >= HeaderOf(file[c.include[i]]).minor

(* The tree and the root that are compared with those of the image are     *)
(* what dm-verity expects of its blocks, if it has not changed since       *)
(* (generate_hash_tree, avbtool.v1.2.py:4098-4166).                        *)
TreeIsMerkle ==
  pc = "tree" /\ TreeDone(gen) /\ Named(Desc) \cap touched = {} =>
    \A n \in Named(Desc) :
      LET data == Upto(file[n], 0, gen.size) IN
      Len(data) = gen.size =>
        gen.root = VerityRoot(data) /\ gen.tree = VerityTree(data)

(* The images a command verifies: its own and those it follows.            *)
ChainsOf(n) == {d \in ToSet(Descs(file[n])) : d.tag = ChainTag}
Followed == IF args.follow THEN UNION {Named(d) : d \in ChainsOf(args.image)} ELSE {}
Frames == {Frame(args.image, args.follow, args.expected)}
          \cup {Frame(n, FALSE, {}) : n \in Followed}
IsSigned(n) == HeaderOf(file[n]).algorithm # "NONE"
SignedBy(n, key) == KeyBlob(HeaderOf(file[n]), BlobOf(file[n])) = << KeyCell(key) >>

(* The descriptors a signer put into an image.                             *)
Issued(n) == {made.descs[n]} \cup (IF n \in Part THEN {Descs(f) : f \in NewFiles[n]} ELSE {})

Matches(d, f) ==
  LET data == Upto(f, 0, d.fixed.image_size) IN
  IF d.tag = HashTag THEN d.var[3] \in {<< >>, HashDigest(d.var[2], data)}
  ELSE /\ d.var[3] = << VerityRoot(data) >>
       /\ \/ OnDisk(d, f) = VerityTree(data)
          \/ args.accept_zeroed /\ (OnDisk(d, f) = << >> \/ OnDisk(d, f)[1] = ZeroMark)

(* A command that succeeds has seen that, of the files nobody changed      *)
(* while it ran, the signed ones hold what was signed, by the key it was   *)
(* given, and the partitions hold what their descriptors describe          *)
(* (verify_image, avbtool.v1.2.py:2494-2590).                              *)
VerifiedIsTrue ==
  pc = "ok" => \A n \in {r.name : r \in Frames} \ touched :
    /\ args.key = NoKey \/ SignedBy(n, args.key)
    /\ IsSigned(n) => Descs(file[n]) \in Issued(n)
    /\ \A d \in ToSet(Descs(file[n])) : \A m \in Named(d) \ touched :
         d.tag \in {HashTag, HashtreeTag} => Matches(d, file[m])

(* What may be said against an image when nothing has been changed: it is  *)
(* signed with another key; a chained partition is not as expected; a tree *)
(* is not kept; or a descriptor is not from the partition's own image.     *)
Objection(r) ==
  LET ds == ToSet(Descs(file[r.name])) IN
      \/ args.key # NoKey /\ ~SignedBy(r.name, args.key)
      \/ \E d \in ChainsOf(r.name) :
           LET known == {e \in r.expected : Names(d, e.name)} IN
           IF known = {} THEN ~r.follow
           ELSE d \notin {ChainDescriptor(e.name, e.location, e.key) : e \in known}
      \/ \E d \in ds : /\ d.tag = HashtreeTag /\ ~args.accept_zeroed
                       /\ d.fixed.tree_size # TreeSize(d.fixed.image_size)
      \/ \E d \in ds : /\ d.tag \in {HashTag, HashtreeTag}
                       /\ \E m \in Named(d) : d \notin ToSet(Descs(file[m]))

(* Images as the commands left them are only refused for a reason          *)
(* (avbtool.v1.2.py:2494-2590 on the output of 2907-3240).                 *)
RefusedForAReason ==
  pc = "failed" /\ changes = 0 => \E r \in Frames : Objection(r)

(* The image that is read is shorter than its descriptor says.             *)
ImageEnds == pc = "tree" /\ ReadsImage(gen) /\ ImageRead = << >>

(* A command comes to a verdict, even on images that chain to each other,  *)
(* unless an image ends early (avbtool.v1.2.py:2585-2590, 4141-4152).      *)
VerdictIsReached == pc = "open" ~> (pc \in {"ok", "failed"} \/ ImageEnds)
=============================================================================
