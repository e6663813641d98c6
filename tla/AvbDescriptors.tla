--------------------------- MODULE AvbDescriptors ---------------------------
(***************************************************************************)
(* The descriptors of a vbmeta blob and their encoding.  A descriptor is   *)
(* its tag, its fixed fields and its variable ones; it is encoded as one   *)
(* cell for the fixed part, which holds the lengths of the others, then    *)
(* those, filled up to Align.  A field of no cells is an empty string.     *)
(***************************************************************************)
EXTENDS Integers, Sequences, SequencesExt

CONSTANTS Align,    \* what descriptors are filled up to, in cells
          Zero      \* a cell of zeros

ASSUME DescriptorsAssumption == Align \in Nat \ {0}

Zeros(n) == [i \in 1..n |-> Zero]
Fill(n, to) == (0 - n) % to
RoundUp(n, to) == n + Fill(n, to)
(* The cells of the first n of fields that have these lengths.             *)
Before(lens, n) ==
  LET sum[k \in 0..n] == IF k = 0 THEN 0 ELSE sum[k - 1] + lens[k] IN sum[n]
Lens(var) == [i \in DOMAIN var |-> Len(var[i])]
Upto(file, from, size) ==
  SubSeq(file, from + 1, IF from + size < Len(file) THEN from + size ELSE Len(file))

-----------------------------------------------------------------------------
(* The classes: their tags are their places in DESCRIPTOR_CLASSES.         *)

PropertyTag == 0
HashtreeTag == 1
HashTag == 2
CmdlineTag == 3
ChainTag == 4

Descriptor(tag, fixed, var) == [tag |-> tag, fixed |-> fixed, var |-> var]

PropertyDescriptor(key, value) ==
  Descriptor(PropertyTag, [none |-> 0],
             << << << "text", key >> >>, << Zero >>, << << "text", value >> >>, << Zero >> >>)

NameCell(name) == << "name", name >>
KeyCell(key) == << "key", key >>

HashtreeDescriptor(name, size, treeOffset, treeSize, salt, root) ==
  Descriptor(HashtreeTag,
             [image_size |-> size, tree_offset |-> treeOffset, tree_size |-> treeSize],
             << << NameCell(name) >>, salt, root >>)

HashDescriptor(name, size, salt, digest) ==
  Descriptor(HashTag, [image_size |-> size], << << NameCell(name) >>, salt, digest >>)

(* flags: which of the two a dm-verity command line is for.                *)
CmdlineDescriptor(flags, cmdline) ==
  Descriptor(CmdlineTag, [flags |-> flags], << << cmdline >> >>)

ChainDescriptor(name, location, key) ==
  Descriptor(ChainTag, [rollback_index_location |-> location],
             << << NameCell(name) >>, << KeyCell(key) >> >>)

HasPartitionName(d) == d.tag \in {HashtreeTag, HashTag, ChainTag}
Names(d, name) == d.var[1] = << NameCell(name) >>

-----------------------------------------------------------------------------
FixedCell(d, following) ==
  << "descriptor", [tag |-> d.tag, following |-> following, fixed |-> d.fixed,
                    lens |-> Lens(d.var)] >>

Encode(d) ==
  LET body == FlattenSeq(d.var)
      following == RoundUp(Len(body), Align)
  IN  << FixedCell(d, following) >> \o body \o Zeros(following - Len(body))

EncodeAll(ds) == FlattenSeq([i \in DOMAIN ds |-> Encode(ds[i])])

(* A class refuses a size that is not that of its fields; what does not    *)
(* even have those is refused as well.                                     *)
Refused(cell) ==
  \/ cell[1] # "descriptor"
  \/ cell[2].following # RoundUp(Before(cell[2].lens, Len(cell[2].lens)), Align)

Following(data, o) == data[o + 1][2].following

Decode(data, o) ==
  LET h == data[o + 1][2] IN
  Descriptor(h.tag, h.fixed,
             [i \in DOMAIN h.lens |-> Upto(data, o + 1 + Before(h.lens, i - 1), h.lens[i])])

(* parse_descriptors, from offset 0 on; the first that is refused ends it. *)
Accepted(data) ==
  LET from[o \in Nat] ==
        IF o >= Len(data) THEN TRUE
        ELSE ~Refused(data[o + 1]) /\ from[o + 1 + Following(data, o)]
  IN  from[0]

ParseDescriptors(data) ==
  LET from[o \in Nat] ==
        IF o >= Len(data) \/ Refused(data[o + 1]) THEN << >>
        ELSE << Decode(data, o) >> \o from[o + 1 + Following(data, o)]
  IN  from[0]
=============================================================================
