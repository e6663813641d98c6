----------------------------- MODULE AvbFooters -----------------------------
(***************************************************************************)
(* The avbtool commands that change an image in place: add_hash_footer,    *)
(* append_vbmeta_image, add_hashtree_footer, resize_image, zero_hashtree   *)
(* and erase_footer of class Avb (avbtool.v1.2.py).  A command is a        *)
(* process that opens the image, decides, and then writes in several       *)
(* steps.  Between two steps it may be killed; a write may fail on a full  *)
(* disk.  The image is the file of an ImageHandler, whose methods are the  *)
(* operators of module ImageHandler.                                       *)
(*                                                                         *)
(* A footer is one cell, the last one of the image.  A vbmeta blob is      *)
(* VbmetaLen cells that carry the image's descriptor.  A digest is the     *)
(* data it was computed from: no two images have the same.                 *)
(***************************************************************************)
EXTENDS ImageHandler

CONSTANTS
  DataCell,        \* the cells of images that no command has signed
  Commands,        \* the names of the commands that are run
  PartitionSizes,  \* the --partition_size arguments; 0 is dynamic or none
  VbmetaLen,       \* cells of a generated vbmeta blob
  MaxVbmeta,       \* MAX_VBMETA_SIZE
  DigestLen,       \* cells of a digest in the hash tree
  FecLen,          \* cells of the error correcting codes (the fec tool)
  Fec, NoHashtree, \* whether --generate_fec and --no_hashtree may be given
  Faults,          \* what may fail: a write ("raise", "lost"), a "tool"
  Crashes,         \* whether a command may be killed
  Careful,         \* whether the caller checks what two commands do not
  MaxBase,         \* bound: only an image this small keeps its hash tree
  MaxChunks        \* bound: no command starts on a file of more chunks

(* MAX_VBMETA_SIZE is 16 blocks of 4 KiB; a block holds 64 digests or more.*)
ASSUME FootersAssumption ==
  /\ DataCell \subseteq Cell /\ Zero \in DataCell
  /\ VbmetaLen \in Nat \ {0}
  /\ MaxVbmeta \in Nat /\ MaxVbmeta % BlockSize = 0
  /\ FecLen \in Nat /\ FecLen % BlockSize = 0
  /\ DigestLen \in Nat \ {0} /\ 2 * DigestLen <= BlockSize
  /\ PartitionSizes \subseteq Nat
  /\ Fec \subseteq BOOLEAN /\ NoHashtree \subseteq BOOLEAN
  /\ Faults \subseteq {"raise", "lost", "tool"}
  /\ Crashes \in BOOLEAN /\ Careful \in BOOLEAN

VARIABLES disk,     \* the handler of the running command, or its file at rest
          pc,       \* what the running command does next; "idle" if none
          job,      \* its arguments and local variables
          result,   \* how the last command ended
          base,     \* history: the image without AVB data
          signed    \* history: what the commands have put after it

vars == << disk, pc, job, result, base, signed >>

-----------------------------------------------------------------------------
(* Footers, vbmeta blobs, hash trees.                                      *)

RoundUp(n) == ((n + BlockSize - 1) \div BlockSize) * BlockSize
Zeros(n) == [i \in 1..n |-> Zero]
Padded(cells) == cells \o Zeros(RoundUp(Len(cells)) - Len(cells))

FooterLen == BlockSize          \* MAX_FOOTER_SIZE: the footer fills a block
MaxMetadata == MaxVbmeta + FooterLen

FooterCell(orig, off, len) ==
  [footer |-> TRUE, original_image_size |-> orig,
   vbmeta_offset |-> off, vbmeta_size |-> len]
FooterBlock(orig, off, len) ==
  Zeros(BlockSize - 1) \o << FooterCell(orig, off, len) >>
IsFooter(c) == c \notin DataCell /\ "footer" \in DOMAIN c

VbmetaBlob(desc) == [i \in 1..VbmetaLen |-> [vbmeta |-> desc, part |-> i]]
IsVbmeta(c) == c \notin DataCell /\ "vbmeta" \in DOMAIN c

NoDescriptor == [kind |-> "none"]
HashDescriptor(cells) ==
  [kind |-> "hash", image_size |-> Len(cells), digest |-> cells]

(* calc_hash_level_offsets: the levels shrink until one fits in a block.   *)
TreeSize(size) ==
  LET tree[n \in 0..size] ==
        IF n <= BlockSize THEN 0
        ELSE LET level == RoundUp((RoundUp(n) \div BlockSize) * DigestLen)
             IN  level + tree[level]
  IN  tree[size]

(* generate_hash_tree: the tree is a function of the image.                *)
TreeCells(cells) ==
  [i \in 1..TreeSize(Len(cells)) |-> [tree |-> cells, part |-> i]]
FecCells(cells) == [i \in 1..FecLen |-> [fec |-> cells, part |-> i]]
MarkCell == [mark |-> "ZeRoHaSH"]
MarkBlock == << MarkCell >> \o Zeros(BlockSize - 1)

(* The footer in the last bytes of the image, if there is one.             *)
LastCell(h) == Read(h, h.mem.image_size - 1, 1).cells
HasFooter(h) ==
  h.mem.image_size > 0 /\ LastCell(h) # << >> /\ IsFooter(LastCell(h)[1])
Footer(h) == LastCell(h)[1]

(* _parse_image: the descriptor in the vbmeta blob the footer points to.   *)
VbmetaCell(h) == Read(h, Footer(h).vbmeta_offset, 1).cells
ParsesImage(h) ==
  HasFooter(h) /\ VbmetaCell(h) # << >> /\ IsVbmeta(VbmetaCell(h)[1])
Descriptor(h) == VbmetaCell(h)[1].vbmeta

-----------------------------------------------------------------------------
(* The disk.  A write that fails leaves a proper prefix of the cells.      *)
(* Python buffers it: larger than the buffer the write raises; smaller it  *)
(* is flushed when _read_header drops the old file object, and an error    *)
(* there is discarded ("lost").  The counters of a sparse header are       *)
(* overwritten in place, which needs no room.                              *)

Prefixes(cells) == {SubSeq(cells, 1, k) : k \in 0..(Len(cells) - 1)}

TornFiles(h, cells, blocks) ==
  IF ~h.mem.sparse
  THEN {[h.file EXCEPT !.bytes = @ \o p] : p \in Prefixes(cells)}
  ELSE LET counted == CountChunk(h, blocks)
       IN  {counted.file} \cup
           {WriteChunk(counted, [type |-> "RAW", sz |-> blocks, data |-> p]) :
              p \in Prefixes(cells)}

(* The ways append_raw(data) ends.                                         *)
AppendRawOutcomes(h, data) ==
  LET blocks == Len(data) \div BlockSize
      counted == IF h.mem.sparse THEN CountChunk(h, blocks) ELSE h
  IN  {AppendRaw(h, data)}
      \cup (IF "raise" \in Faults
            THEN {[counted EXCEPT !.file = f, !.raised = TRUE] :
                    f \in TornFiles(h, data, blocks)}
            ELSE {})
      \cup (IF "lost" \in Faults
            THEN {Open(f) : f \in TornFiles(h, data, blocks)} ELSE {})

(* A DONT_CARE or FILL chunk is smaller than any buffer, a hole in a raw   *)
(* file needs no room, and a fill of a raw file is written like data.      *)
ChunkLost(h, blocks) ==
  IF h.mem.sparse /\ "lost" \in Faults /\ blocks >= 0
  THEN {Open(CountChunk(h, blocks).file)} ELSE {}

AppendDontCareOutcomes(h, size) ==
  {AppendDontCare(h, size)} \cup ChunkLost(h, size \div BlockSize)

AppendFillOutcomes(h, fill, size) ==
  IF h.mem.sparse
  THEN {AppendFill(h, fill, size)} \cup ChunkLost(h, size \div BlockSize)
  ELSE AppendRawOutcomes(h, Repeat(fill, size))

-----------------------------------------------------------------------------
(* Running commands.                                                       *)

Closed(f) == [file |-> f, mem |-> Unread(f), raised |-> FALSE]

NoFooter == FooterCell(0, 0, 0)
Unsigned == [kind |-> "none", psize |-> 0, fec |-> FALSE, no_tree |-> FALSE,
             zeroed |-> FALSE]

Job(cmd, psize) ==
  [cmd |-> cmd, psize |-> psize, dynamic |-> psize = 0, fec |-> FALSE,
   no_tree |-> FALSE, orig |-> 0, desc |-> NoDescriptor, end |-> 0,
   footer |-> NoFooter, tail |-> << >>]

(* The commands whose writes are in a try that restores the original size. *)
Protected == {"add_hash_footer", "append_vbmeta_image", "add_hashtree_footer"}

InitFor(files) ==
  /\ disk \in {Closed(f) : f \in files}
  /\ pc = "idle"
  /\ job = Job("none", 0)
  /\ result = "none"
  /\ base = Content(disk.file)
  /\ signed = Unsigned

(* The command ends: it has changed what the image is signed with, or it   *)
(* has raised, when the image is opened and looked at or, perhaps after    *)
(* dropping a footer, in one of its steps.                                 *)
End(f, j, how, now) ==
  /\ disk' = Closed(f)
  /\ pc' = "idle"
  /\ job' = Job(j.cmd, 0)
  /\ result' = how
  /\ signed' = now

Fail(f, j) ==
  IF pc = "idle" THEN End(f, j, "refused", signed) ELSE End(f, j, "error", Unsigned)

Continue(h, j, next) ==
  /\ disk' = h
  /\ pc' = next
  /\ job' = j
  /\ UNCHANGED << result, signed >>

(* A step that calls the handler: it goes on, or what it raised ends the   *)
(* command, after the rollback if it is protected.                         *)
Attempt(outcomes, j, next) ==
  \E h \in outcomes :
    CASE ~h.raised -> Continue(h, j, next)
      [] h.raised /\ job.cmd \in Protected -> Continue(h, j, "rollback")
      [] h.raised /\ job.cmd \notin Protected -> Fail(h.file, j)

Image == Read(disk, 0, disk.mem.image_size).cells

-----------------------------------------------------------------------------
(* add_hash_footer, append_vbmeta_image, add_hashtree_footer: the checks   *)
(* before the first write.                                                 *)

Aligned(n) == n % BlockSize = 0

AcceptsSize(h, cmd, psize) ==
  CASE cmd = "add_hash_footer"     -> psize = 0 \/ psize >= MaxMetadata
    [] cmd = "append_vbmeta_image" -> Aligned(psize)
    [] cmd = "add_hashtree_footer" ->
         Aligned(IF psize > 0 THEN psize ELSE h.mem.image_size)

StartAdd(cmd, psize, fec, no_tree) ==
  LET h == Open(disk.file)
      j == [Job(cmd, psize) EXCEPT !.fec = fec, !.no_tree = no_tree]
  IN  /\ pc = "idle"
      /\ IF h.raised \/ ~AcceptsSize(h, cmd, psize) THEN Fail(disk.file, j)
         ELSE Continue(h, j, "drop")
      /\ UNCHANGED base

(* Mutant: the image is signed again behind the footer it has.             *)
DropNothing ==
  LET j == [job EXCEPT !.orig = disk.mem.image_size,
              !.psize = IF job.dynamic /\ job.cmd = "add_hash_footer"
                        THEN RoundUp(disk.mem.image_size + MaxMetadata) ELSE @]
  IN  pc = "drop" /\ Continue(disk, j, "check") /\ UNCHANGED base

(* An existing footer is dropped by truncating to the size it records.     *)
(* This is before the try: what truncate raises is not rolled back.        *)
DropFooter ==
  LET orig == IF HasFooter(disk) THEN Footer(disk).original_image_size
              ELSE disk.mem.image_size
      h == IF HasFooter(disk) THEN Truncate(disk, orig) ELSE disk
      j == [job EXCEPT !.orig = orig,
              !.psize = IF job.dynamic /\ job.cmd = "add_hash_footer"
                        THEN RoundUp(orig + MaxMetadata) ELSE @]
  IN  /\ pc = "drop"
      /\ IF h.raised THEN Fail(h.file, j) ELSE Continue(h, j, "check")
      /\ UNCHANGED base

(* add_hash_footer looks at the alignment of the partition size only now,  *)
(* still outside of the try.                                               *)
CheckHash ==
  /\ pc = "check" /\ job.cmd = "add_hash_footer"
  /\ CASE ~Aligned(job.psize) -> Fail(disk.file, job)
       [] Aligned(job.psize) /\ disk.mem.image_size > job.psize - MaxMetadata ->
            Continue(Raising(disk), job, "rollback")
       [] Aligned(job.psize) /\ disk.mem.image_size <= job.psize - MaxMetadata ->
            Continue(disk, [job EXCEPT !.desc = HashDescriptor(Image)], "grow")
  /\ UNCHANGED base

(* The vbmeta image to append is another file, which may be refused.       *)
CheckVbmeta ==
  /\ pc = "check" /\ job.cmd = "append_vbmeta_image"
  /\ \/ Continue(disk, job, "grow")
     \/ Continue(Raising(disk), job, "rollback")
  /\ UNCHANGED base

(* A raw image may end inside a block: it is grown by a hole.              *)
Grow ==
  LET h == IF Aligned(disk.mem.image_size) THEN disk
           ELSE Truncate(disk, RoundUp(disk.mem.image_size))
      off == h.mem.image_size
      j == [job EXCEPT !.footer = FooterCell(job.orig, off, VbmetaLen),
                       !.end = off + RoundUp(VbmetaLen)]
  IN  /\ pc = "grow"
      /\ Attempt({h}, j, "vbmeta")
      /\ UNCHANGED base

-----------------------------------------------------------------------------
(* add_hashtree_footer: the image is filled up with zeros, then the tree   *)
(* and the codes are appended.                                             *)

RoundImage ==
  LET pad == Zeros(RoundUp(disk.mem.image_size) - disk.mem.image_size)
  IN  /\ pc = "check" /\ job.cmd = "add_hashtree_footer"
      /\ Attempt(IF pad = << >> THEN {disk} ELSE AppendRawOutcomes(disk, pad),
                 job, "tree")
      /\ UNCHANGED base

MaxTreeImage ==
  job.psize - MaxMetadata
    - (IF job.no_tree THEN 0
       ELSE TreeSize(job.psize) + (IF job.fec THEN FecLen ELSE 0))

(* generate_hash_tree has no output to hash for an empty image.            *)
AppendTree ==
  LET size == disk.mem.image_size
      tree == IF job.no_tree THEN << >> ELSE TreeCells(Image)
      desc == [kind |-> "hashtree", image_size |-> size, digest |-> Image,
               tree_offset |-> size, tree_size |-> Len(tree),
               fec_offset |-> 0, fec_size |-> 0]
  IN  /\ pc = "tree"
      /\ IF size = 0 \/ (job.psize > 0 /\ size > MaxTreeImage)
         THEN Continue(Raising(disk), job, "rollback")
         ELSE Attempt(IF tree = << >> THEN {disk}
                      ELSE AppendRawOutcomes(disk, Padded(tree)),
                      [job EXCEPT !.desc = desc], "fec")
      /\ UNCHANGED base

AppendFec ==
  LET fec == IF job.no_tree THEN << >> ELSE FecCells(Image)
      desc == [job.desc EXCEPT !.fec_offset = disk.mem.image_size,
                               !.fec_size = Len(fec)]
      off == job.desc.tree_offset + RoundUp(job.desc.tree_size)
      j(d, n) == [job EXCEPT !.desc = d,
                             !.footer = FooterCell(job.orig, off + n, VbmetaLen)]
  IN  /\ pc = "fec"
      /\ IF job.fec
         THEN Attempt(AppendRawOutcomes(disk, Padded(fec)),
                      j(desc, RoundUp(Len(fec))), "vbmeta")
         ELSE Continue(disk, j(job.desc, 0), "vbmeta")
      /\ UNCHANGED base

-----------------------------------------------------------------------------
(* The common end: the vbmeta blob, a gap, the footer in the last block.   *)

(* Mutant: a footer is written before the vbmeta blob it points at.        *)
AppendFooterFirst ==
  LET f == job.footer
  IN  /\ pc = "vbmeta"
      /\ Attempt(AppendRawOutcomes(disk,
                   FooterBlock(f.original_image_size, f.vbmeta_offset, f.vbmeta_size)),
                 job, "gap")
      /\ UNCHANGED base

AppendVbmeta ==
  /\ pc = "vbmeta"
  /\ Attempt(AppendRawOutcomes(disk, Padded(VbmetaBlob(job.desc))), job, "gap")
  /\ UNCHANGED base

AppendGap ==
  LET end == IF job.cmd = "add_hashtree_footer" THEN disk.mem.image_size
             ELSE job.end
  IN  /\ pc = "gap"
      /\ IF job.cmd = "add_hashtree_footer" /\ job.psize = 0
         THEN Continue(disk, job, "footer")
         ELSE Attempt(AppendDontCareOutcomes(disk, job.psize - end - BlockSize),
                      job, "footer")
      /\ UNCHANGED base

(* The footer is the last write of the adding commands and of resize_image.*)
SignedBy(j) ==
  CASE j.cmd = "add_hash_footer"     -> [Unsigned EXCEPT !.kind = "hash", !.psize = j.psize]
    [] j.cmd = "append_vbmeta_image" -> [Unsigned EXCEPT !.kind = "vbmeta", !.psize = j.psize]
    [] j.cmd = "add_hashtree_footer" ->
         [Unsigned EXCEPT !.kind = "hashtree", !.psize = j.psize,
                          !.fec = j.fec, !.no_tree = j.no_tree]
    [] j.cmd = "resize_image"        -> [signed EXCEPT !.psize = j.psize]

AppendFooter ==
  LET f == job.footer
      block == FooterBlock(f.original_image_size, f.vbmeta_offset, f.vbmeta_size)
  IN  /\ pc = "footer"
      /\ \E h \in AppendRawOutcomes(disk, block) :
           IF h.raised THEN Attempt({h}, job, "rollback")
           ELSE End(h.file, job, "ok", SignedBy(job))
      /\ UNCHANGED base

(* Mutant: the exception goes on without a rollback.                       *)
RollbackNothing ==
  pc = "rollback" /\ Fail(disk.file, job) /\ UNCHANGED base

(* Mutant: the original size is not known yet when the exception comes.    *)
RollbackToNothing ==
  /\ pc = "rollback"
  /\ Fail(Truncate([disk EXCEPT !.raised = FALSE], 0).file, job)
  /\ UNCHANGED base

(* The except clause: back to the original size, then the exception goes   *)
(* on.  A sparse file's truncate first flushes what the failed write left  *)
(* in the buffer, and fails again if the disk is still full.               *)
Rollback ==
  /\ pc = "rollback"
  /\ \/ Fail(Truncate([disk EXCEPT !.raised = FALSE], job.orig).file, job)
     \/ /\ disk.mem.sparse /\ "raise" \in Faults
        /\ Fail(disk.file, job)
  /\ UNCHANGED base

(* The fec tool, the signing helper or openssl fails.  add_hash_footer     *)
(* signs before it writes, add_hashtree_footer when the tree is appended.  *)
ToolFails ==
  /\ "tool" \in Faults
  /\ \/ pc = "check" /\ job.cmd = "add_hash_footer" /\ Aligned(job.psize)
     \/ pc = "fec" /\ job.fec /\ ~job.no_tree
     \/ pc = "vbmeta" /\ job.cmd = "add_hashtree_footer"
  /\ Continue(Raising(disk), job, "rollback")
  /\ UNCHANGED base

-----------------------------------------------------------------------------
(* resize_image: outside of any try.                                       *)

(* Mutant: the gap starts right behind the vbmeta blob, inside a block.    *)
StartResizeInBlock(psize) ==
  LET h == Open(disk.file)
      f == Footer(h)
      end == f.vbmeta_offset + f.vbmeta_size
      j == Job("resize_image", psize)
  IN  /\ pc = "idle"
      /\ IF \/ h.raised \/ ~Aligned(psize) \/ ~ParsesImage(h)
            \/ psize < end + BlockSize
         THEN Fail(disk.file, j)
         ELSE Continue(h, [j EXCEPT !.footer = f, !.end = end], "cut")
      /\ UNCHANGED base

StartResize(psize) ==
  LET h == Open(disk.file)
      f == Footer(h)
      end == RoundUp(f.vbmeta_offset + f.vbmeta_size)
      j == Job("resize_image", psize)
  IN  /\ pc = "idle"
      /\ IF \/ h.raised \/ ~Aligned(psize) \/ ~ParsesImage(h)
            \/ psize < end + BlockSize
         THEN Fail(disk.file, j)
         ELSE Continue(h, [j EXCEPT !.footer = f, !.end = end], "cut")
      /\ UNCHANGED base

CutForResize ==
  /\ pc = "cut" /\ job.cmd = "resize_image"
  /\ Attempt({Truncate(disk, job.end)}, job, "gap")
  /\ UNCHANGED base

-----------------------------------------------------------------------------
(* zero_hashtree: cut at the tree and write everything behind it again,    *)
(* outside of any try; the tail is only in memory meanwhile.               *)

StartZero ==
  LET h == Open(disk.file)
      d == Descriptor(h)
      end == d.tree_offset + d.tree_size + d.fec_size
      j == Job("zero_hashtree", 0)
  IN  /\ pc = "idle"
      /\ IF \/ h.raised \/ ~ParsesImage(h) \/ d.kind # "hashtree"
            \/ d.fec_offset > 0 /\ d.fec_offset # d.tree_offset + d.tree_size
         THEN Fail(disk.file, j)
         ELSE Continue(h, [j EXCEPT !.desc = d,
                             !.tail = Read(h, end, h.mem.image_size - end).cells],
                       "cut")
      /\ UNCHANGED base

CutForZero ==
  /\ pc = "cut" /\ job.cmd = "zero_hashtree"
  /\ Attempt({Truncate(disk, job.desc.tree_offset)}, job, "mark")
  /\ UNCHANGED base

ZeroStep(at, outcomes, next) ==
  /\ pc = at
  /\ Attempt(outcomes, job, next)
  /\ UNCHANGED base

MarkTree == ZeroStep("mark", AppendRawOutcomes(disk, MarkBlock), "fill")

FillTree ==
  ZeroStep("fill",
           AppendFillOutcomes(disk, Zeros(FillLen), job.desc.tree_size - BlockSize),
           IF job.desc.fec_offset > 0 THEN "markfec" ELSE "tail")

MarkFec == ZeroStep("markfec", AppendRawOutcomes(disk, MarkBlock), "fillfec")

FillFec ==
  ZeroStep("fillfec",
           AppendFillOutcomes(disk, Zeros(FillLen), job.desc.fec_size - BlockSize),
           "tail")

AppendTail ==
  /\ pc = "tail"
  /\ \E h \in AppendRawOutcomes(disk, job.tail) :
       IF h.raised THEN Fail(h.file, job)
       ELSE End(h.file, job, "ok", [signed EXCEPT !.zeroed = TRUE])
  /\ UNCHANGED base

-----------------------------------------------------------------------------
(* erase_footer: one truncate, to the original size or behind the tree.    *)

KeptSize(h) ==
  LET d == Descriptor(h)
      fec_end == d.fec_offset + d.fec_size
      tree_end == d.tree_offset + d.tree_size
  IN  IF d.fec_offset > 0 /\ fec_end > tree_end THEN fec_end ELSE tree_end

EraseFooter(keep) ==
  LET h == Open(disk.file)
      j == Job("erase_footer", 0)
      size == IF keep THEN KeptSize(h) ELSE Footer(h).original_image_size
      refused == \/ h.raised \/ ~ParsesImage(h)
                 \/ keep /\ Descriptor(h).kind # "hashtree"
                 \/ keep /\ size = 0
      cut == IF refused THEN Raising(h) ELSE Truncate(h, size)
  IN  /\ pc = "idle"
      /\ IF cut.raised
         THEN Fail(cut.file, j) /\ UNCHANGED base
         ELSE /\ End(cut.file, j, "ok", Unsigned)
              /\ base' = IF keep THEN Content(cut.file) ELSE base

-----------------------------------------------------------------------------
(* The process is killed between two steps, or within a failed write.      *)
Kill ==
  /\ Crashes
  /\ pc # "idle"
  /\ End(disk.file, job, "killed", Unsigned)
  /\ UNCHANGED base

(* append_vbmeta_image does not check that the partition has room, nor     *)
(* zero_hashtree that there is a tree, or codes, to zero.                  *)
HasRoom(psize) ==
  LET h == Open(disk.file)
      size == IF HasFooter(h) THEN Footer(h).original_image_size
              ELSE h.mem.image_size
  IN  psize >= RoundUp(size) + RoundUp(VbmetaLen) + BlockSize
HasTree ==
  LET h == Open(disk.file)
  IN  ~h.raised /\ ParsesImage(h) /\ Descriptor(h).kind = "hashtree" =>
        /\ Descriptor(h).tree_size > 0
        /\ Descriptor(h).fec_offset > 0 => Descriptor(h).fec_size > 0

Start ==
  \/ /\ "add_hash_footer" \in Commands
     /\ \E psize \in PartitionSizes : StartAdd("add_hash_footer", psize, FALSE, FALSE)
  \/ /\ "append_vbmeta_image" \in Commands
     /\ \E psize \in PartitionSizes :
          /\ Careful => HasRoom(psize)
          /\ StartAdd("append_vbmeta_image", psize, FALSE, FALSE)
  \/ /\ "add_hashtree_footer" \in Commands
     /\ \E psize \in PartitionSizes, fec \in Fec, no_tree \in NoHashtree :
          StartAdd("add_hashtree_footer", psize, fec, no_tree)
  \/ /\ "resize_image" \in Commands
     /\ \E psize \in PartitionSizes : StartResize(psize)
  \/ "zero_hashtree" \in Commands /\ (Careful => HasTree) /\ StartZero
  \/ /\ "erase_footer" \in Commands
     /\ \E keep \in BOOLEAN : (keep => Len(base) <= MaxBase) /\ EraseFooter(keep)

Step ==
  \/ DropFooter \/ CheckHash \/ CheckVbmeta \/ Grow
  \/ RoundImage \/ AppendTree \/ AppendFec
  \/ AppendVbmeta \/ AppendGap \/ AppendFooter
  \/ ToolFails \/ Rollback
  \/ CutForResize
  \/ CutForZero \/ MarkTree \/ FillTree \/ MarkFec \/ FillFec \/ AppendTail

(* A footer right behind the vbmeta blob has an empty chunk before it,     *)
(* which every resize_image to that size keeps: only MaxChunks bounds them.*)
(* Where commands are killed an image is followed to the first that may    *)
(* have left it damaged: one that is killed, or that fails on a sparse     *)
(* image or without an except clause.                                      *)
Settled ==
  Crashes => \/ result \in {"none", "ok", "refused"}
             \/ result = "error" /\ job.cmd \in Protected /\ ~disk.file.sparse
Startable ==
  /\ Len(disk.file.chunks) <= MaxChunks
  /\ Settled

Next == (Startable /\ Start) \/ Step \/ Kill

-----------------------------------------------------------------------------
(* Types; the offsets a command computes are those of blocks.              *)
TypeOK ==
  /\ disk.raised \in BOOLEAN
  /\ disk.mem.image_size \in Nat
  /\ {job.psize, job.orig, job.end} \subseteq Nat
  /\ job.end % BlockSize = 0 /\ job.footer.vbmeta_offset % BlockSize = 0
  /\ pc \in {"idle", "drop", "check", "grow", "tree", "fec", "vbmeta", "gap",
             "footer", "rollback", "cut", "mark", "fill", "markfec", "fillfec",
             "tail"}
  /\ job.cmd \in Commands \cup {"none"}
  /\ result \in {"none", "ok", "refused", "error", "killed"}
  /\ signed.kind \in {"none", "hash", "vbmeta", "hashtree"}

(* The image that the base b is once it has been signed, and was signed as *)
(* s says, written out without a handler: what one successful command      *)
(* would make of b.                                                        *)
Zeroed(cells) == IF cells = << >> THEN << >>
                 ELSE MarkBlock \o Zeros(Len(cells) - BlockSize)

HasTreeCells(s) == s.kind = "hashtree" /\ ~s.no_tree
SignedTree(b, s) == IF HasTreeCells(s) THEN TreeCells(Padded(b)) ELSE << >>
SignedCodes(b, s) ==
  IF HasTreeCells(s) /\ s.fec THEN FecCells(Padded(b) \o SignedTree(b, s)) ELSE << >>

SignedDescriptor(b, s) ==
  LET data == Padded(b)
      tree == SignedTree(b, s)
  IN  CASE s.kind = "hash" -> HashDescriptor(b)
        [] s.kind = "vbmeta" -> NoDescriptor
        [] s.kind = "hashtree" ->
             [kind |-> "hashtree", image_size |-> Len(data), digest |-> data,
              tree_offset |-> Len(data), tree_size |-> Len(tree),
              fec_offset |-> IF s.fec THEN Len(data) + Len(tree) ELSE 0,
              fec_size |-> Len(SignedCodes(b, s))]

Body(b, s) ==
  Padded(b) \o (IF s.zeroed THEN Zeroed(SignedTree(b, s)) \o Zeroed(SignedCodes(b, s))
                ELSE SignedTree(b, s) \o SignedCodes(b, s))
Meta(b, s) == Body(b, s) \o Padded(VbmetaBlob(SignedDescriptor(b, s)))
Gap(b, s) == IF s.psize = 0 THEN 0 ELSE s.psize - Len(Meta(b, s)) - BlockSize

Layout(b, s) ==
  IF s.kind = "none" THEN b
  ELSE Meta(b, s) \o Zeros(Gap(b, s)) \o FooterBlock(Len(b), Len(Body(b, s)), VbmetaLen)

(* Whatever the commands before, an image at rest is the original or the   *)
(* original signed once: adding a footer again replaces the first one      *)
(* (idempotence), erasing it gives the original back, resizing gives what  *)
(* signing for that size gives, a command that refuses leaves it alone and *)
(* one that fails in its try rolls back.                                   *)
RestsOnLayout ==
  pc = "idle" /\ Settled =>
    HeaderAccepted(disk.file) /\ Content(disk.file) = Layout(base, signed)

(* A command with an except clause that raises on a raw image, its write   *)
(* or a tool having failed anywhere, has put the original image back.      *)
RollsBack ==
  pc = "idle" /\ result = "error" /\ job.cmd \in Protected /\ ~disk.file.sparse =>
    Content(disk.file) = Layout(base, signed)

(* At any moment, a readable image starts with the original image.         *)
BaseSurvives ==
  HeaderAccepted(disk.file) =>
    LET cells == Content(disk.file)
    IN  Len(cells) >= Len(base) /\ SubSeq(cells, 1, Len(base)) = base

(* At any moment, in the middle of a command or after it was killed, an    *)
(* image that ends with a footer verifies: the footer points at a whole    *)
(* vbmeta blob and its descriptor's digest is that of the data.            *)
FooterVerifies ==
  LET h == Open(disk.file)
      f == Footer(h)
      d == Descriptor(h)
      cells == Content(disk.file)
  IN  ~h.raised /\ HasFooter(h) =>
        /\ ParsesImage(h)
        /\ SubSeq(cells, f.vbmeta_offset + 1, f.vbmeta_offset + f.vbmeta_size)
             = VbmetaBlob(d)
        /\ d.kind # "none" => SubSeq(cells, 1, d.image_size) = d.digest
        /\ f.original_image_size <= f.vbmeta_offset

(* "If anything goes wrong from here-on, restore the image back to its     *)
(* original size", avbtool.v1.2.py:3450: a command with an except clause   *)
(* that raises leaves the image as it was, of whatever format it is.       *)
FailureRestores ==
  pc = "idle" /\ result = "error" /\ job.cmd \in Protected =>
    HeaderAccepted(disk.file) /\ Content(disk.file) = Layout(base, signed)
=============================================================================
