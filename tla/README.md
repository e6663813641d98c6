# A verification project for the recovery image and its tools

The repository is a recovery image under construction: the tools that take an
Android boot image apart, put it together and sign it (`aosp/`, `tools/`), and
the unpacked recovery ramdisk whose init scripts bring up USB, WiFi, touch and a
Linux container (`build/unzip_boot/`).  This directory holds TLA+ models of the
parts with state and order, the TLC runs that check them on small instances and
proofs, checked by TLAPS, of what the parts that write images promise (the image
handler, the footer commands, mkbootimg, certify_bootimg and mkdtboimg), of
make_vbmeta_image, verify_image and the hash tree, of the proofs that
transparency logs give, and of the boot of the ramdisk.

All source paths below are relative to `src/`; `avbtool` is
`aosp/avb/avbtool.v1.2.py` where no other version is named.

## 1. Inventory

| Component | State | Operations | What is hard | What makes it correct |
|---|---|---|---|---|
| `ImageHandler` (avbtool 714-1156) | the file; in memory its size, two counters, `_sparse_end`, the chunk table, a cursor | open, seek, read, append_raw, append_fill, append_dont_care, truncate | memory and file change separately; two formats behind one interface; counters are rewritten before the data | both formats behave like one flat file; memory is never behind the file; the file it writes it can read |
| AVB footers (avbtool 2235-2374, 3254-3833) | the image, at rest or in the middle of a command | add_hash_footer, append_vbmeta_image, add_hashtree_footer, resize_image, zero_hashtree, erase_footer | up to eight dependent writes; disk full, buffered errors, kills; commands on the output of commands | adding twice is adding once; erasing restores the original; failing rolls back, on a raw image; a footer never points at something unfinished |
| Descriptors and verification (avbtool 1159-1958, 2494-2741, 2989-3240, 3998-4166) | descriptors parsed from one image while others are read | make_vbmeta_image, verify_image, the hash tree, vbmeta chains | several images that change on their own, recursion over chains, block loops | what a command signs, verification accepts, and nothing else |
| Keys, certificates, command line of avbtool | none | openssl, argument parser | external tools | - |
| Transparency logs (avbtool 1.1, 1969-2758, 3200-3234, 3584-3864) | proofs collected so far; the logs' trees | make_icp_from_vbmeta, info_image_icp | servers that fail, grow and answer wrongly; a list format read back | a proof is accepted exactly when the leaf is in the log; what is written without padding is read, what is damaged is not |
| The rest of avbtool 1.1 | as 1.2 | as 1.2 | differs in details | same promises |
| Init scripts of the ramdisk | init's event queue, properties, services; configfs, functionfs, the UDC, modules | the actions of five `.rc` files | everything is asynchronous: events are queued, services fork, properties are shared | USB is what `sys.usb.config` says; the boot reaches adb, container, WiFi |
| `wlan_init.sh`, `boot-ubuntu.sh`, `selinux-permissive` | - | as services | poll with a timeout, races with init | the ready flag is not lost |
| mkbootimg, certify_bootimg, generate_gki_certificate | the output files, the inputs' cursors; a temporary copy | write sections padded to pages; append and replace signatures | headers written before the data, boundaries, certifying what is certified | a loader finds every section by the header; re-certifying replaces |
| mkdtboimg | a table, blobs and running sizes | create, cfg_create, dump | shared blobs, offsets, a creation that is killed | entries point at their own blob, sizes add up |
| f2fs_sparseblock | bitmaps of a f2fs image | which blocks are in use | two checkpoint packs, journals | a used block is never skipped |
| libxbc, skipcpio | one buffer or file | add a key; find the end of an archive | trailers, alignment | the rest is unchanged |
| mkuserimg scripts, extract_kernel, factory_image_parser, small tools | - | command lines | external tools | - |
| binaries, modules, firmware, policy | - | - | not source | - |

How they interact: a footer command is a client of `ImageHandler` and calls its
methods in a fixed order; verification reads what the commands wrote;
certify_bootimg runs avbtool on the output of mkbootimg; make_icp_from_vbmeta
submits what make_vbmeta_image wrote.  The scripts interact
through the property store only: a command of one script or a process sets a
property, init queues an event, the event selects actions of any script.

The hazards, each at its line, are in `PROJECT.json`.

## 2. Modules

| Module | Models | Role |
|---|---|---|
| `SparseFormat` | the sparse file format as `_read_header` parses it | data, what a header check accepts, what a file means |
| `ImageHandler` | the class, one operator per method | used by the two below |
| `ImageClient` | a process that calls the methods in any order | state machine, `HandlerIsFlat` (the refinement) |
| `FlatImage` | the class docstring: one flat sequence of cells | abstract specification |
| `MCImageClient` | | instance for TLC |
| `AvbFooters` | the six commands, one action per write; the layouts they promise | state machine, properties |
| `MCAvbFooters` | | instances: the images |
| `RecoveryRc` | the five scripts as a table of actions and commands | data |
| `RecoveryBoot` | init, the services, the kernel objects they use | state machine |
| `MCRecoveryBoot` | | properties |
| `AvbDescriptors` | the descriptors and their encoding | data, used by `AvbVerify` |
| `HashTree` | calc_hash_level_offsets and generate_hash_tree, a block at a time; dm-verity's tree | algorithm and its reference, used by `AvbVerify` |
| `AvbVerify` | signing, make_vbmeta_image and verify_image, a file, a descriptor or a block at a time | state machine |
| `MCVerify` | | instance |
| `MerkleProof` | root_from_icp; the trees and proofs of RFC 6962 | algorithm and its reference, used by `AftlIcp` |
| `AftlIcp` | make_icp_from_vbmeta, info_image_icp, the logs | state machine |
| `MCAftl` | | instance |
| `BootImage` | mkbootimg, one write at a time; the loader that reads the image | state machine |
| `GkiCertify` | certify_bootimg on what `BootImage` builds | state machine, composed with `BootImage` |
| `MCGki` | | instance of both |
| `Dtbo` | mkdtboimg's three commands | state machine |
| `MCDtbo` | | instance |
| `ImageHandlerLemmas` | | output offsets of chunks; what each method does to the content of a file, well or half way |
| `ImageClientProofs` | | theorems about `ImageClient` and its refinement of `FlatImage` |
| `AvbFootersProofs` | | layouts, descriptors, footers: what is read back from them; the invariant and the theorems about `AvbFooters` |
| `AvbVerifyProofs` | | theorems about `HashTree`, `AvbDescriptors` and `AvbVerify` |
| `AftlProofs` | | theorems about `MerkleProof` and `AftlIcp` |
| `GkiProofs` | | theorems about `BootImage`, and about `GkiCertify`, which runs on its images |
| `DtboProofs` | | theorems about `Dtbo` |
| `RecoveryBootInv` | | the inductive invariant of `RecoveryBoot` |
| `RecoveryBootProofs` | | theorems about `RecoveryBoot` |

An operator `Foo` with a mutated twin (its comment starts with "Mutant:") is
there so that every property can be seen to fail when the code is wrong.

### SparseFormat, ImageHandler, ImageClient

The unit of data is a *cell*, the smallest run of bytes the properties tell
apart; `BlockSize`, `FillLen` and `HeaderLen` say how many make a block, a fill
pattern and the header that is read first.  A file is a record: raw bytes, or
two counters and the chunks on disk.  A RAW chunk may hold less than it
announces, as a write leaves it that failed half way; `_read_header` only seeks
over the data and does not notice.

A handler `h` is `h.file` (disk), `h.mem` (the attributes) and `h.raised`.  Each
operator is one method with everything it does, the re-reading of the header
included: `Truncate(h, size)` cuts the chunks, sets the counters from the table
and opens the file again.  Every write of `ImageClient` resets the cursor, except
a truncate to the current size of a sparse image, which returns early.  The flag
`read_only` makes the four writes raise before anything happens, and is left
out.  Cells are not bytes: a fill pattern that does not divide the requested size
cannot be asked for, as the assertions in `append_fill` forbid it too.

### AvbFooters

A command is a process with a program counter; between two writes it can be
killed, and each write has several outcomes:

* it succeeds;
* `"raise"`: a proper prefix of the data reached the disk and Python raises. For a
  sparse image the counters are already increased;
* `"lost"`: the same, but the data was small enough to stay in the file object's
  buffer, and the error of flushing it is discarded when `_read_header` replaces
  the object.

`"tool"` stands for openssl, the signing helper or fec failing.  A digest *is* the
data it was computed from (no collisions), a vbmeta blob is `VbmetaLen` cells
that carry the descriptor, a footer is one cell in the last block.  `base` and
`signed` are history variables: the image without AVB data, and which successful
command was the last.  `Layout(base, signed)` writes down, without any handler,
the image that results; the commands must produce it whatever was done before.
A command that is refused before its `try` ends with `"refused"`, one that raises
in it with `"error"`.  `Settled` says of an image at rest that nothing has damaged
it: its last command was not killed, and if it failed it had an except clause and
a raw image to put back.  What the commands make of other remains is not
promised, and where kills are modelled no command starts on them.
`DataCell` is the set of cells that images hold before anything is signed.

Not modelled: options that only print a number, `--output_vbmeta_image` and
`--do_not_append_vbmeta_image`, salts, several descriptors, chain partitions,
the padding a torn RAW chunk gets when a later write seeks over it.

### RecoveryRc, RecoveryBoot

`RecoveryRc` is a table, line by line, of the actions of `init.rc`,
`init.mtk.wlan.rc`, `init.recovery.usb.rc`, `init.touch.rc` and
`init.ubuntu-droidspaces.example.rc` (as if renamed to be installed, which the
documents describe).  `RecoveryBoot` executes it: one event queue, one command
at a time, property events only after `enable_property_trigger`, then one pass
over all property actions.  A property event matches with the value it was
queued with and looks up the other conditions when it is taken.  init, the kernel
and the binaries are external; they are modelled as far as the scripts depend on
them: `start` forks and returns, `stop` kills, a dead process is reaped later, a
daemon that was not stopped is restarted, the gadget is only bound when its
function's endpoints are open and falls off the bus when they close.

Not modelled: `exec` of mtk_plpath_utils, which blocks init for a while and adds
no order between the services; the `sys.usb.configfs=0` branches (the property
is 1 since early-init); the five seconds before a restart, whose end may come at
any time; the twenty polls of `wlan_init.sh`, which end at any time.

### AvbDescriptors, HashTree, AvbVerify

A file is a sequence of cells: a block of data or of a tree, the header of a
vbmeta blob, a hash, a signature, a descriptor's fixed part and each of its
strings, a key, a footer.  Offsets and sizes are computed, stored in headers and
used to read, as in the code; a hash or a signature is the term of what it was
made from.  A make_vbmeta_image that is refused has already emptied its output and
writes nothing more: the file is as in `Init`, so it has no step.  The two times it
parses the images it includes are one step, since nothing else runs until it has
ended (a bound).  The partitions are built by `HashFooterImage` and
`HashtreeFooterImage` (the results of the commands of `AvbFooters`, without the
gap before the footer); `MakeVbmeta` includes, chains and sets up root file
systems, keeping the last seen descriptor of a class and partition.
`verify_image` is a small machine: `frame` is the image it is in with the
descriptors it has parsed, `outer` the one it came from; `Open`, then one action
per kind of descriptor, `HashNextBlock` for each turn of the loop of
generate_hash_tree, `CompareTree`, `VerifyChain`/`RefuseChain`, `Return`.  Between
any two steps a partition may be built anew or its tree be zeroed, and before a
command any cell may be damaged (at most `MaxChanges` times).

`HashTree` holds the loop and, below it, the tree as dm-verity reads it; the two
are written differently on purpose, the first with an array, level offsets and a
countdown, the second from the leaves up.

Not modelled: calculate_vbmeta_digest, print_partition_digests, info_image,
kernel command line texts, persistent digests of a tree, `--partition_name ''`
(with it verify reads from the image that holds the descriptor, at its cursor),
and forward error correction, which verification never looks at.

### MerkleProof, AftlIcp

`AftlIcp` is version 1.1's make_icp_from_vbmeta: one server after another gets
the request (`Request`), others' leaves arrive meanwhile (`Grow`), an answer comes
from any tree the log has had since (`Answered`), or nothing comes (`RpcError`).
A log that works answers as RFC 6962 says; one that does not changes the index,
the proof, the leaf or the key, or cuts the signature.  Verification is the
code's: `RootFromIcp` walks the bits of the index.  The entries, verified or not,
are encoded with their next-entry marks, with or without `--padding_size` behind
them, and read back by `InfoImageIcp`, from whole files and from those a kill has
cut.  It reads up to the end of the file or `ReadLimit` cells, and takes all of it for
entries: the zeros of the padding make the last entry longer than it says, and
AvbIcpEntry raises.  info_image_icp so refuses every output that padding made longer.

Not modelled: gRPC and its protocol buffers, the manufacturer's signature of the
request, and a tree head that a log signs and later takes back.

### BootImage, GkiCertify

`BootImage` is one run of mkbootimg.  The header of a boot image is one cell with
the fields a loader uses, in a page of padding; `todo` is the list of writes left, each an
action with its padding; inputs have cursors, because the SHA below version 3
reads them before they are copied.  `Load` and `LoadVendor` are the boot loader,
which is not in the repository: they use nothing but the header.  `GkiCertify`
takes finished images, with the footers avbtool may have added, through
certify_bootimg: copy, erase the footer, erase an older certificate, add the
certificates of image and kernel, add a footer of the size the given image
had, copy out; an archive does so image by image.  `Again` feeds the output back.
Of the calls of avbtool, those with check=True end the command when they fail, and
any step may be the last (`Stops`).  The other three go on: a failed erase_footer
leaves the footer (the next add_hash_footer, which makes the certificate, cuts it
off), a failed info_image on the last block leaves an older certificate, which is
then certified with the image (`Ignore` counts both in `ignored`), and a failed
info_image on the given image takes it for one without footer (`unsized`).
avbtool's part is modelled from its commands.

The header of a vendor_boot image has `VendorHeaderSize` cells and is padded to
pages: with 2112 or 2128 bytes it takes two of the default 2048, and one of a
larger size.  The loader rounds the size it reads in the header up to pages.

Not modelled: load addresses, os version, ids and other header fields no
section's place depends on, the syntax of options, how an archive is packed.

### Dtbo

A creation adds one entry at a time (`AddDuplicate`, `AddBlob`), packs the table
(`Commit`) and writes it (`Flush`); cfg_create reads lines first (`CfgLine`), each
a global option, an entry's name or an entry's option.  `DoDump` reads the image
that is there, finished or cut by a kill.  Fields that do not fit 32 bits fail
(`Word`), the page size of the header included.  An output that is opened is empty
from then on, whatever fails later.  The fields rev and custom0-3 are carried along like id and left out.

## 3. Runs

| Run | Instance | Shows |
|---|---|---|
| `client` | blocks of two cells, raw images and sparse ones of at most one chunk, growing to six cells and three chunks | `TypeOK`, `MemoryIsFresh`, `SparseFileStaysReadable`; `HandlerIsFlat`: `ImageClient` implements `FlatImage` |
| `client_past_end` | one sparse image of one RAW chunk, cursor up to one cell behind the end | violation: a read there moves the cursor of a sparse image back, that of a raw one stays |
| `footers` | blocks of four cells, two raw and two sparse images, partitions of 0, 18, 20 and 32 cells, all commands and options; tools and writes may fail, commands be killed | `TypeOK`, `RestsOnLayout`, `RollsBack`, `BaseSurvives`, `FooterVerifies` |
| `footers_restore` | add_hash_footer on the sparse images, writes may fail | violation: `FailureRestores`, the comment "restore the image back to its original size" read for images of any format |
| `boot_usb` | the USB script, three switches of the mode, one crash | `TypeOK`, `GadgetIsTruthful`, `DaemonsFindEndpoints`, `SwitchTakesEffect` |
| `boot_goals` | all scripts, modprobe may fail | `ReadyIsKept`, `AdbComes`, `ContainerComes`, `WifiHelperRuns` |
| `boot_order` | all scripts | violation: nothing waits for SELinux, the daemon's socket or the drivers |
| `dtbo` | three files of two, one and no cells, in two compressions; lists of up to three entries, all flags; configurations of three names; two commands in a row | `TypeOK`, `EntriesPointAtTheirFiles`, `TotalSizeIsFileSize`, `BlobsNeverOverlap`, `DumpReturnsFiles`, `CutImageDumpsPrefixes` |
| `gki` | versions 0 to 5, cells of 2 KB, two page sizes, the smaller shorter than a vendor_boot header, at most `MaxIgnored` unnoticed failures of avbtool for an image, inputs of no to three cells or none at all, command lines around both limits, fragments with equal and forbidden names; two images in an archive | `LoaderFindsSections`, `LoaderFindsFragments`, `CmdlineWhole`, `CertifiesTheBuild`, `FooterCoversCertificates` |
| `aftl` | two logs of up to eight and two leaves, in both orders, outputs with and without padding | `GoodAnswersVerify`, `VerifiedLeafIsLogged`, `OutputReadsBack`, `CutNeverShort` |
| `aftl_validated` | the same | violation: `TrueMeansValidated`, the docstring of make_icp_from_vbmeta; a proof that failed verify_icp is written and the command returns True |
| `verify` | partitions of one to five blocks with trees of up to three levels, five command lines of each kind, one change | `LastIsIncluded`, `TreeIsMerkle`, `VerifiedIsTrue`, `RefusedForAReason`, `VerdictIsReached` |

Bounds.  `client`: three chunks are needed for a read that crosses two borders
and for a cut that has an entry before and after it; six cells are three blocks,
so a chunk of two blocks can be cut inside.  `footers`: a partition of eight
blocks holds data, tree, codes, vbmeta, a gap and the footer; 20 cells is the
tightest size for the smaller image and too small for the larger; 18 is not
aligned, 0 is a dynamic size.  `MaxBase` and `MaxChunks` only stop an image from
growing for ever (erase_footer with `keep_hashtree`, repeated resizing).  An image is
followed as long as it is `Settled` (section 2).  `boot_*`: `Installed` says which scripts there are, because the actions
of different scripts share nothing but init's queue and multiplying them all
with switches and crashes has millions of states; three switches suffice to have
an old mode's events in the queue while a newer one is set, one crash to have a
daemon die in any step.  `dtbo`: the third
entry may share with either of the others, or with none because the format
differs; fields overflow at `Word` = 64.  `gki`: a section of one cell leaves
padding in a page of four, one of three crosses a page of two; a header of two
cells takes two pages of one or one of two; a certificate fills its block, is shorter
or too long.  `aftl`: eight leaves have borders of
every shape up to three levels.  `verify`: with two hashes in a block, five
blocks of data have levels of three, two and one, the first two with a partly filled last
block; an image of one block has no tree; one change is enough for a file to be
other than what was signed, in any step of the verification.

What the footer runs leave out.  Four kinds of input break the footer commands, and
neither the runs nor the theorems have them.  Each is a constant away from
`Footers.cfg`, which TLC then refutes:

* `WithCrc = TRUE`, a sparse image with a CRC32 chunk: `_read_header` gives it no
  entry in the table, so truncate (:1144) counts a chunk less than it leaves, and
  erase_footer, or a second add_hash_footer, writes a header that is refused
  (`RestsOnLayout` after add_hash_footer and erase_footer).
* `Careful = FALSE` with `PartitionSizes = {12}`, no room for append_vbmeta_image, which
  compares no sizes: the gap (:3316) is negative, append_dont_care cuts a
  raw file inside the data it has just written, and the command reports success
  (`RestsOnLayout`).
* `Careful = FALSE` with the sizes of the run, zero_hashtree after `--no_hashtree`: the
  marker block (:2321) is appended where there is no tree, and everything behind it
  moves by a block while the footer stays as it was (`RestsOnLayout`).
* `"lost"` in `Faults`, a disk that is full when the last buffer is flushed: the
  error is discarded (:957) and add_hash_footer reports success without a footer
  (`RestsOnLayout`).

Deadlock is checked in `dtbo`, where a dump is always possible.  It is not in the
others: a client that has raised, a footer image at its bounds, a booted system,
a command that has returned and the loop on an image that is too short stop.

Fairness.  `AvbVerify`: verify_image is one process that waits for nobody, so its
steps together are weakly fair; the changes of files are not.  A command reaches
its verdict because the descriptors are finite, a chain is followed one level
deep and a tree has finitely many blocks; the one exception is the image that
ends before its descriptor says (`ImageEnds`), where the code reads nothing for
ever, and which the property names.  `RecoveryBoot`: init's loop never blocks on a service, so its
steps, the reaping and the restart timer are weakly fair; every process that can
run does, so each step of a service is.  The environment (a crash, a switch) and
`wmt_launcher` reporting ready are not fair: the helper must end without them.
The other modules have no liveness property: a command ends after a bounded
number of steps by its shape.

## 4. Proofs

Every theorem is checked by TLAPS to its leaves, from the assumptions named in
the modules that declare the constants; TLC evaluates those on every run.

| Module | Theorems (the property a run checks, where its name differs) |
|---|---|
| `ImageClientProofs` | `TypeCorrect` (`TypeOK`), `MemoryStaysFresh` (`MemoryIsFresh`), `StaysReadable` (`SparseFileStaysReadable`), `HandlerImplementsFlat` (`HandlerIsFlat`) |
| `AvbFootersProofs` | `FootersTypes` (`TypeOK`), `FailuresRollBack` (`RollsBack`), `ImagesSurvive` (`BaseSurvives`), `FootersVerify` (`FooterVerifies`), `ImagesRestOnLayouts` (`RestsOnLayout`) |
| `AvbVerifyProofs` | `GeneratedTreeIsMerkle` (`TreeIsMerkle`), `LastDescriptorsAreIncluded` (`LastIsIncluded`), `VerifiedImagesAreTrue` (`VerifiedIsTrue`), `IntactImagesAreAccepted` (`RefusedForAReason`) |
| `GkiProofs` | `SectionsAreFound` (`LoaderFindsSections`), `FragmentsAreFound` (`LoaderFindsFragments`), `CmdlineReachesKernel` (`CmdlineWhole`), `OnlyTheBuildIsCertified` (`CertifiesTheBuild`), `FooterIsOfTheCertified` (`FooterCoversCertificates`) |
| `DtboProofs` | `TypeCorrect` (`TypeOK`), `LayoutHolds`, `PointersCorrect` (`EntriesPointAtTheirFiles`), `TotalSizeCorrect` (`TotalSizeIsFileSize`), `BlobsApart` (`BlobsNeverOverlap`), `DumpsReturn` (`DumpReturnsFiles`), `CutDumpsAreBeginnings` (`CutImageDumpsPrefixes`) |
| `RecoveryBootProofs` | `BootIsSafe`, `BootTypes` (`TypeOK`), `DaemonsAreStartedLate` (`DaemonsFindEndpoints`), `ReadyStays` (`ReadyIsKept`), `GadgetIsWhatItSays` (`GadgetIsTruthful`) |
| `AftlProofs` | `InclusionProofsVerify`, `AcceptedProofsAreOfLeaves`, `WorkingLogsAreBelieved` (`GoodAnswersVerify`), `AcceptedLeavesAreLogged` (`VerifiedLeafIsLogged`), `OutputIsReadBack` (`OutputReadsBack`), `CutFilesAreNotShort` (`CutNeverShort`) |

Several of these speak of what a recursive definition computes for every input:
the expansion of a chunk table, a table of fragments, a hash tree, an encoded
list of descriptors, a Merkle tree, a list of entries.  The library's induction theorems take an operator and cannot be used,
so the induction is on a set: the numbers of which a fact holds are a set of
naturals, and if they were not all of them a least one would be missing.
`NatLeast`, `StrongInduction` and `StepInduction` say this once in a module that
needs them.  The definitions themselves are recursive functions or folds; that
such a function exists is proved in the same way, by the functions that satisfy
the equations up to n.

### The image handler

`ImageClientProofs` speaks of every block size, pattern length, set of cells,
set of arguments and every bound, from `SizesAssumption`, `ZeroAssumption` and
`ClientAssumption`, and the hypothesis that the images a handler is opened on
have no CRC32 chunks.  None of the first three theorems is inductive alone: that
truncate sets counters the next `_read_header` accepts depends on the chunk
table describing the chunks on disk, which is `MemoryIsFresh`, and on entry k
being chunk k, which fails as soon as there is a CRC32 chunk.  The invariant is

    IInv == TypeOK /\ MemoryIsFresh /\ SparseFileStaysReadable /\ Plain(h.file)

with `Plain(f)`: no chunk of f is a CRC32 chunk.  The argument has three
layers.  First in `ImageHandlerLemmas`: the output offsets of a chunk sequence (a
recursive function) are natural numbers, multiples of the block, monotone, and
those of a prefix are those of the whole; the interval induction they need is
derived from a least element, since the library's induction theorems take an
operator.  Then, per method: the file after it is well formed and accepted
(`Sound`).  Then one step per action of `Next`.  The hypothesis on CRC32 chunks is
not a convenience: without it the theorems are false (section 3).

*The refinement.*  `HandlerImplementsFlat` says that every behaviour of
`ImageClient` is one of `FlatImage` when a file is read as the cells it expands
to.  Two hypotheses are added.  RAW chunks are whole, since a torn one reads
other than it announces; the methods keep it so until one raises.  And the
cursor stays inside the image or at its end (`PastEnd = 0`): behind the end the two
formats differ, which `client_past_end` shows.  Neither the runs nor the theorem
read from an empty image (`Readable`): a sparse one without chunks has no entry to
look up and raises an IndexError, where a raw one returns nothing.  The invariant is `FlatInv`: `IInv`, whole
chunks, and that a call that raised has left the handler marked.  The work is
in `ImageHandlerLemmas`.  It says of each method what it does to `Content(file)`:
appending appends, cutting a chunk table and cutting its expansion agree, and a
read that walks from chunk to chunk collects a piece of the expansion.

### The footer commands

The theorems of `AvbFootersProofs` speak of any set of images, raw or sparse, of
any length, any partition sizes and any sequence of commands, with failing
writes and tools and with kills.  They take two hypotheses.

`Justified` is about the constants:

* `CellsOfCommands`: the cells that commands write are cells, and the footer and
  the blob's are none of the data's, as the magic numbers tell them apart.  Since
  a digest is the data it was made from, such a set of cells is infinite; it is
  the closure of the data's cells under four constructors.  TLC needs no more of
  `Cell` than the data's cells, and is given those (`MCCell`).
* `VbmetaLen <= MaxVbmeta`: the code assumes it (one of the listed hazards).
* `Careful`: the caller of append_vbmeta_image provides room, zero_hashtree is
  called on an image with a tree.  Section 3 says what happens otherwise.
* `"lost" \notin Faults`: no error of a flush is discarded.  With such an error a
  command reports success without a footer.
* `"raise" \in Faults => Crashes`: commands start on `Settled` images only when
  `Crashes` is set.  What they make of the remains of a killed one is not promised.

`Original(f)` is about the images to begin with: the header is accepted, no CRC32
chunks, whole RAW chunks, data cells only.

None of the properties is inductive: between commands `RestsOnLayout` says what
the file is, but within one nothing says where it stands.  The invariant `Inv`
does, with one predicate for each value of the program counter.  Examples:

| At | The file holds | The command remembers |
|---|---|---|
| idle | `Layout(base, signed)`, or after a failure something `Harmless` | - |
| drop | `Layout(base, signed)` | nothing computed yet |
| check | `base` | that `base` is what to return to |
| tree, fec | the padded base; then with its tree | a descriptor without tree; without codes |
| vbmeta | base, tree and codes (`Body`) | the descriptor and footer of its goal |
| gap, footer | the same with the blob (`Meta`); then with the gap | the footer of its goal |
| cut | the old layout | what to keep, or the old tail |
| mark, fill, markfec, fillfec, tail | the prefix with a block zeroed, one after another | the old descriptor and tail |
| rollback | something `Harmless` that a truncate turns into `base` | that a write raised |

`Goal(job, signed)` is what the image will be signed with if the command ends
well; each write then only has to extend the prefix of one known layout.
`Harmless(file, base)` is what failing and being killed leave behind: if the
image is read it starts with `base`, and if a footer is at its end then the blob
and descriptor it points at are right.  A raised write leaves a proper prefix of
its data, and a proper prefix of what is left to write holds no footer, because
the footer is the last cell of the last write: this is `FooterVerifies`.  A rollback
returns to `base` because a raw file still starts with it (`RollsBackTo`); for
a sparse one the counters may be ahead of the chunks, which is why `RollsBack`
says raw.  The first part of the module holds the other half: a footer, a blob and a
descriptor read at the places a layout puts them are what was put there, for
every size, so that each next command finds `signed` again.

The invariant was checked by TLC on `Footers.cfg` before it was proved.  That the
rollback says raw is the finding of `footers_restore`: of a sparse image the header
already counts the chunk whose write failed.

### mkbootimg

The first part of `GkiProofs` speaks of all inputs, page sizes, versions, command lines and
signature sizes that `BootImageAssumption` and `CommandAssumption` allow.
`SectionsAreFound`: the loader, which computes each place from the header's sizes,
finds every section, in signed images too.  The property is about a finished
image; `BuildInv` says of each moment what has been written:

* `WritesLeft`: `todo` is the end of the list of writes, so the number of sections
  written is known from its length;
* `Progress`: a boot image with k sections is k sections at the pages the loader
  computes, behind the header, and nothing else; a signed one is that and one page;
* `Unread`: the cursor of an input not yet written is at its start.  Without it
  the SHA computed below version 3 could have moved what is copied.

`FragmentsAreFound`: the same of a vendor_boot image, whose loader finds each
fragment by an offset in the table, and the table, the dtb and the boot config by
sums of padded sizes, that of the header among them, which may be longer than a page.  `VendorInv` is the invariant, of the same form: the file
is as many sections as have been written (`VendorProgress`), the table has been
the one of the command's fragments from the start, and `VendorUnread`: the inputs
this image shares with the boot image of the same command are taken from their
first cell, because the vendor image is written before it.  What the table says
is one function of the fragments: a row's offset is the sum of the sizes before it
(`Sums`), rows with a name that is taken are refused before anything is written,
and the section is the fragments one after another (`FlattenIs`), so that
the piece at a row's offset of a row's size is the fragment of this row.

`CmdlineReachesKernel`: the two fields of the header hold the command line, for
any sizes of both, with the terminators the kernel expects.

### certify_bootimg

The second part of `GkiProofs` composes with the first: it uses `BuildInv` to know what the images
are.  Its constants satisfy `GkiCertifyAssumption`, which holds that a page of
version 3 is shorter than the block of certificates (4096 bytes against 16 KiB;
otherwise the signature of mkbootimg itself could be taken for a certificate),
and `TagsAssumption`: no input of mkbootimg ends with AVB data, which
certify_bootimg could not tell from the image's own.  `CertifyInv` says of every
stored image that it is the build, alone or certified with some arguments, with
or without a footer over it (`Known`); of the image in hand what each step has
made of it (`TmpInv`); and of the others of an archive whether they are done
(`WorkInv`).  The two theorems follow for any number of repetitions, because
results are again `Known`.  Failures of avbtool that nobody looks at are part of all
this: an image is known by how many older certificates they have left in it
(`ignored`), so that `OnlyTheBuildIsCertified` bounds what is certified besides the
build, for any `MaxIgnored`, and `FooterIsOfTheCertified` says what becomes of an
image whose size could not be asked (`unsized`).

### mkdtboimg

`DtboProofs` speaks of every set of files, every compression of them, every
command line and configuration and every word size, from `DtboAssumption`.  Each
of its properties speaks of an image that is finished or of entries alone, and
none is inductive: what an entry points at is, while entries are added, an offset
into a buffer that still grows, in an image whose table is not written.  The
invariant (`LayoutHolds`) says of every moment what `dt_offset`, `total_size` and
the buffer are to each other:

    Layout == /\ dtOffset = Base + Len(buf)
              /\ totalSize = 1 + Len(entries) + Len(buf)
              /\ \A i : EntryInPlace(i)      \* what is at its offset in buf is its stream
              /\ \A i, j : Apart(i, j)
              /\ pc \in {"writing", "done"} => Len(entries) = Len(args)
              /\ pc = "done" => image = Metadata \o buf

A new blob is behind everything in the buffer, so old entries stay in place and
are apart from it; a shared one has an earlier entry's offset and size, and that
entry is of the same file and format, which is the guard of the code's
comparison.  `FilesExist` carries the check of the arguments to the entries.

For dumps `ImageInv` adds that an image, finished or cut, is a prefix of the table
and buffer that were written, and that entry i is argument i.  A cut image
gives prefixes of streams.  What unpacking makes of those is
`StreamsAssumption`, the one fact about zlib and gzip: a stream gives back the file
it was made from, and a beginning of one is no stream of another.

### Signing and verification

`AvbVerifyProofs` speaks of any number of partitions of any length, any keys,
any alignment, any number of hashes in a block and any number of changes, from
`HashTreeAssumption`, `DescriptorsAssumption` and `VerifyAssumption`.  All its
theorems take one hypothesis, `Inputs`, on the constants that bound the runs: the
files to begin with are what add_hash_footer or add_hashtree_footer builds for
some partition, with some data, key and options (`IsBuilt`); a later file is
that or data without AVB cells (`IsData`); make_vbmeta_image includes, sets up and
chains to images that there are (`IsCommand`); verify_image is given one of them.
The instance that TLC runs is made of such files and commands.

*The tree.*  The algorithm keeps every level in one array, the top one first, and
fills it with a countdown; the reference makes levels from the leaves up.
`Tower` relates them: the levels, the number of blocks of each, and the
sums of those from the leaves, which are the level offsets counted from the end.
`InLoop` says of each moment of the loop that `out` holds the hashes of the
reference's level as far as it has been read, and that the lower levels stand
at their places in the array (`Filled`); `Complete` of its end that array and root
are the reference's.  `Hashed(gen, file)` carries this to a run whose blocks are read one at
a time from a file: it holds as long as the file is not touched, whatever happens
to the others.  If the file is shorter than its descriptor says, no root is
computed but that of an empty block, and that is no descriptor's
(`GeneratedTreeIsMerkle`).

*Reading what was written.*  `ReadBack` says that the encoding of a list of
descriptors is parsed into this list, whatever it holds, and that with cells lost
(`Lost`: damaged, zeroed) it is parsed into a list of the same shape (`AreLike`),
or not accepted.  `IsImage` says where a file has its blob; of
a file that is one, with or without lost cells (`Derived`), `FromKeeps` says that
what is parsed is like what was written and that, when the signature
verifies, it is what was written, for the signature is a term of the header and
the whole auxiliary block.

*The invariant.*  `Base` has three parts.  `InFiles`: every file is data, or an image of
one of the lists of descriptors a signer issued for it, with cells lost (`Sound`);
until the first change the vbmeta image is what make_vbmeta_image wrote from these
very files (`AsMade`).  `InFrames`: of what shape the frames are.  `InTree`: while a
tree is generated, `Hashed`.  Two of the theorems need no more:
`LastDescriptorsAreIncluded` reads `AsMade` back.  For the others
`InChain` adds that a frame's descriptors are those of its file unless it was
touched, and that an inner frame is one that the outer one chains to.

* `IntactImagesAreAccepted`: nothing has changed, so every descriptor is one that a
  command wrote, and an image's own descriptors match it (`SelfMatch`).  Each
  way to fail leads to one of the four objections, and VerifyHashtree never fails.
* `VerifiedImagesAreTrue`: `InHistory` says what has been seen.  The descriptors
  before `frame.at` are true of the files that were not touched (`Seen`); what
  the outer image chained to before is seen to its end (`FollowedTo`).
  `Return` turns the one into the other.  A file that changes after it was seen is
  touched, and nothing is said of it any more.  Only the vbmeta image has chains,
  as no partition is built with any and losing cells makes none; and it does not
  change while a command runs, so what it chains to at the end is what was
  followed.

### The proofs of transparency logs

`AftlProofs` speaks of any logs, any trees, any answers and any number of servers
and image files, from `AftlAssumption`.  Hashes are terms, so no two trees share
a root by accident; that is the assumption under which RFC 6962 itself promises
anything.

*The algorithm.*  `RootFromIcp` walks up the bits of an index without a tree and
`InclusionProof` walks down a tree without bits.  Both are read as one operator,
`Climb(seed, proof, onLeft)`: put the hashes of the proof to the seed's left or
right, one after another.  On the code's side the marks are arithmetic
(`OnLeft(i, size - 1, k)`: bit k of the index is 0, and index and last index differ
above it or at it).  On the tree's side each level splits n leaves at the
largest power of two below n; that `Split` is one, and the only one, is
proved from `Pow2`.  `PathFits` says that below such a split the marks of the path
are those of the bits, in the left part because its size is a power of two, in
the right part because the index loses exactly its highest bit.
`InclusionProofsVerify` is then completeness for every tree and leaf.
`AcceptedProofsAreOfLeaves` is soundness, for whatever index, size and proof an
answer has: a climb from a leaf's hash that ends in the root of a tree can be
followed down this tree again, and ends at a leaf, because a leaf's hash and a
node's hash are told apart (the two prefixes of RFC 6962).

*The command.*  The invariant is `IInv == Types /\ AllSound /\ Written`.  `Types`
keeps the trees growing only at their ends and the entries well formed;
`AllSound` says of every entry collected that it is verified if the log worked, and
that its leaf is in the beginning of the log's tree of the size that was signed if
it was verified; `Written` that the file is what `Finish` writes or, after
a kill, a beginning of it.  `WorkingLogsAreBelieved` and `AcceptedLeavesAreLogged`
follow, since a tree that has grown still begins with the one that was signed.

*The list.*  Each entry says how many cells it has and whether another one
follows.  `OutputIsReadBack` is by induction over the entries: the loop of
AvbIcpBlob, after n turns, has the first n and stands at the next.  For an output
that padding made longer, `LongerIsRefused` takes the loop to the last entry, which gets
all the cells that are left and is not as long as its header says.  Both are proved
for proofs that together are shorter than `ReadLimit`, because info_image_icp
reads 100000 bytes behind the vbmeta blob and no more; a longer list
is refused or cut there, and nothing in make_icp_from_vbmeta forbids one.
`CutFilesAreNotShort` needs no such hypothesis: a cut inside the list
leaves the mark of an entry that is not there, or one entry shorter than its
header says.

### The recovery boot

`RecoveryBootProofs` speaks of every subset of the scripts besides init's own
(`Installed`), every set of services that may fail, and any number of crashes and
switches: the bounds of the runs are gone.  No assumption is made on them, except
that `GadgetIsWhatItSays` needs `"usb" \in Installed`: a ramdisk without
`init.recovery.usb.rc` has nothing that acts on `sys.usb.config`.

The scripts are a table, so most lemmas first say what the table holds: which
actions each kind of event selects, which commands are in them, in which order.
The rest is about what init does with them.  None of the four properties is
inductive.  That a daemon finds its functionfs mounted depends on the stage `fs`
being over when the first property action runs, which nothing in the property
mentions; that the gadget at rest is truthful, on everything on the way there.
`RecoveryBootInv` states the invariant:

* `Types`: `TypeOK` is a consequence of it; it names the commands there are
  (`Good`) and the events.
* Before `enable_property_trigger`, `BootInv`.  `Position`: the queue is a piece of
  the thirteen events of the boot, the one being executed is the event before
  them; late-init is where it grows.  `Effects`: for each command of an earlier or
  the current event, it has been done or is left to be done.  Two orders inside
  one action matter (configfs before its directories, these before functionfs)
  and are said by `Unled`: no a is left before b.  `Asleep`: no USB daemon, no
  WiFi helper, no gadget.
* Afterwards, `SteadyInv`: only property events and actions, `sys.usb.configfs` is
  1, functionfs is mounted.  The event of all properties is the first, and
  `sys.usb.config` is still adb or will be decomposed.
* `Processes`: what the states of a service say of its process.  A killed one is
  reaped later, so `stopping` has a dead process and `running` may have one.
* `SwitchesInOrder`: a mode that is not the last one asked for has an event of none
  behind it in the queue, and an event of none has that of the mode asked for
  since.  This is the script's convention that a switch goes through none; it is
  why overtaken modes do no harm.
* `GadgetCore`, while no event of none waits.  `LeftInv`: what is left to execute
  decomposes the gadget, or belongs to the mode asked for.  `OffInv`: of a gadget
  being decomposed, each command done has had its effect.  `StartInv`: the mode's
  daemon runs, restarts, or will be started.  `OnInv`: once it is up and init has
  seen `sys.usb.ffs.ready`, what the composing commands done so far have made.

While an event of none waits, nothing is said of the gadget: it may be half
composed, for the wrong mode, with a daemon of the one before.  The proof that
decomposing repairs any such state is the step that takes this event.  The
argument does not count crashes: a daemon that dies leaves the bus, is restarted
and reports ready again, which queues the event that composes the gadget again.

TLC can check `IInv` too, on `BootUsb.cfg` with `RecoveryBootInv` as the module
and `INVARIANT IInv`; it was, with five switches and two crashes, before it
was proved.

### What is only model-checked

* Liveness (`VerdictIsReached`, `AdbComes`, `ContainerComes`, `WifiHelperRuns`,
  `SwitchTakesEffect`): out of the prover's reach.  The theorems about the boot say
  that a boot that settles is right, not that it settles.
* `OutputReadsBack` of a list longer than what info_image_icp reads (above).
* The footer commands with `Careful` unset, with lost flushes, with CRC32 chunks:
  there the properties are false (section 3); and `footers` is also the check that the hypotheses of
  the theorems can be met.

## 5. Not modelled

* avbtool: keys and certificates, info_image, the digests of vbmeta chains, make_atx_*: data
  formats around openssl, without state.
* avbtool 1.1 beyond the transparency logs: the same program as 1.2 with fewer
  options; modelling it again would state the same properties of the same code.
* libxbc, skipcpio, f2fs_sparseblock: short pure functions on binary formats; candidates
  for algorithm modules with a reference each.
* mkuserimg, extract_kernel, factory_image_parser, scripts: command lines around
  external tools.
* Binaries, modules, firmware, policy: not source.

What would come next: the three small formats above as algorithm modules, and
calculate_vbmeta_digest, which walks the same chains as verify_image.
