------------------------------ MODULE BootImage ------------------------------
(***************************************************************************)
(* mkbootimg: one command writes a boot image and, for versions 3 and 4, a *)
(* vendor_boot image, one write at a time.  A file is a sequence of cells; *)
(* a header, a vendor ramdisk table entry and the pages' padding are cells *)
(* too.  An input is a file, Absent when the option was not given; each is *)
(* opened once and read from its cursor.                                   *)
(***************************************************************************)
EXTENDS Integers, Sequences, SequencesExt

CONSTANTS Cell,           \* the cells of the inputs
          Absent,
          Pad,            \* the cell of zeros that fills pages
          V3PageSize,     \* BOOT_IMAGE_HEADER_V3_PAGESIZE, in cells
          SignatureSize,  \* BOOT_IMAGE_V4_SIGNATURE_SIZE, in cells
          VendorHeaderSize, \* VENDOR_BOOT_IMAGE_HEADER_V3_SIZE and ..._V4_SIZE
          ArgsSize,       \* BOOT_ARGS_SIZE, in characters
          ExtraArgsSize,  \* BOOT_EXTRA_ARGS_SIZE
          BuildCommand    \* the command lines of mkbootimg

ASSUME BootImageAssumption ==
  /\ {V3PageSize, SignatureSize} \subseteq Nat \ {0}
  /\ {ArgsSize, ExtraArgsSize} \subseteq Nat \ {0}
  /\ SignatureSize <= V3PageSize
  /\ VendorHeaderSize \in [{3, 4} -> Nat \ {0}]

Input == {"kernel", "ramdisk", "second", "recovery_dtbo", "dtb", "bootconfig"}

(* What argparse lets through.  Characters are their codes.                *)
ASSUME CommandAssumption ==
  \A c \in BuildCommand :
    /\ c.version \in Int
    /\ c.pagesize \in Nat \ {0}
    /\ c.file \in [Input -> {Absent} \cup Seq(Cell)]
    /\ c.cmdline \in Seq(Nat)
    /\ c.vendor_ramdisk \in {Absent} \cup Seq(Cell)
    /\ c.fragments \in Seq([name : STRING, type : STRING, cells : Seq(Cell)])

VARIABLES cmd,      \* the command: version, pagesize, file, cmdline, sign, ...
          at,       \* the cursor of each input
          table,    \* the entries of the VendorRamdiskTableBuilder
          todo,     \* the writes that are left, in order
          boot,     \* the boot image, --output
          vendor,   \* the vendor_boot image
          pc        \* "parse", "write", "done" or "failed"

build == << cmd, at, table, todo, boot, vendor, pc >>

FileSize(f) == IF f = Absent THEN 0 ELSE Len(f)

Pages(size, page) == (size + page - 1) \div page

Pads(n) == [i \in 1..n |-> Pad]

(* pad_file: up to the next page boundary of the file.                     *)
Padded(file, page) == file \o Pads((0 - Len(file)) % page)

WithSignature == cmd.version >= 4 /\ cmd.sign # "no"

-----------------------------------------------------------------------------
(* The command line.                                                       *)

(* AsciizBytes adds a terminator, which has to fit; below version 3 one    *)
(* more character is kept free for the terminator of the first half.       *)
CmdlineFits(c) ==
  Len(c.cmdline) + 1 <= ArgsSize + ExtraArgsSize - (IF c.version < 3 THEN 1 ELSE 0)

(* Mutant: the first field is filled to its end, without room for the zero.*)
SplitAtArgsSize(c) ==
  IF c.version < 3
  THEN LET n == IF Len(c.cmdline) < ArgsSize THEN Len(c.cmdline) ELSE ArgsSize
       IN  << SubSeq(c.cmdline, 1, n), SubSeq(c.cmdline, n + 1, Len(c.cmdline)) >>
  ELSE << c.cmdline, << >> >>

(* The two fields, as asciiz strings without what follows their zeros.     *)
SplitCmdline(c) ==
  IF c.version < 3
  THEN LET n == IF Len(c.cmdline) < ArgsSize - 1 THEN Len(c.cmdline) ELSE ArgsSize - 1
       IN  << SubSeq(c.cmdline, 1, n), SubSeq(c.cmdline, n + 1, Len(c.cmdline)) >>
  ELSE << c.cmdline, << >> >>

(* What add_entry refuses: the blocked name and a name already there.      *)
NameTaken(entries, name) ==
  name = "default" \/ \E i \in DOMAIN entries : entries[i].name = name

TotalSize(entries) ==
  LET size[n \in 0..Len(entries)] == IF n = 0 THEN 0 ELSE size[n - 1] + Len(entries[n].cells)
  IN  size[Len(entries)]

(* Mutant: offsets as if each ramdisk were padded to the page like a       *)
(* section of a file.                                                      *)
AddPaddedRamdisk(entries, fragment) ==
  Append(entries, [name |-> fragment.name, type |-> fragment.type,
                   offset |-> Pages(TotalSize(entries), cmd.pagesize) * cmd.pagesize,
                   cells |-> fragment.cells])

AddRamdisk(entries, fragment) ==
  Append(entries, [name |-> fragment.name, type |-> fragment.type,
                   offset |-> TotalSize(entries), cells |-> fragment.cells])

(* The fragments a vendor_boot of version 4 is given: --vendor_ramdisk     *)
(* first, under the empty name, then one for each option group.            *)
Fragments(c) ==
  (IF c.vendor_ramdisk = Absent THEN << >>
   ELSE << [name |-> "", type |-> "platform", cells |-> c.vendor_ramdisk] >>)
  \o c.fragments

RamdiskTable(c) ==
  LET t[n \in 0..Len(Fragments(c))] == IF n = 0 THEN << >>
                                       ELSE AddRamdisk(t[n - 1], Fragments(c)[n])
  IN  t[Len(Fragments(c))]

TableAccepted(c) ==
  \A i \in DOMAIN Fragments(c) :
    i > 1 \/ c.vendor_ramdisk = Absent =>
      ~NameTaken(SubSeq(Fragments(c), 1, i - 1), Fragments(c)[i].name)

(* parse_cmdline, and the checks of main that come before the first write  *)
(* of each image.  Fragments are only parsed for a vendor_boot above       *)
(* version 3; elsewhere they are unrecognized arguments.                   *)
Parsed(c) ==
  /\ CmdlineFits(c)
  /\ IF c.vendor_boot /\ c.version > 3 THEN TableAccepted(c) ELSE c.fragments = << >>
  /\ c.vendor_boot => c.version \in {3, 4}
  /\ c.vendor_boot /\ c.version = 3 => c.vendor_ramdisk # Absent

-----------------------------------------------------------------------------
(* What is written, in order.                                              *)

VendorWrites(c) ==
  IF ~c.vendor_boot THEN << >>
  ELSE IF c.version > 3
  THEN << "vendor_header", "vendor_ramdisks", "vendor_dtb", "vendor_table", "bootconfig" >>
  ELSE << "vendor_header", "vendor_ramdisk", "vendor_dtb" >>

BootWrites(c) ==
  IF ~c.output THEN << >>
  ELSE << "header", "kernel", "ramdisk", "second" >>
       \o (IF c.version \in {1, 2} THEN << "recovery_dtbo" >> ELSE << >>)
       \o (IF c.version = 2 THEN << "dtb" >> ELSE << >>)
       \o (IF c.version >= 4 /\ c.sign # "no" THEN << "signature" >> ELSE << >>)

(* Opening the outputs empties them before anything is checked.            *)
Start ==
  /\ pc = "parse"
  /\ boot' = << >> /\ vendor' = << >>
  /\ IF Parsed(cmd)
     THEN /\ pc' = "write"
          /\ todo' = VendorWrites(cmd) \o BootWrites(cmd)
          /\ table' = IF cmd.vendor_boot /\ cmd.version > 3 THEN RamdiskTable(cmd) ELSE << >>
     ELSE pc' = "failed" /\ UNCHANGED << todo, table >>
  /\ UNCHANGED << cmd, at >>

PageSize == IF cmd.version > 2 THEN V3PageSize ELSE cmd.pagesize

(* get_recovery_dtbo_offset.                                               *)
RecoveryDtboOffset ==
  cmd.pagesize * (1 + Pages(FileSize(cmd.file["kernel"]), cmd.pagesize)
                    + Pages(FileSize(cmd.file["ramdisk"]), cmd.pagesize)
                    + Pages(FileSize(cmd.file["second"]), cmd.pagesize))

(* The header of a version, with the fields a loader finds sections by.    *)
Header ==
  [version |-> cmd.version,
   page |-> PageSize,
   kernel |-> FileSize(cmd.file["kernel"]),
   ramdisk |-> FileSize(cmd.file["ramdisk"]),
   second |-> IF cmd.version < 3 THEN FileSize(cmd.file["second"]) ELSE 0,
   recovery_dtbo |-> IF cmd.version \in {1, 2} THEN FileSize(cmd.file["recovery_dtbo"]) ELSE 0,
   recovery_offset |-> IF cmd.version \in {1, 2} /\ cmd.file["recovery_dtbo"] # Absent
                       THEN RecoveryDtboOffset ELSE 0,
   dtb |-> IF cmd.version = 2 THEN FileSize(cmd.file["dtb"]) ELSE 0,
   signature |-> IF WithSignature THEN SignatureSize ELSE 0,
   cmdline |-> SplitCmdline(cmd)]

(* Mutant: without the seek, an input that was hashed is at its end.       *)
CursorsLeftAtEnd == [i \in Input |-> FileSize(cmd.file[i])]

(* Below version 3 the header holds the SHA of the inputs: update_sha      *)
(* reads each to its end and seeks back.                                   *)
CursorsAfterSha == [i \in Input |-> 0]

(* Refused before anything of the header is written.                       *)
HeaderRefused ==
  \/ cmd.file["second"] # Absent /\ cmd.version > 2
  \/ cmd.version > 4

WriteHeader ==
  /\ Head(todo) = "header"
  /\ CASE HeaderRefused -> pc' = "failed" /\ UNCHANGED << boot, todo, at >>
       [] ~HeaderRefused /\ cmd.version = 2 /\ FileSize(cmd.file["dtb"]) = 0 ->
            /\ boot' = << << "part", cmd.version >> >>
            /\ pc' = "failed"
            /\ UNCHANGED << todo, at >>
       [] OTHER ->
            /\ boot' = Padded(<< << "header", Header >> >>, PageSize)
            /\ todo' = Tail(todo)
            /\ at' = IF cmd.version < 3 THEN CursorsAfterSha ELSE at
            /\ pc' = pc
  /\ UNCHANGED vendor

(* write_padded_file: what is left of the input, then the rest of a page;  *)
(* nothing, not even padding, for an input that was not given.             *)
Section(file, input, page) ==
  IF cmd.file[input] = Absent THEN file
  ELSE Padded(file \o SubSeq(cmd.file[input], at[input] + 1, Len(cmd.file[input])), page)

Consumed(input) == [at EXCEPT ![input] = FileSize(cmd.file[input])]

WriteSection ==
  /\ Head(todo) \in {"kernel", "ramdisk", "second", "recovery_dtbo", "dtb"}
  /\ boot' = Section(boot, Head(todo), PageSize)
  /\ at' = Consumed(Head(todo))
  /\ todo' = Tail(todo)
  /\ UNCHANGED << vendor, pc >>

(* add_boot_image_signature: the certificate of the image so far.  One     *)
(* that is too long leaves an image whose header promises a signature.     *)
WriteSignature ==
  /\ Head(todo) = "signature"
  /\ IF cmd.sign = "too_long"
     THEN pc' = "failed" /\ UNCHANGED << boot, todo >>
     ELSE /\ boot' = Padded(boot \o << << "vbmeta", "boot", boot >> >>
                            \o Pads(SignatureSize - 1), PageSize)
          /\ todo' = Tail(todo)
          /\ pc' = pc
  /\ UNCHANGED << vendor, at >>

-----------------------------------------------------------------------------
VendorHeader ==
  [version |-> cmd.version,
   size |-> VendorHeaderSize[cmd.version],
   page |-> cmd.pagesize,
   ramdisk |-> IF cmd.version > 3 THEN TotalSize(table) ELSE FileSize(cmd.vendor_ramdisk),
   dtb |-> FileSize(cmd.file["dtb"]),
   entries |-> Len(table),
   bootconfig |-> IF cmd.version > 3 THEN FileSize(cmd.file["bootconfig"]) ELSE 0]

TableEntry(e) ==
  << "ramdisk", [name |-> e.name, type |-> e.type, offset |-> e.offset, size |-> Len(e.cells)] >>

(* The header may be longer than a page; each of its cells stands for all  *)
(* of its fields.  The ramdisks follow each other without padding.         *)
VendorWritten ==
  CASE Head(todo) = "vendor_header" ->
         Padded([i \in 1..VendorHeader.size |-> << "vendor_header", VendorHeader >>], cmd.pagesize)
    [] Head(todo) = "vendor_ramdisk" -> Padded(vendor \o cmd.vendor_ramdisk, cmd.pagesize)
    [] Head(todo) = "vendor_ramdisks" ->
         Padded(vendor \o FlattenSeq([i \in DOMAIN table |-> table[i].cells]), cmd.pagesize)
    [] Head(todo) = "vendor_dtb" -> Section(vendor, "dtb", cmd.pagesize)
    [] Head(todo) = "vendor_table" ->
         Padded(vendor \o [i \in DOMAIN table |-> TableEntry(table[i])], cmd.pagesize)
    [] Head(todo) = "bootconfig" -> Section(vendor, "bootconfig", cmd.pagesize)

WriteVendor ==
  /\ Head(todo) \in {"vendor_header", "vendor_ramdisk", "vendor_ramdisks", "vendor_dtb",
                     "vendor_table", "bootconfig"}
  /\ vendor' = VendorWritten
  /\ at' = CASE Head(todo) = "vendor_dtb" -> Consumed("dtb")
             [] Head(todo) = "bootconfig" -> Consumed("bootconfig")
             [] OTHER -> at
  /\ todo' = Tail(todo)
  /\ UNCHANGED << boot, pc >>

Write ==
  /\ pc = "write" /\ todo # << >>
  /\ WriteHeader \/ WriteSection \/ WriteSignature \/ WriteVendor
  /\ UNCHANGED << cmd, table >>

Finish ==
  /\ pc = "write" /\ todo = << >>
  /\ pc' = "done"
  /\ UNCHANGED << cmd, at, table, todo, boot, vendor >>

BuildInit ==
  /\ cmd \in BuildCommand
  /\ at = [i \in Input |-> 0]
  /\ table = << >> /\ todo = << >> /\ boot = << >> /\ vendor = << >>
  /\ pc = "parse"

BuildNext == Start \/ Write \/ Finish

BuildSpec == BuildInit /\ [][BuildNext]_build

-----------------------------------------------------------------------------
(* The loader, which is not here: it finds a section of an image by the    *)
(* sizes in the header.                                                    *)

ReadAt(file, offset, size) ==
  SubSeq(file, offset + 1, IF offset + size < Len(file) THEN offset + size ELSE Len(file))

LoadKernel(file) == ReadAt(file, file[1][2].page, file[1][2].kernel)

Load(file) ==
  LET h == file[1][2]
      n(size) == Pages(size, h.page)
  IN  [kernel |-> LoadKernel(file),
       ramdisk |-> ReadAt(file, h.page * (1 + n(h.kernel)), h.ramdisk),
       second |-> ReadAt(file, h.page * (1 + n(h.kernel) + n(h.ramdisk)), h.second),
       recovery_dtbo |-> ReadAt(file, h.recovery_offset, h.recovery_dtbo),
       dtb |-> ReadAt(file, h.page * (1 + n(h.kernel) + n(h.ramdisk) + n(h.second)
                                        + n(h.recovery_dtbo)), h.dtb)]

LoadVendor(file) ==
  LET h == file[1][2]
      n(size) == Pages(size, h.page)
      first   == h.page * n(h.size)
      dtbAt   == h.page * (n(h.size) + n(h.ramdisk))
      tableAt == h.page * (n(h.size) + n(h.ramdisk) + n(h.dtb))
      lastAt  == h.page * (n(h.size) + n(h.ramdisk) + n(h.dtb) + n(h.entries))
      entry(i) == file[tableAt + i][2]
  IN  [ramdisks |-> [i \in 1..h.entries |->
                       [name |-> entry(i).name, type |-> entry(i).type,
                        cells |-> ReadAt(file, first + entry(i).offset, entry(i).size)]],
       ramdisk |-> ReadAt(file, first, h.ramdisk),
       dtb |-> ReadAt(file, dtbAt, h.dtb),
       bootconfig |-> ReadAt(file, lastAt, h.bootconfig)]

-----------------------------------------------------------------------------
Given(input) == IF cmd.file[input] = Absent THEN << >> ELSE cmd.file[input]

(* Whatever the version, page size and set of inputs, the loader finds     *)
(* each section of a finished boot image by the header alone: the sizes    *)
(* are written long before the data, the recovery DTBO's offset is         *)
(* computed apart from where it is put, and the inputs were read before.   *)
LoaderFindsSections ==
  pc = "done" /\ cmd.output =>
    LET l == Load(boot) IN
    /\ l.kernel = Given("kernel") /\ l.ramdisk = Given("ramdisk")
    /\ cmd.version < 3 => l.second = Given("second")
    /\ cmd.version \in {1, 2} => l.recovery_dtbo = Given("recovery_dtbo")
    /\ cmd.version = 2 => l.dtb = Given("dtb")
    /\ Len(boot) % PageSize = 0

(* The same of a vendor_boot image: each fragment is where its table entry *)
(* says, under its own name, and the device tree is not taken by the boot  *)
(* image of the same command.                                              *)
LoaderFindsFragments ==
  pc = "done" /\ cmd.vendor_boot =>
    LET l == LoadVendor(vendor) IN
    /\ cmd.version > 3 => l.ramdisks = Fragments(cmd)
    /\ cmd.version = 3 => l.ramdisk = cmd.vendor_ramdisk
    /\ cmd.version > 3 => l.bootconfig = Given("bootconfig")
    /\ l.dtb = Given("dtb")

(* The kernel sees the command line that was asked for: the two fields     *)
(* joined, each short enough for its terminator.                           *)
CmdlineWhole ==
  pc = "done" /\ cmd.output =>
    LET parts == boot[1][2].cmdline IN
    /\ parts[1] \o parts[2] = cmd.cmdline
    /\ cmd.version < 3 => Len(parts[1]) < ArgsSize /\ (parts[2] # << >> => Len(parts[2]) < ExtraArgsSize)
=============================================================================
