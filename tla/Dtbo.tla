-------------------------------- MODULE Dtbo --------------------------------
(***************************************************************************)
(* mkdtboimg: one command at a time builds a DTBO image from device tree   *)
(* files, or dumps the image that is there.  A file is a sequence of cells *)
(* of 32 bytes, the size of the table header and of an entry header, which *)
(* take one cell each.  What zlib and gzip make of a device tree is a      *)
(* constant.                                                               *)
(***************************************************************************)
EXTENDS Integers, Sequences

CONSTANTS File,      \* device tree files, named by their real paths
          NoFile,    \* a path at which there is no file
          Cell,      \* the cells of device trees, as they are and compressed
          Content,   \* the cells of each file
          Packed,    \* Packed[c][f]: the file compressed in format c
          Word,      \* one more than the largest field of a header
          Command,   \* the command lines of create: version, page_size, args
          Again,     \* bound: those of them that overwrite an image
          Line,      \* the lines of a configuration file
          MaxNames   \* bound: the entries a configuration file asks for

Format == 0..2       \* NO_COMPRESSION, ZLIB_COMPRESSION, GZIP_COMPRESSION

(* The argument of one entry; a negative number is one that                *)
(* __get_number_or_prop refuses.                                           *)
Arg == [file : File \cup {NoFile}, id : Int, flags : Int]

(* A name in a configuration file: the file at that path, and the files of *)
(* its basename that the walk of --dtb-dir meets, in order.                *)
Name == [absolute : BOOLEAN, at : File \cup {NoFile}, walk : Seq(File)]

ASSUME DtboAssumption ==
  /\ NoFile \notin File
  /\ \A f \in File : Content[f] \in Seq(Cell)
  /\ \A c \in {1, 2}, f \in File : Packed[c][f] \in Seq(Cell)
  /\ Word \in Nat /\ MaxNames \in Nat
  /\ Again \subseteq Command
  /\ Command \subseteq [version : Int, page_size : Int, args : Seq(Arg)]
  /\ Line \subseteq [indent : BOOLEAN, key : STRING, value : Int, name : Name]

(* zlib gives back what was compressed, and raises on a stream that ends   *)
(* early: no beginning of one is the stream of another file.               *)
ASSUME StreamsAssumption ==
  \A c, d \in Format \ {0}, f, g \in File : \A n \in 0..Len(Packed[c][f]) :
    SubSeq(Packed[c][f], 1, n) = Packed[d][g] => Content[f] = Content[g]

VARIABLES image,      \* the image file
          pc,         \* how far the last creation has come
          global,     \* global_args of the configuration file
          named,      \* dt_args: the entries of the configuration file so far
          version,    \* the version of the table header
          pageSize,   \* page_size of the table header
          args,       \* the entries asked for
          entries,    \* __dt_entries
          buf,        \* dt_entry_buf, the blobs collected so far
          dtOffset,   \* dt_offset of add_dt_entries
          totalSize,  \* total_size
          dump        \* what the last dump of this image wrote

vars == << image, pc, global, named, version, pageSize, args, entries, buf, dtOffset, totalSize,
           dump >>

CompressionInfo(v, e) == IF v = 0 THEN 0 ELSE e.flags % 16

(* compress_dt_entry, for a format it knows.                               *)
Stream(f, c) == IF c = 0 THEN Content[f] ELSE Packed[c][f]

NumberOrProp(n) == n >= 0

(* What DtEntry's constructor and the opening of its file accept.          *)
EntryAccepted(v, a) ==
  /\ a.file # NoFile
  /\ NumberOrProp(a.id)
  /\ v = 1 => NumberOrProp(a.flags)

Accepted(v, page_size, asked) ==
  /\ asked # << >>
  /\ v \in {0, 1}
  /\ page_size # 0          \* 0 makes Dtbo() read the file it should write
  /\ \A i \in DOMAIN asked : EntryAccepted(v, asked[i])

-----------------------------------------------------------------------------
(* Creating.  The output is opened for writing, and so emptied, before the *)
(* arguments are looked at.                                                *)

NotCreating == pc \in {"idle", "done", "failed", "killed"}

NoDump == [ran |-> FALSE, ok |-> FALSE, decompress |-> FALSE, entries |-> << >>,
           blobs |-> << >>]

(* Mutant: the first blob is placed behind the table header.               *)
BeginBehindHeader(v, page_size, asked) ==
  /\ image' = << >> /\ version' = v /\ pageSize' = page_size
  /\ args' = asked /\ entries' = << >>
  /\ dtOffset' = 1 /\ totalSize' = 1
  /\ buf' = << >> /\ dump' = NoDump
  /\ pc' = IF Accepted(v, page_size, asked) THEN "adding" ELSE "failed"

Begin(v, page_size, asked) ==
  /\ image' = << >>
  /\ version' = v
  /\ pageSize' = page_size
  /\ args' = asked
  /\ entries' = << >>
  /\ buf' = << >>
  /\ dtOffset' = 1 + Len(asked)
  /\ totalSize' = 1
  /\ dump' = NoDump
  /\ pc' = IF Accepted(v, page_size, asked) THEN "adding" ELSE "failed"

Create ==
  /\ NotCreating
  /\ \E cmd \in IF pc = "idle" THEN Command ELSE Again :
       Begin(cmd.version, cmd.page_size, cmd.args)
  /\ UNCHANGED << global, named >>

-----------------------------------------------------------------------------
(* cfg_create reads its configuration file line by line.  A line has an    *)
(* indent, a key ("" when it has no "=") with a value, and a name.         *)

DtKeys == {"id", "flags"}
GlobalKeys == {"version", "page_size"}

CfgOpen ==
  /\ pc = "idle"    \* bound: cfg_create makes the first image
  /\ pc' = "config"
  /\ global' = [k \in DtKeys \cup GlobalKeys |-> IF k = "page_size" THEN 1 ELSE 0]
  /\ named' = << >>
  /\ UNCHANGED << image, version, pageSize, args, entries, buf, dtOffset, totalSize, dump >>

(* Only before the first name is an indented line a global option.         *)
IsGlobal(line) == line.indent /\ named = << >>

GlobalLine(line) ==
  /\ IsGlobal(line) /\ line.key \in DtKeys \cup GlobalKeys
  /\ global' = [global EXCEPT ![line.key] = line.value]
  /\ UNCHANGED << pc, named >>

OptionLine(line) ==
  /\ ~IsGlobal(line) /\ line.key \in DtKeys /\ named # << >>
  /\ named' = [named EXCEPT ![Len(named)].option[line.key] = line.value]
  /\ UNCHANGED << pc, global >>

(* Mutant: an entry starts with the options of the table header too.       *)
NameLineWithHeader(line) ==
  /\ ~IsGlobal(line) /\ line.key = "" /\ Len(named) < MaxNames
  /\ named' = Append(named, [name |-> line.name, option |-> global])
  /\ UNCHANGED << pc, global >>

NameLine(line) ==
  /\ ~IsGlobal(line) /\ line.key = "" /\ Len(named) < MaxNames
  /\ named' = Append(named, [name |-> line.name,
                             option |-> [k \in DtKeys |-> global[k]]])
  /\ UNCHANGED << pc, global >>

(* An unknown key, a global option without "=", or an entry's option       *)
(* before there is an entry.                                               *)
RefusedLine(line) ==
  /\ IF IsGlobal(line) THEN line.key \notin DtKeys \cup GlobalKeys
     ELSE line.key # "" /\ (line.key \notin DtKeys \/ named = << >>)
  /\ pc' = "failed"
  /\ UNCHANGED << global, named >>

CfgLine ==
  /\ pc = "config"
  /\ \E line \in Line :
       GlobalLine(line) \/ OptionLine(line) \/ NameLine(line) \/ RefusedLine(line)
  /\ UNCHANGED << image, version, pageSize, args, entries, buf, dtOffset, totalSize, dump >>

(* A name that is not absolute means the last file of that basename in the *)
(* walk of --dtb-dir, and only without one the file at the path.           *)
Resolve(name) ==
  IF name.absolute \/ name.walk = << >> THEN name.at ELSE name.walk[Len(name.walk)]

CfgEnd ==
  /\ pc = "config"
  /\ Begin(global["version"], global["page_size"],
           [i \in 1..Len(named) |-> [file |-> Resolve(named[i].name),
                                     id |-> named[i].option["id"],
                                     flags |-> named[i].option["flags"]]])
  /\ UNCHANGED << global, named >>

-----------------------------------------------------------------------------
(* add_dt_entries, one entry at a time, and commit.                        *)

NextArg == args[Len(entries) + 1]
NextFormat == CompressionInfo(version, NextArg)

(* The entry _find_dt_entry_with_same_file returns: the first of the file. *)
SameFile(i) ==
  /\ entries[i].file = NextArg.file
  /\ \A j \in 1..(i - 1) : entries[j].file # NextArg.file

(* Mutant: a blob is shared by the entries of a file in all its formats.   *)
ReusableInAnyFormat(i) == SameFile(i)

Reusable(i) ==
  SameFile(i) /\ CompressionInfo(version, entries[i]) = NextFormat

AddEntry(offset, size) ==
  /\ entries' = Append(entries, [file |-> NextArg.file, id |-> NextArg.id,
                                 flags |-> NextArg.flags,
                                 offset |-> offset, size |-> size])
  /\ UNCHANGED << image, pc, global, named, version, pageSize, args, dump >>

Adding == pc = "adding" /\ Len(entries) < Len(args)

(* Mutant: a shared blob is counted every time it is used.                 *)
AddDuplicateCounted ==
  /\ Adding
  /\ \E i \in DOMAIN entries :
       /\ Reusable(i) /\ AddEntry(entries[i].offset, entries[i].size)
       /\ totalSize' = totalSize + entries[i].size + 1
  /\ UNCHANGED << buf, dtOffset >>

AddDuplicate ==
  /\ Adding
  /\ \E i \in DOMAIN entries :
       Reusable(i) /\ AddEntry(entries[i].offset, entries[i].size)
  /\ totalSize' = totalSize + 1
  /\ UNCHANGED << buf, dtOffset >>

AddBlob ==
  LET blob == Stream(NextArg.file, NextFormat) IN
  /\ Adding
  /\ ~ \E i \in DOMAIN entries : Reusable(i)
  /\ NextFormat \in Format
  /\ AddEntry(dtOffset, Len(blob))
  /\ buf' = buf \o blob
  /\ dtOffset' = dtOffset + Len(blob)
  /\ totalSize' = totalSize + Len(blob) + 1

(* The ValueError for an unknown format is built but never raised: the     *)
(* lookup of the compressor raises a KeyError instead.                     *)
AddUnknownFormat ==
  /\ Adding
  /\ ~ \E i \in DOMAIN entries : Reusable(i)
  /\ NextFormat \notin Format
  /\ pc' = "failed"
  /\ UNCHANGED << image, global, named, version, pageSize, args, entries, buf, dtOffset,
                  totalSize, dump >>

(* _update_metadata: the table header and the entries, as commit packs     *)
(* them.  Version 0 has no flags.                                          *)
Packable ==
  /\ totalSize < Word /\ pageSize \in 0..(Word - 1)
  /\ \A i \in DOMAIN entries :
       /\ entries[i].offset < Word /\ entries[i].size < Word
       /\ entries[i].id < Word
       /\ version = 1 => entries[i].flags < Word

TableHeader == << "table", [total_size |-> totalSize, count |-> Len(entries),
                            version |-> version] >>

(* Mutant: the flags go into the entries of version 0.                     *)
EntryHeaderOldVersion(e) ==
  << "entry", [size |-> e.size, offset |-> e.offset, id |-> e.id,
               flags |-> IF version = 0 THEN e.flags ELSE 0] >>

EntryHeader(e) == << "entry", [size |-> e.size, offset |-> e.offset, id |-> e.id,
                               flags |-> IF version = 1 THEN e.flags ELSE 0] >>

Metadata == [i \in 1..(1 + Len(entries)) |->
               IF i = 1 THEN TableHeader ELSE EntryHeader(entries[i - 1])]

Commit ==
  /\ pc = "adding"
  /\ Len(entries) = Len(args)
  /\ pc' = IF Packable THEN "writing" ELSE "failed"
  /\ UNCHANGED << image, global, named, version, pageSize, args, entries, buf, dtOffset,
                  totalSize, dump >>

Flush ==
  /\ pc = "writing"
  /\ image' = Metadata \o buf
  /\ pc' = "done"
  /\ UNCHANGED << global, named, version, pageSize, args, entries, buf, dtOffset, totalSize,
                  dump >>

(* A killed process leaves what of its buffers had been written.           *)
Kill ==
  /\ pc \in {"config", "adding", "writing"}
  /\ pc' = "killed"
  /\ \E n \in 0..(IF pc = "writing" THEN Len(Metadata \o buf) ELSE 0) :
       image' = SubSeq(Metadata \o buf, 1, n)
  /\ UNCHANGED << global, named, version, pageSize, args, entries, buf, dtOffset, totalSize,
                  dump >>

-----------------------------------------------------------------------------
(* Dumping.                                                                *)

ReadAt(offset, size) ==
  SubSeq(image, offset + 1, IF offset + size < Len(image) THEN offset + size
                            ELSE Len(image))

(* _read_dtbo_image: total_size is read and compared with nothing.         *)
Readable ==
  /\ Len(image) >= 1
  /\ image[1][1] = "table"
  /\ Len(image) >= 1 + image[1][2].count

ReadEntries == [i \in 1..image[1][2].count |-> image[i + 1][2]]

(* Mutant: a stream that ends early is unpacked as far as it goes.         *)
UnpacksCut(bytes, f) ==
  \E c \in {1, 2} : \E n \in 0..Len(Packed[c][f]) : SubSeq(Packed[c][f], 1, n) = bytes

Unpacks(bytes, f) == \E c \in {1, 2} : Packed[c][f] = bytes

(* extract_dt_file: the set of what may be written for the entry, empty    *)
(* when zlib or the format check raises.                                   *)
Extracted(v, e, decompress) ==
  LET bytes == ReadAt(e.offset, e.size)
      c == CompressionInfo(v, e)
  IN  IF decompress /\ c # 0
      THEN {Content[f] : f \in {g \in File : c \in {1, 2} /\ Unpacks(bytes, g)}}
      ELSE {bytes}

DoDump(decompress) ==
  /\ NotCreating /\ pc # "idle"
  /\ IF ~Readable
     THEN dump' = [NoDump EXCEPT !.ran = TRUE, !.decompress = decompress]
     ELSE LET es == ReadEntries
              out(i) == Extracted(image[1][2].version, es[i], decompress)
              stop == {i \in DOMAIN es : out(i) = {}}
              n == IF stop = {} THEN Len(es)
                   ELSE (CHOOSE i \in stop : \A j \in stop : i <= j) - 1
          IN  dump' = [ran |-> TRUE, ok |-> stop = {}, decompress |-> decompress,
                       entries |-> es,
                       blobs |-> [i \in 1..n |-> CHOOSE b \in out(i) : TRUE]]
  /\ UNCHANGED << image, pc, global, named, version, pageSize, args, entries, buf, dtOffset,
                  totalSize >>

-----------------------------------------------------------------------------
Init ==
  /\ image = << >> /\ pc = "idle" /\ version = 0 /\ pageSize = 0 /\ args = << >>
  /\ global = [k \in DtKeys \cup GlobalKeys |-> 0] /\ named = << >>
  /\ entries = << >> /\ buf = << >> /\ dtOffset = 1 /\ totalSize = 1
  /\ dump = NoDump

Next ==
  \/ Create
  \/ CfgOpen \/ CfgLine \/ CfgEnd
  \/ AddDuplicate \/ AddBlob \/ AddUnknownFormat
  \/ Commit \/ Flush \/ Kill
  \/ \E decompress \in BOOLEAN : DoDump(decompress)

Spec == Init /\ [][Next]_vars

-----------------------------------------------------------------------------
(* The types of the creation's variables.                                  *)
TypeOK ==
  /\ pc \in {"idle", "config", "adding", "writing", "done", "failed", "killed"}
  /\ global \in [DtKeys \cup GlobalKeys -> Int]
  /\ named \in Seq([name : Name, option : [DtKeys -> Int]])
  /\ version \in Int /\ pageSize \in Int
  /\ args \in Seq(Arg)
  /\ entries \in Seq([file : File, id : Int, flags : Int, offset : Nat, size : Nat])
  /\ Len(entries) <= Len(args)
  /\ buf \in Seq(Cell)
  /\ dtOffset \in Nat /\ totalSize \in Nat

(* However the entries share their blobs, the bytes an entry points at, in *)
(* the image that will be written, are its own file in its own format: a   *)
(* blob is reused only where add_dt_entries may reuse it.                  *)
EntriesPointAtTheirFiles ==
  pc = "writing" => \A i \in DOMAIN entries :
    SubSeq(Metadata \o buf, entries[i].offset + 1, entries[i].offset + entries[i].size)
      = Stream(entries[i].file, CompressionInfo(version, entries[i]))

(* total_size, which a loader trusts to find the end of the image, is the  *)
(* length of the file, with and without shared blobs.                      *)
TotalSizeIsFileSize == pc = "done" => Len(image) = image[1][2].total_size

(* Two entries share a blob or have disjoint ones, and none overlaps the   *)
(* table: no entry sees a part of another's device tree.                   *)
BlobsNeverOverlap ==
  \A i, j \in DOMAIN entries :
    /\ entries[i].offset > Len(args)
    /\ \/ entries[i].offset = entries[j].offset /\ entries[i].size = entries[j].size
       \/ entries[i].offset + entries[i].size <= entries[j].offset
       \/ entries[j].offset + entries[j].size <= entries[i].offset

(* A dump of a finished image gives back, entry by entry, the files, ids   *)
(* and flags of the command: through sharing, compression and the formats  *)
(* of both versions.                                                       *)
DumpReturnsFiles ==
  dump.ran /\ pc = "done" =>
    /\ dump.ok
    /\ Len(dump.entries) = Len(args)
    /\ \A i \in DOMAIN args :
         /\ dump.entries[i].id = args[i].id
         /\ version = 1 => dump.entries[i].flags = args[i].flags
         /\ dump.blobs[i] = IF dump.decompress THEN Content[args[i].file]
                            ELSE Stream(args[i].file, CompressionInfo(version, args[i]))

(* An image whose creation was killed can be dumped without an error once  *)
(* its table is complete.  The blobs it then gives are beginnings of the   *)
(* right streams, and a blob that was decompressed is the whole file: only *)
(* an uncompressed device tree can come out short unnoticed.               *)
CutImageDumpsPrefixes ==
  dump.ran /\ dump.ok => \A i \in DOMAIN args :
    LET c == CompressionInfo(version, args[i]) IN
    IF dump.decompress /\ c # 0 THEN dump.blobs[i] = Content[args[i].file]
    ELSE dump.blobs[i] = SubSeq(Stream(args[i].file, c), 1, Len(dump.blobs[i]))
=============================================================================
