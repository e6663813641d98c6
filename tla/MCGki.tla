-------------------------------- MODULE MCGki --------------------------------
(***************************************************************************)
(* Small instances of mkbootimg and certify_bootimg: cells of 2 KB, so     *)
(* that a page of version 3 is two cells, the header of a vendor_boot two, *)
(* which is two pages of the default size, a legacy signature two and a    *)
(* certificate block eight; inputs of none to three cells.                 *)
(***************************************************************************)
EXTENDS GkiCertify

MCVendorHeaderSize == [v \in {3, 4} |-> 2]

MCPad == << "pad" >>

MCCell == {"data"} \X (Input \cup {"a", "b", "default", ""}) \X (1..12)
Cells(name, n) == [i \in 1..n |-> << "data", name, i >>]

NoFiles == [i \in Input |-> Absent]

Plain == [version |-> 0, pagesize |-> 2, file |-> NoFiles, cmdline |-> << >>, sign |-> "no",
          output |-> TRUE, vendor_boot |-> FALSE, vendor_ramdisk |-> Absent,
          fragments |-> << >>]

Sizes == [kernel : {1, 2, 3}, ramdisk : {0, 2}, second : {-1, 1}, recovery_dtbo : {-1, 0, 3},
          dtb : {-1, 0, 1}]

Files(s) == [i \in Input |->
  IF i = "bootconfig" \/ s[i] = -1 THEN Absent ELSE Cells(i, s[i])]

MCBoot == {[Plain EXCEPT !.version = v, !.pagesize = p, !.file = Files(s)] :
             v \in 0..5, p \in {1, 4}, s \in Sizes}

Letters(n) == [i \in 1..n |-> i]
MCCmdline == {[Plain EXCEPT !.version = v, !.cmdline = Letters(n)] : v \in {0, 2, 3}, n \in 0..7}

MCSigned == {[Plain EXCEPT !.version = v, !.sign = s, !.file["kernel"] = Cells("kernel", n)] :
               v \in {3, 4}, s \in {"no", "yes", "too_long"}, n \in {0, 1, 3, 6, 12}}

Fragment(name, n) == [name |-> name, type |-> "dlkm", cells |-> Cells(name, n)]
MCFragments == {<< >>, << Fragment("a", 1) >>, << Fragment("a", 3), Fragment("b", 1) >>,
                << Fragment("a", 1), Fragment("a", 2) >>, << Fragment("default", 1) >>,
                << Fragment("", 2) >>}

MCVendor == {[Plain EXCEPT !.version = v, !.vendor_boot = TRUE, !.output = o, !.pagesize = p,
                           !.file["dtb"] = d, !.file["bootconfig"] = b,
                           !.file["kernel"] = Cells("kernel", 1),
                           !.vendor_ramdisk = r, !.fragments = fs] :
               v \in 2..4, o \in BOOLEAN, p \in {1, 2}, d \in {Absent, Cells("dtb", 3)},
               b \in {Absent, Cells("bootconfig", 1)}, r \in {Absent, Cells("ramdisk", 3)},
               fs \in MCFragments}

MCBuildCommand == MCBoot \cup MCCmdline \cup MCSigned \cup MCVendor

MCCertificateLength == [e \in {"short", "props", "too_long"} |->
                          CASE e = "short" -> 1 [] e = "props" -> 3 [] OTHER -> 5]

=============================================================================
