----------------------------- MODULE GkiCertify -----------------------------
(***************************************************************************)
(* certify_bootimg: boot images, as mkbootimg writes them and with or      *)
(* without an AVB footer, are given a boot certificate and a certificate   *)
(* of their kernel, one image alone or all the images of an archive.       *)
(* avbtool is run as a process, which may fail whenever it is called: two  *)
(* of its failures are ignored, one is taken for an answer, and any other  *)
(* ends the command.                                                       *)
(***************************************************************************)
EXTENDS BootImage

CONSTANTS Image,             \* the names of the boot images
          CertifyCommand,    \* bound: the builds whose image is certified
          BootSignatureSize, \* BOOT_SIGNATURE_SIZE, in cells
          MetadataSize,      \* what avbtool needs behind an image
          PartitionSizes,    \* --partition_size of the footers images come with
          CertificateLength, \* the cells of a certificate, by its extra arguments
          MaxIgnored         \* bound: failures of avbtool ignored for an image

ASSUME GkiCertifyAssumption ==
  /\ BootSignatureSize \in Nat \ {0}
  /\ MetadataSize \in Nat \ {0, 1}   \* a vbmeta blob and a footer
  /\ MaxIgnored \in Nat
  /\ V3PageSize < BootSignatureSize
  /\ PartitionSizes \subseteq Nat
  /\ \A e \in DOMAIN CertificateLength : CertificateLength[e] \in Nat \ {0}

(* A cell names first what it is.  No input of mkbootimg holds AVB data:   *)
(* at the end of the image or in its last block certify_bootimg could not  *)
(* tell a kernel's footer or vbmeta blob from the image's own.              *)
ASSUME TagsAssumption ==
  \A c \in Cell \cup {Pad} : c[1] \notin {"footer", "vbmeta"}

VARIABLES store,    \* the boot images, where they are
          extra,    \* extra_args, or those of the archive's gki-info.txt
          archive,  \* whether --boot_img_archive was given
          work,     \* the images certify_bootimg reads; an archive's are
                    \* replaced one by one
          waiting,  \* the images still to certify
          current,  \* the image being certified
          tmp,      \* boot_tmp
          output,   \* what the output holds: nothing yet, part, or the images
          step,     \* how far the command is
          ignored,  \* history: the failures of avbtool that were ignored while
                    \* an image was certified, in all of its commands
          unsized   \* history: the images whose size this command could not
                    \* get as avbtool failed

certify == << store, extra, archive, work, waiting, current, tmp, output, step,
              ignored, unsized >>

NoOutput == [state |-> "old", images |-> [i \in {} |-> << >>]]

-----------------------------------------------------------------------------
(* avbtool's part.  A footer is the last cell of a file and says how long *)
(* the image is, behind which its vbmeta blob starts; a vbmeta blob is     *)
(* told by its first cell.                                                 *)

HasFooter(file) == file # << >> /\ file[Len(file)][1] = "footer"

FooterOf(file) == file[Len(file)][2]

EraseFooter(file) ==
  IF HasFooter(file) THEN SubSeq(file, 1, FooterOf(file).original_size) ELSE file

(* info_image of a file with a footer goes to where the footer says the    *)
(* blob is, which need not be in the file if that is a part of another;    *)
(* any other file has to be a blob itself.                                 *)
InfoImage(file) ==
  LET offset == IF HasFooter(file) THEN FooterOf(file).original_size ELSE 0
  IN  offset < Len(file) /\ file[offset + 1][1] = "vbmeta"

Certificate(name, content) ==
  << << "vbmeta", name, content >> >> \o Pads(CertificateLength[extra] - 1)

(* add_hash_footer cuts a footer off before anything else.                 *)
HashFooterFits(file, size) == Len(EraseFooter(file)) + MetadataSize <= size

AddHashFooter(file, size) ==
  LET base == EraseFooter(file)
  IN  base \o << << "vbmeta", "boot", base >> >> \o Pads(size - Len(base) - 2)
           \o << << "footer", [original_size |-> Len(base)] >> >>

-----------------------------------------------------------------------------
(* The images that come in: a finished boot image, and what avbtool can    *)
(* have made of it.                                                        *)
Packaged(file) ==
  {file} \cup {AddHashFooter(file, s) : s \in {p \in PartitionSizes : HashFooterFits(file, p)}}

CertifyInit ==
  /\ store = [i \in Image |-> << >>]
  /\ extra \in DOMAIN CertificateLength
  /\ archive \in BOOLEAN
  /\ work = NoOutput.images /\ waiting = {} /\ current = CHOOSE i \in Image : TRUE
  /\ tmp = << >> /\ output = NoOutput /\ step = "build"
  /\ ignored = [i \in Image |-> 0] /\ unsized = {}

(* A finished boot image is packaged and stored; a command for one image   *)
(* has one, an archive has one or more.                                    *)
Store ==
  /\ step = "build" /\ pc = "done" /\ cmd.output /\ cmd \in CertifyCommand
  /\ \E names \in {{i} : i \in Image} \cup (IF archive THEN {Image} ELSE {}) :
     \E packaged \in [names -> Packaged(boot)] :
       /\ store' = [i \in Image |-> IF i \in names THEN packaged[i] ELSE << >>]
       /\ step' = "ready"
  /\ UNCHANGED << extra, archive, work, waiting, current, tmp, output, ignored, unsized >>

Stored == {i \in Image : store[i] # << >>}

(* shutil.unpack_archive, or nothing to unpack.                            *)
Unpack ==
  /\ step = "ready"
  /\ work' = [i \in Stored |-> store[i]]
  /\ waiting' = Stored
  /\ step' = "next"
  /\ UNCHANGED << store, extra, archive, current, tmp, output, ignored, unsized >>

(* The next boot*.img, in the order glob happens to give them.             *)
CopyIn ==
  /\ step = "next"
  /\ \E i \in waiting :
       /\ current' = i
       /\ waiting' = waiting \ {i}
       /\ tmp' = work[i]
  /\ step' = "erase_footer"
  /\ UNCHANGED << store, extra, archive, work, output, ignored, unsized >>

Stays == << store, extra, archive, waiting, current >>

(* A failure that is not looked at.                                        *)
Ignore ==
  /\ ignored[current] < MaxIgnored
  /\ ignored' = [ignored EXCEPT ![current] = @ + 1]

(* The return code of erase_footer is not looked at: there may be no       *)
(* footer, and there may be one that it could not cut off.                 *)
EraseAvbFooter ==
  /\ step = "erase_footer"
  /\ \/ tmp' = EraseFooter(tmp) /\ UNCHANGED ignored
     \/ HasFooter(tmp) /\ UNCHANGED tmp /\ Ignore
  /\ step' = "erase_certificate"
  /\ UNCHANGED << Stays, work, output, unsized >>

LastBytes(file) == SubSeq(file, Len(file) - BootSignatureSize + 1, Len(file))

HasCertificate(file) == Len(file) > BootSignatureSize /\ InfoImage(LastBytes(file))

(* Mutant: the block is taken for a certificate only if it has a footer.   *)
EraseCertificateWithFooter ==
  /\ step = "erase_certificate"
  /\ tmp' = IF HasCertificate(tmp) /\ HasFooter(LastBytes(tmp))
            THEN SubSeq(tmp, 1, Len(tmp) - BootSignatureSize) ELSE tmp
  /\ step' = "add_certificate"
  /\ UNCHANGED << Stays, work, output, ignored, unsized >>

(* The last block is a certificate if info_image succeeds on it; when the  *)
(* tool fails, the certificate there is stays.                             *)
EraseCertificate ==
  /\ step = "erase_certificate"
  /\ \/ /\ tmp' = IF HasCertificate(tmp)
                    THEN SubSeq(tmp, 1, Len(tmp) - BootSignatureSize) ELSE tmp
        /\ UNCHANGED ignored
     \/ HasCertificate(tmp) /\ UNCHANGED tmp /\ Ignore
  /\ step' = "add_certificate"
  /\ UNCHANGED << Stays, work, output, unsized >>

Certificates(file) ==
  Certificate("boot", file) \o Certificate("generic_kernel", LoadKernel(file))

(* add_certificate: both certificates are made before either is appended.  *)
(* The first is made by add_hash_footer on boot_tmp, which cuts off a      *)
(* footer that is still there.                                             *)
AddCertificate ==
  /\ step = "add_certificate"
  /\ LET base == EraseFooter(tmp) IN
       /\ LoadKernel(base) # << >>
       /\ Len(Certificates(base)) <= BootSignatureSize
       /\ tmp' = base \o Certificates(base)
                      \o Pads(BootSignatureSize - Len(Certificates(base)))
  /\ step' = "add_footer"
  /\ UNCHANGED << Stays, work, output, ignored, unsized >>

(* get_avb_image_size: zero without a footer, which also is its answer     *)
(* when avbtool fails.                                                     *)
AvbImageSize(file) == IF InfoImage(file) THEN Len(file) ELSE 0

(* Mutant: the size is asked of the copy.                                  *)
FooterSizeOfCopy(size) == IF size # 0 /\ InfoImage(tmp) THEN size ELSE Len(tmp) + MetadataSize

(* --partition_size, or --dynamic_partition_size.                          *)
FooterSize(size) == IF size # 0 THEN size ELSE Len(tmp) + MetadataSize

(* The size is that of the image that was given, not of the copy, whose    *)
(* footer has been erased.                                                 *)
AddAvbFooter ==
  /\ step = "add_footer"
  /\ \E failed \in BOOLEAN :
       LET size == FooterSize(IF failed THEN 0 ELSE AvbImageSize(work[current])) IN
       /\ HashFooterFits(tmp, size)
       /\ tmp' = AddHashFooter(tmp, size)
       /\ unsized' = IF failed THEN unsized \cup {current} ELSE unsized
  /\ step' = "copy_out"
  /\ UNCHANGED << Stays, work, output, ignored >>

(* Alone, the image is copied to the output; of an archive, over the       *)
(* unpacked image, and the archive is made when the last one is.           *)
CopyOut ==
  /\ step = "copy_out"
  /\ work' = [work EXCEPT ![current] = tmp]
  /\ step' = IF waiting # {} THEN "next" ELSE "output"
  /\ UNCHANGED << Stays, tmp, output, ignored, unsized >>

Output ==
  /\ step = "output"
  /\ output' = [state |-> "complete", images |-> work]
  /\ step' = "end"
  /\ UNCHANGED << Stays, work, tmp, ignored, unsized >>

(* The output is used as the input of another command.                     *)
Again ==
  /\ step = "end" /\ output.state = "complete"
  /\ store' = [i \in Image |-> IF i \in DOMAIN output.images THEN output.images[i] ELSE << >>]
  /\ output' = NoOutput /\ unsized' = {}
  /\ \E e \in DOMAIN CertificateLength : extra' = e
  /\ step' = "ready"
  /\ UNCHANGED << archive, work, waiting, current, tmp, ignored >>

(* A call of avbtool or one of the checks fails, which raises, or the      *)
(* process is killed, perhaps while it writes the output.                  *)
Stops ==
  /\ step \notin {"build", "ready", "end", "failed"}
  /\ step' = "failed"
  /\ output' = IF step = "output" THEN [NoOutput EXCEPT !.state = "part"] ELSE output
  /\ UNCHANGED << Stays, work, tmp, ignored, unsized >>

CertifyNext ==
  \/ Store \/ Unpack \/ CopyIn \/ EraseAvbFooter \/ EraseCertificate \/ AddCertificate
  \/ AddAvbFooter \/ CopyOut \/ Output \/ Again \/ Stops

-----------------------------------------------------------------------------
Init == BuildInit /\ CertifyInit

Next ==
  \/ BuildNext /\ UNCHANGED certify
  \/ CertifyNext /\ UNCHANGED build

vars == << build, certify >>

Spec == Init /\ [][Next]_vars

-----------------------------------------------------------------------------
(* What is certified is the image mkbootimg wrote: certifying the output   *)
(* again, also with other arguments or as part of an archive, never        *)
(* certifies a certificate, a footer or padding, except that each failure  *)
(* of avbtool that was ignored leaves at most one older certificate, and   *)
(* that one for good.  The kernel's certificate is of the kernel even then.*)
(* An archive comes out with all of its images certified or not at all.    *)
CertifiesTheBuild ==
  output.state = "complete" => DOMAIN output.images = Stored /\ \A i \in Stored :
    LET file == EraseFooter(output.images[i])
        body == SubSeq(file, 1, Len(file) - BootSignatureSize)
        certs == LastBytes(file)
    IN  /\ HasFooter(output.images[i])
        /\ \E older \in 0..ignored[i] : Len(body) = Len(boot) + older * BootSignatureSize
        /\ SubSeq(body, 1, Len(boot)) = boot
        /\ certs[1] = << "vbmeta", "boot", body >>
        /\ certs[CertificateLength[extra] + 1] = << "vbmeta", "generic_kernel", Given("kernel") >>

(* The footer of the output covers the image and its certificates, and an  *)
(* image that came with a footer keeps the size of its partition although  *)
(* that footer is erased before the new one is added: unless avbtool could *)
(* not be asked for it, which goes unnoticed and leaves a footer right     *)
(* behind the certificates.                                                *)
FooterCoversCertificates ==
  output.state = "complete" => \A i \in DOMAIN output.images :
    LET file == output.images[i]
        covered == EraseFooter(file)
    IN  /\ InfoImage(file) /\ file[Len(covered) + 1] = << "vbmeta", "boot", covered >>
        /\ Len(file) = IF HasFooter(store[i]) /\ i \notin unsized
                       THEN Len(store[i]) ELSE Len(covered) + MetadataSize
=============================================================================
