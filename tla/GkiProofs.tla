------------------------------ MODULE GkiProofs ------------------------------
(***************************************************************************)
(* For every page size, version and set of inputs: in a finished boot      *)
(* image the loader finds each section by the header alone, the kernel's   *)
(* command line is whole, and in a finished vendor_boot image each         *)
(* fragment is where the ramdisk table says.                               *)
(* For all certificate lengths, partition sizes and any number of          *)
(* certifications and of ignored failures of avbtool, of one image or an   *)
(* archive: what certify_bootimg puts out is the image mkbootimg wrote, at *)
(* most one older certificate for each ignored failure, the two new        *)
(* certificates, and a footer that covers them.                            *)
(***************************************************************************)
EXTENDS GkiCertify, SequenceTheorems, WellFoundedInduction, TLAPS

(* The sizes that are numbers.                                             *)
LEMMA SizesAre ==
  /\ V3PageSize \in Nat \ {0} /\ SignatureSize \in Nat \ {0} /\ SignatureSize <= V3PageSize
  /\ ArgsSize \in Nat \ {0} /\ ExtraArgsSize \in Nat \ {0}
  BY BootImageAssumption

-----------------------------------------------------------------------------
(* Pages.                                                                  *)

(* Quotient and remainder are determined by how they are used.             *)
LEMMA Quotient ==
  ASSUME NEW F \in Nat \ {0}, NEW w \in Int, NEW z \in 0..(F - 1)
  PROVE  (F * w + z) % F = z /\ (F * w + z) \div F = w
<1>1. F * w \in Int
  OBVIOUS
<1>2. (F * w + z) - z = F * w
  BY <1>1
<1> QED
  BY <1>1

LEMMA Division ==
  ASSUME NEW F \in Nat \ {0}, NEW n \in Int
  PROVE  /\ n = F * (n \div F) + (n % F)
         /\ n \div F \in Int /\ n % F \in 0..(F - 1)
  OBVIOUS

(* The pages of n cells are those that n cells and their padding fill.     *)
LEMMA PagesFill ==
  ASSUME NEW P \in Nat \ {0}, NEW n \in Nat
  PROVE  /\ Pages(n, P) \in Nat
         /\ (0 - n) % P \in Nat
         /\ n + ((0 - n) % P) = P * Pages(n, P)
<1> DEFINE m == n + P - 1
           q == m \div P
           r == m % P
<1>1. m \in Nat /\ P \in Nat \ {0}
  OBVIOUS
<1>2. m = P * q + r /\ q \in Int /\ r \in 0..(P - 1)
  BY <1>1, Division
<1>3. Pages(n, P) = q
  BY DEF Pages
<1>4. q \in Nat
  BY <1>1
<1> DEFINE w == 0 - q
           z == P - 1 - r
<1> HIDE DEF q, r
<1>5. w \in Int /\ z \in 0..(P - 1) /\ P * w = 0 - P * q
  BY <1>2
<1>6. 0 - n = P * w + z
  BY <1>2, <1>5
<1> HIDE DEF w
<1>7. (P * w + z) % P = z
  <2> HIDE DEF z
  <2> QED
    BY <1>5, Quotient
<1>8. (0 - n) % P = z
  BY <1>6, <1>7
<1>9. n + z = P * q
  BY <1>2
<1> QED
  BY <1>3, <1>4, <1>5, <1>8, <1>9

(* A section that starts at a page has its pages to itself.                *)
LEMMA PagesAfter ==
  ASSUME NEW P \in Nat \ {0}, NEW k \in Nat, NEW n \in Nat
  PROVE  Pages(P * k + n, P) = k + Pages(n, P)
<1> DEFINE m == n + P - 1
           q == m \div P
           r == m % P
<1>1. m \in Nat
  OBVIOUS
<1>2. m = P * q + r /\ q \in Int /\ r \in 0..(P - 1)
  BY <1>1, Division
<1>3. Pages(n, P) = q
  BY DEF Pages
<1> HIDE DEF q, r
<1>4. P * k \in Nat /\ k + q \in Int /\ P * (k + q) = P * k + P * q
  BY <1>2
<1>5. P * k + n + P - 1 = P * (k + q) + r
  BY <1>2, <1>4
<1>6. (P * (k + q) + r) \div P = k + q
  <2> DEFINE w == k + q
  <2> HIDE DEF w
  <2>1. (P * w + r) \div P = w
    BY <1>2, <1>4, Quotient DEF w
  <2> QED
    BY <2>1 DEF w
<1> QED
  BY <1>3, <1>5, <1>6 DEF Pages

LEMMA NoPages ==
  ASSUME NEW P \in Nat \ {0}
  PROVE  Pages(0, P) = 0 /\ Pages(1, P) = 1
<1>1. (P * 0 + (P - 1)) \div P = 0
  BY Quotient
<1>2. (P * 1 + 0) \div P = 1
  BY Quotient
<1>3. P * 0 = 0 /\ P * 1 = P
  OBVIOUS
<1> QED
  BY <1>1, <1>2, <1>3 DEF Pages

-----------------------------------------------------------------------------
(* Files: what is written stays where it is.                               *)

LEMMA PadsAre ==
  ASSUME NEW S, Pad \in S, NEW n \in Nat
  PROVE  /\ Pads(n) \in Seq(S) /\ Len(Pads(n)) = n
         /\ \A i \in 1..n : Pads(n)[i] = Pad
  BY DEF Pads

LEMMA PaddedIs ==
  ASSUME NEW S, Pad \in S, NEW f \in Seq(S), NEW P \in Nat \ {0}
  PROVE  /\ Padded(f, P) \in Seq(S)
         /\ Len(Padded(f, P)) = P * Pages(Len(f), P)
         /\ Len(f) <= Len(Padded(f, P))
         /\ \A i \in 1..Len(f) : Padded(f, P)[i] = f[i]
         /\ \A i \in (Len(f) + 1)..Len(Padded(f, P)) : Padded(f, P)[i] = Pad
<1> DEFINE n == (0 - Len(f)) % P
           p == Pads(n)
<1>1. Len(f) \in Nat
  OBVIOUS
<1>2. n \in Nat /\ Len(f) + n = P * Pages(Len(f), P)
  BY <1>1, PagesFill
<1>3. Padded(f, P) = f \o p
  BY DEF Padded
<1> HIDE DEF n
<1>4. p \in Seq(S) /\ Len(p) = n /\ \A i \in 1..n : p[i] = Pad
  BY <1>2, PadsAre
<1> HIDE DEF p
<1>5. /\ f \o p \in Seq(S) /\ Len(f \o p) = Len(f) + n
      /\ \A i \in 1..(Len(f) + n) : (f \o p)[i] = IF i <= Len(f) THEN f[i] ELSE p[i - Len(f)]
  BY <1>4, ConcatProperties
<1>6. \A i \in (Len(f) + 1)..(Len(f) + n) : (f \o p)[i] = Pad
  BY <1>1, <1>2, <1>4, <1>5
<1> QED
  BY <1>1, <1>2, <1>3, <1>5, <1>6

(* What is read in a prefix of a file is read in the file.                 *)
LEMMA ReadInPrefix ==
  ASSUME NEW S, NEW f \in Seq(S), NEW T, NEW g \in Seq(T), NEW a \in Nat, NEW n \in Nat,
         a + n <= Len(f), a + n <= Len(g), \A i \in 1..(a + n) : g[i] = f[i]
  PROVE  SubSeq(g, a + 1, a + n) = SubSeq(f, a + 1, a + n)
<1> DEFINE s == SubSeq(f, a + 1, a + n)
           t == SubSeq(g, a + 1, a + n)
<1>1. /\ s \in Seq(S) /\ Len(s) = n
      /\ \A i \in 1..n : s[i] = f[a + i]
  BY SMTT(30)
<1>2. /\ t \in Seq(T) /\ Len(t) = n
      /\ \A i \in 1..n : t[i] = g[a + i]
  BY SMTT(30)
<1>3. \A i \in 1..n : t[i] = s[i]
  <2> TAKE i \in 1..n
  <2>1. a + i \in 1..(a + n)
    OBVIOUS
  <2> QED
    BY <2>1, <1>1, <1>2
<1>4. s \in Seq(S \cup T) /\ t \in Seq(S \cup T)
  BY <1>1, <1>2, SeqMonotonic
<1> HIDE DEF s, t
<1>5. s = t
  BY <1>1, <1>2, <1>3, <1>4, SeqEqual
<1> QED
  BY <1>5 DEF s, t

(* Data written at the end of k pages, and padded, is at page k; what was  *)
(* there before stays.                                                     *)
Appended(S, f, d, P, k, g) ==
  /\ g \in Seq(S)
  /\ Len(g) = P * (k + Pages(Len(d), P))
  /\ Len(f) + Len(d) <= Len(g)
  /\ \A i \in 1..Len(f) : g[i] = f[i]
  /\ \A i \in 1..Len(d) : g[Len(f) + i] = d[i]
  /\ SubSeq(g, P * k + 1, P * k + Len(d)) = d

LEMMA AppendSection ==
  ASSUME NEW S, Pad \in S, NEW f \in Seq(S), NEW d \in Seq(S),
         NEW P \in Nat \ {0}, NEW k \in Nat, Len(f) = P * k
  PROVE  Appended(S, f, d, P, k, Padded(f \o d, P))
<1> DEFINE fd == f \o d
           g == Padded(fd, P)
<1>1. /\ Len(f) \in Nat /\ Len(d) \in Nat /\ P * k \in Nat
  OBVIOUS
<1>2. /\ fd \in Seq(S) /\ Len(fd) = Len(f) + Len(d)
      /\ \A i \in 1..(Len(f) + Len(d)) : fd[i] = IF i <= Len(f) THEN f[i] ELSE d[i - Len(f)]
  BY ConcatProperties
<1> HIDE DEF fd
<1>3. /\ g \in Seq(S) /\ Len(g) = P * Pages(Len(fd), P) /\ Len(fd) <= Len(g)
      /\ \A i \in 1..Len(fd) : g[i] = fd[i]
  BY <1>2, PaddedIs
<1> HIDE DEF g
<1>4. Len(g) = P * (k + Pages(Len(d), P))
  <2> DEFINE n == Len(d)
  <2>1. n \in Nat
    BY <1>1
  <2>2. Len(fd) = P * k + n
    BY <1>2
  <2> HIDE DEF n
  <2>3. Pages(P * k + n, P) = k + Pages(n, P)
    BY <2>1, PagesAfter
  <2>4. Len(g) = P * Pages(Len(fd), P)
    BY <1>3
  <2> QED
    BY <2>2, <2>3, <2>4 DEF n
<1>5. \A i \in 1..Len(f) : g[i] = f[i]
  <2> TAKE i \in 1..Len(f)
  <2>1. i \in 1..(Len(f) + Len(d)) /\ i <= Len(f)
    BY <1>1
  <2>2. fd[i] = f[i]
    BY <2>1, <1>2
  <2> QED
    BY <2>1, <2>2, <1>2, <1>3
<1>6. \A i \in 1..Len(d) : g[Len(f) + i] = d[i]
  <2> TAKE i \in 1..Len(d)
  <2>1. Len(f) + i \in 1..(Len(f) + Len(d)) /\ ~(Len(f) + i <= Len(f)) /\ (Len(f) + i) - Len(f) = i
    BY <1>1
  <2> QED
    BY <2>1, <1>2, <1>3
<1>7. SubSeq(g, Len(f) + 1, Len(f) + Len(d)) = d
  <2> DEFINE s == SubSeq(g, Len(f) + 1, Len(f) + Len(d))
  <2>1. Len(f) + Len(d) <= Len(g)
    BY <1>2, <1>3
  <2>2. s \in Seq(S) /\ Len(s) = Len(d) /\ \A i \in 1..Len(d) : s[i] = g[Len(f) + i]
    BY <1>1, <1>3, <2>1, SMTT(30)
  <2> HIDE DEF s
  <2>3. s = d
    BY <2>2, <1>6, SeqEqual
  <2> QED
    BY <2>3 DEF s
<1> QED
  BY <1>1, <1>2, <1>3, <1>4, <1>5, <1>6, <1>7 DEF g, fd, Appended
-----------------------------------------------------------------------------
(* The invariant.  It says what is in the image after each write.          *)

(* The sections of a boot image, in their order.                           *)
Nth == << "kernel", "ramdisk", "second", "recovery_dtbo", "dtb" >>

(* How many of them the boot image of a version has.                       *)
Sections == IF cmd.version = 2 THEN 5 ELSE IF cmd.version = 1 THEN 4 ELSE 3

(* What the sections are and where they go.                                *)
Layout == [page |-> PageSize, header |-> << "header", Header >>, first |-> 1, cell |-> Cell,
           part |-> [k \in 1..5 |-> Given(Nth[k])]]

PagesOf(l, k) == Pages(Len(l.part[k]), l.page)

(* The page at which section k starts; the header has the pages before the *)
(* first.                                                                  *)
FirstPage(l, k) ==
  l.first + (IF k > 1 THEN PagesOf(l, 1) ELSE 0) + (IF k > 2 THEN PagesOf(l, 2) ELSE 0)
    + (IF k > 3 THEN PagesOf(l, 3) ELSE 0) + (IF k > 4 THEN PagesOf(l, 4) ELSE 0)
    + (IF k > 5 THEN PagesOf(l, 5) ELSE 0)

BootCell(l) == l.cell \cup {Pad, l.header}

SectionOf(l, b, k) ==
  SubSeq(b, l.page * FirstPage(l, k) + 1, l.page * FirstPage(l, k) + Len(l.part[k]))

(* A boot image with its header and the first k sections.                  *)
Built(l, b, k) ==
  /\ b \in Seq(BootCell(l))
  /\ Len(b) = l.page * FirstPage(l, k + 1)
  /\ b[1] = l.header
  /\ \A j \in 1..k : SectionOf(l, b, j) = l.part[j]

SignedFrom(l, b) ==
  Padded(b \o << << "vbmeta", "boot", b >> >> \o Pads(SignatureSize - 1), l.page)

VendorName == {"vendor_header", "vendor_ramdisk", "vendor_ramdisks", "vendor_dtb",
               "vendor_table", "bootconfig"}

SectionName == {"kernel", "ramdisk", "second", "recovery_dtbo", "dtb"}

WriteName == {"header", "signature"} \cup SectionName \cup VendorName

Writes == VendorWrites(cmd) \o BootWrites(cmd)

(* The sections that are written; negative before the header is.           *)
Written == Len(BootWrites(cmd)) - 1 - Len(todo)

WritesLeft ==
  /\ todo \in Seq(WriteName)
  /\ Len(todo) <= Len(Writes)
  /\ \A i \in 1..Len(todo) : todo[i] = Writes[Len(Writes) - Len(todo) + i]

Progress ==
  /\ Written < 0 => boot = << >>
  /\ Written >= 0 => ~HeaderRefused
  /\ Written \in 0..Sections => Built(Layout, boot, Written)
  /\ Written > Sections =>
       \E b \in Seq(BootCell(Layout)) :
         Built(Layout, b, Sections) /\ boot = SignedFrom(Layout, b)

(* The inputs that are still to be written have not been read.             *)
Unread == \A k \in 1..Sections : k > Written => at[Nth[k]] = 0

BuildInv ==
  /\ cmd \in BuildCommand /\ DOMAIN at = Input
  /\ pc \in {"parse", "write", "done", "failed"}
  /\ pc = "parse" => at = [i \in Input |-> 0]
  /\ cmd.output /\ pc \in {"write", "done"} =>
       Parsed(cmd) /\ WritesLeft /\ Progress /\ Unread
  /\ pc = "done" => todo = << >>

-----------------------------------------------------------------------------
(* The places of the sections, for any layout.                             *)

IsLayout(l) ==
  /\ l.page \in Nat \ {0} /\ l.first \in Nat \ {0}
  /\ l.part \in [1..5 -> Seq(l.cell)]

LEMMA Places ==
  ASSUME NEW l, IsLayout(l)
  PROVE  /\ \A k \in 1..5 : /\ l.part[k] \in Seq(l.cell) /\ Len(l.part[k]) \in Nat
                            /\ PagesOf(l, k) \in Nat
                            /\ Len(l.part[k]) <= l.page * PagesOf(l, k)
         /\ \A k \in 1..6 : FirstPage(l, k) \in Nat \ {0}
         /\ \A k \in 1..5 : FirstPage(l, k + 1) = FirstPage(l, k) + PagesOf(l, k)
         /\ FirstPage(l, 1) = l.first
<1>1. \A k \in 1..5 : /\ l.part[k] \in Seq(l.cell) /\ Len(l.part[k]) \in Nat
                      /\ PagesOf(l, k) \in Nat
                      /\ Len(l.part[k]) <= l.page * PagesOf(l, k)
  <2> TAKE k \in 1..5
  <2> DEFINE n == Len(l.part[k])
             P == l.page
  <2>1. l.part[k] \in Seq(l.cell) /\ n \in Nat /\ P \in Nat \ {0}
    BY DEF IsLayout
  <2> HIDE DEF n, P
  <2>2. Pages(n, P) \in Nat /\ (0 - n) % P \in Nat /\ n + ((0 - n) % P) = P * Pages(n, P)
    BY <2>1, PagesFill
  <2>3. n <= P * Pages(n, P)
    BY <2>1, <2>2
  <2> QED
    BY <2>1, <2>2, <2>3 DEF PagesOf, n, P
<1>2. PagesOf(l, 1) \in Nat /\ PagesOf(l, 2) \in Nat /\ PagesOf(l, 3) \in Nat
      /\ PagesOf(l, 4) \in Nat /\ PagesOf(l, 5) \in Nat
  BY <1>1
<1>6. l.first \in Nat \ {0}
  BY DEF IsLayout
<1>3. /\ FirstPage(l, 1) = l.first
      /\ FirstPage(l, 2) = l.first + PagesOf(l, 1)
      /\ FirstPage(l, 3) = l.first + PagesOf(l, 1) + PagesOf(l, 2)
      /\ FirstPage(l, 4) = l.first + PagesOf(l, 1) + PagesOf(l, 2) + PagesOf(l, 3)
      /\ FirstPage(l, 5) = l.first + PagesOf(l, 1) + PagesOf(l, 2) + PagesOf(l, 3) + PagesOf(l, 4)
      /\ FirstPage(l, 6) = l.first + PagesOf(l, 1) + PagesOf(l, 2) + PagesOf(l, 3) + PagesOf(l, 4)
                             + PagesOf(l, 5)
  BY <1>2, <1>6 DEF FirstPage
<1>4. \A k \in 1..6 : FirstPage(l, k) \in Nat \ {0}
  <2>1. /\ FirstPage(l, 1) \in Nat \ {0} /\ FirstPage(l, 2) \in Nat \ {0}
        /\ FirstPage(l, 3) \in Nat \ {0} /\ FirstPage(l, 4) \in Nat \ {0}
        /\ FirstPage(l, 5) \in Nat \ {0} /\ FirstPage(l, 6) \in Nat \ {0}
    BY <1>2, <1>3, <1>6
  <2> TAKE k \in 1..6
  <2>2. k \in {1, 2, 3, 4, 5, 6}
    OBVIOUS
  <2> QED
    BY <2>1, <2>2
<1>5. \A k \in 1..5 : FirstPage(l, k + 1) = FirstPage(l, k) + PagesOf(l, k)
  BY <1>2, <1>3, <1>6
<1> QED
  BY <1>1, <1>3, <1>4, <1>5

(* A page does not start before those of the sections before it end.       *)
LEMMA PlacesInOrder ==
  ASSUME NEW l, IsLayout(l), NEW k \in 1..6, NEW j \in 1..5, j < k
  PROVE  FirstPage(l, j) + PagesOf(l, j) <= FirstPage(l, k)
<1> DEFINE p == [i \in 1..6 |-> FirstPage(l, i)]
           n == [i \in 1..5 |-> PagesOf(l, i)]
<1>1. \A i \in 1..6 : p[i] = FirstPage(l, i)
  OBVIOUS
<1>2. \A i \in 1..5 : n[i] = PagesOf(l, i)
  OBVIOUS
<1> HIDE DEF p, n
<1>3. \A i \in 1..5 : n[i] \in Nat /\ p[i] \in Nat /\ p[i + 1] = p[i] + n[i]
  <2>1. /\ \A i \in 1..5 : PagesOf(l, i) \in Nat
        /\ \A i \in 1..6 : FirstPage(l, i) \in Nat
        /\ \A i \in 1..5 : FirstPage(l, i + 1) = FirstPage(l, i) + PagesOf(l, i)
    BY Places
  <2> TAKE i \in 1..5
  <2>2. i \in 1..6 /\ i + 1 \in 1..6
    OBVIOUS
  <2> QED
    BY <2>1, <2>2, <1>1, <1>2
<1>4. p[j] + n[j] <= p[k]
  <2>1. /\ p[2] = p[1] + n[1] /\ p[3] = p[2] + n[2] /\ p[4] = p[3] + n[3]
        /\ p[5] = p[4] + n[4] /\ p[6] = p[5] + n[5]
    BY <1>3
  <2>2. /\ p[1] \in Nat /\ p[2] \in Nat /\ p[3] \in Nat /\ p[4] \in Nat /\ p[5] \in Nat
        /\ n[1] \in Nat /\ n[2] \in Nat /\ n[3] \in Nat /\ n[4] \in Nat /\ n[5] \in Nat
    BY <1>3
  <2>3. j \in {1, 2, 3, 4, 5} /\ k \in {2, 3, 4, 5, 6}
    OBVIOUS
  <2> QED
    BY <2>1, <2>2, <2>3
<1> QED
  BY <1>1, <1>2, <1>4

(* What is appended does not move the sections that are there.             *)
LEMMA SectionsStay ==
  ASSUME NEW l, IsLayout(l), NEW k \in 0..5, NEW b, Built(l, b, k),
         NEW T, NEW g \in Seq(T), Len(b) <= Len(g), \A i \in 1..Len(b) : g[i] = b[i]
  PROVE  g[1] = l.header /\ \A j \in 1..k : SectionOf(l, g, j) = l.part[j]
<1>1. b \in Seq(BootCell(l)) /\ Len(b) = l.page * FirstPage(l, k + 1) /\ b[1] = l.header
  BY DEF Built
<1>2. l.page \in Nat \ {0} /\ FirstPage(l, k + 1) \in Nat \ {0}
  <2>1. k + 1 \in 1..6
    OBVIOUS
  <2> QED
    BY <2>1, Places DEF IsLayout
<1>3. Len(b) \in Nat \ {0}
  <2> DEFINE P == l.page
             q == FirstPage(l, k + 1)
  <2> HIDE DEF P, q
  <2>1. P * q \in Nat /\ P * q # 0
    BY <1>2 DEF P, q
  <2> QED
    BY <1>1, <2>1 DEF P, q
<1>4. g[1] = l.header
  BY <1>1, <1>3
<1>5. ASSUME NEW j \in 1..k PROVE SectionOf(l, g, j) = l.part[j]
  <2> DEFINE P == l.page
             q == FirstPage(l, j)
             w == PagesOf(l, j)
             z == FirstPage(l, k + 1)
             a == P * q
             n == Len(l.part[j])
  <2>1. /\ P \in Nat \ {0} /\ q \in Nat /\ w \in Nat /\ z \in Nat /\ n \in Nat
        /\ q + w <= z /\ n <= P * w
    <3>1. j \in 1..5 /\ j \in 1..6 /\ k + 1 \in 1..6 /\ j < k + 1
      BY <1>5
    <3>2. FirstPage(l, j) + PagesOf(l, j) <= FirstPage(l, k + 1)
      BY <3>1, PlacesInOrder
    <3>3. FirstPage(l, j) \in Nat /\ PagesOf(l, j) \in Nat
          /\ Len(l.part[j]) \in Nat /\ Len(l.part[j]) <= l.page * PagesOf(l, j)
      BY <3>1, Places
    <3> QED
      BY <1>2, <3>2, <3>3
  <2>2. SectionOf(l, b, j) = l.part[j]
    BY <1>5 DEF Built
  <2>3. /\ SectionOf(l, b, j) = SubSeq(b, a + 1, a + n)
        /\ SectionOf(l, g, j) = SubSeq(g, a + 1, a + n)
    BY DEF SectionOf
  <2>4. Len(b) = P * z
    BY <1>1
  <2> HIDE DEF P, q, w, z, n
  <2>5. a \in Nat /\ a + n <= P * z
    <3>1. P * (q + w) <= P * z /\ P * (q + w) = P * q + P * w
      BY <2>1
    <3> QED
      BY <2>1, <3>1
  <2> HIDE DEF a
  <2>6. /\ a + n <= Len(b) /\ a + n <= Len(g)
        /\ \A i \in 1..(a + n) : g[i] = b[i]
    BY <1>1, <2>1, <2>4, <2>5
  <2>7. SubSeq(g, a + 1, a + n) = SubSeq(b, a + 1, a + n)
    BY <1>1, <2>1, <2>5, <2>6, ReadInPrefix
  <2> QED
    BY <2>2, <2>3, <2>7
<1> QED
  BY <1>4, <1>5

(* The next section, padded, behind the ones before.                       *)
LEMMA SectionBuilt ==
  ASSUME NEW l, IsLayout(l), NEW k \in 0..4, NEW b, Built(l, b, k)
  PROVE  Built(l, Padded(b \o l.part[k + 1], l.page), k + 1)
<1> DEFINE P == l.page
           q == FirstPage(l, k + 1)
           d == l.part[k + 1]
           g == Padded(b \o d, P)
<1>1. /\ P \in Nat \ {0} /\ q \in Nat \ {0} /\ d \in Seq(l.cell) /\ Len(d) \in Nat
      /\ FirstPage(l, k + 2) = q + PagesOf(l, k + 1)
      /\ PagesOf(l, k + 1) = Pages(Len(d), P)
  <2>1. k + 1 \in 1..5 /\ k + 1 \in 1..6 /\ (k + 1) + 1 = k + 2
    OBVIOUS
  <2> QED
    BY <2>1, Places DEF IsLayout, PagesOf
<1>2. b \in Seq(BootCell(l)) /\ Len(b) = P * q /\ b[1] = l.header
  BY DEF Built
<1>3. d \in Seq(BootCell(l)) /\ Pad \in BootCell(l)
  <2>1. l.cell \subseteq BootCell(l) /\ Pad \in BootCell(l)
    BY DEF BootCell
  <2> QED
    BY <1>1, <2>1, SeqMonotonic
<1>4. SectionOf(l, g, k + 1) = SubSeq(g, P * q + 1, P * q + Len(d))
  BY DEF SectionOf
<1> HIDE DEF P, q, d
<1>5. /\ g \in Seq(BootCell(l))
      /\ Len(g) = P * (q + Pages(Len(d), P))
      /\ Len(b) + Len(d) <= Len(g)
      /\ \A i \in 1..Len(b) : g[i] = b[i]
      /\ SubSeq(g, P * q + 1, P * q + Len(d)) = d
  <2> DEFINE S == BootCell(l)
  <2> HIDE DEF S
  <2>1. Pad \in S /\ b \in Seq(S) /\ d \in Seq(S) /\ P \in Nat \ {0} /\ q \in Nat
        /\ Len(b) = P * q
    BY <1>1, <1>2, <1>3 DEF S
  <2>2. Appended(S, b, d, P, q, Padded(b \o d, P))
    BY <2>1, AppendSection, Zenon
  <2> QED
    BY <2>2 DEF S, Appended
<1> HIDE DEF g
<1>6. Len(b) <= Len(g)
  BY <1>1, <1>2, <1>5
<1>7. g[1] = l.header /\ \A j \in 1..k : SectionOf(l, g, j) = l.part[j]
  BY <1>5, <1>6, SectionsStay
<1>8. SectionOf(l, g, k + 1) = d
  BY <1>4, <1>5
<1>9. \A j \in 1..(k + 1) : SectionOf(l, g, j) = l.part[j]
  BY <1>7, <1>8 DEF d
<1>10. Len(g) = l.page * FirstPage(l, k + 2)
  BY <1>1, <1>5 DEF P
<1> QED
  BY <1>5, <1>7, <1>9, <1>10 DEF Built, g, P, d

(* A section that was not given takes no page.                             *)
LEMMA NothingBuilt ==
  ASSUME NEW l, IsLayout(l), NEW k \in 0..4, NEW b, Built(l, b, k), l.part[k + 1] = << >>
  PROVE  Built(l, b, k + 1)
<1>1. /\ FirstPage(l, k + 2) = FirstPage(l, k + 1) + PagesOf(l, k + 1)
      /\ FirstPage(l, k + 1) \in Nat /\ PagesOf(l, k + 1) = 0 /\ l.page \in Nat \ {0}
  <2>1. k + 1 \in 1..5 /\ k + 1 \in 1..6 /\ (k + 1) + 1 = k + 2
    OBVIOUS
  <2> QED
    BY <2>1, Places, NoPages DEF IsLayout, PagesOf
<1>2. SectionOf(l, b, k + 1) = << >>
  <2> DEFINE a == l.page * FirstPage(l, k + 1)
  <2>1. a \in Int
    BY <1>1
  <2>2. SectionOf(l, b, k + 1) = SubSeq(b, a + 1, a + 0)
    BY DEF SectionOf
  <2> HIDE DEF a
  <2> QED
    BY <2>1, <2>2, SubSeqEmpty
<1>3. /\ b \in Seq(BootCell(l)) /\ Len(b) = l.page * FirstPage(l, k + 1) /\ b[1] = l.header
      /\ \A j \in 1..k : SectionOf(l, b, j) = l.part[j]
  BY DEF Built
<1>4. \A j \in 1..(k + 1) : SectionOf(l, b, j) = l.part[j]
  BY <1>2, <1>3
<1>5. Len(b) = l.page * FirstPage(l, k + 2)
  BY <1>1, <1>3
<1> QED
  BY <1>3, <1>4, <1>5 DEF Built

(* The header in its pages.                                                *)
LEMMA HeaderBuilt ==
  ASSUME NEW l, NEW f, IsLayout(l), f \in Seq(BootCell(l)), f # << >>, f[1] = l.header,
         Pages(Len(f), l.page) = l.first
  PROVE  Built(l, Padded(f, l.page), 0)
<1>1. f \in Seq(BootCell(l)) /\ Len(f) \in Nat \ {0} /\ f[1] = l.header /\ Pad \in BootCell(l)
  BY DEF BootCell
<1>2. l.page \in Nat \ {0} /\ FirstPage(l, 0 + 1) = l.first
  BY Places DEF IsLayout
<1>3. /\ Padded(f, l.page) \in Seq(BootCell(l))
      /\ Len(Padded(f, l.page)) = l.page * Pages(Len(f), l.page)
      /\ \A i \in 1..Len(f) : Padded(f, l.page)[i] = f[i]
  BY <1>1, <1>2, PaddedIs
<1>4. Padded(f, l.page)[1] = l.header
  BY <1>1, <1>3
<1> QED
  BY <1>2, <1>3, <1>4 DEF Built

-----------------------------------------------------------------------------
(* The writes of a command.                                                *)

LEMMA Command ==
  ASSUME BuildInv
  PROVE  /\ cmd.version \in Int
         /\ PageSize \in Nat \ {0}
         /\ cmd.file \in [Input -> {Absent} \cup Seq(Cell)]
         /\ cmd.cmdline \in Seq(Nat)
         /\ Sections \in 3..5
         /\ Layout.page = PageSize /\ Layout.header = << "header", Header >>
         /\ Layout.cell = Cell /\ Layout.first = 1
         /\ Layout.part \in [1..5 -> Seq(Cell)]
         /\ \A k \in 1..5 : Layout.part[k] = Given(Nth[k])
<1>1. /\ cmd.version \in Int
      /\ PageSize \in Nat \ {0}
      /\ cmd.file \in [Input -> {Absent} \cup Seq(Cell)]
      /\ cmd.cmdline \in Seq(Nat)
      /\ Sections \in 3..5
  BY CommandAssumption, SizesAre DEF BuildInv, PageSize, Sections
<1>2. /\ Layout.page = PageSize /\ Layout.header = << "header", Header >>
      /\ Layout.cell = Cell /\ Layout.first = 1
      /\ Layout.part = [k \in 1..5 |-> Given(Nth[k])]
  BY DEF Layout
<1>3. \A k \in 1..5 : Nth[k] \in Input
  <2>1. /\ Nth[1] = "kernel" /\ Nth[2] = "ramdisk" /\ Nth[3] = "second"
        /\ Nth[4] = "recovery_dtbo" /\ Nth[5] = "dtb"
    BY DEF Nth
  <2> QED
    BY <2>1 DEF Input
<1>4. \A i \in Input : Given(i) \in Seq(Cell)
  BY <1>1 DEF Given
<1> QED
  BY <1>1, <1>2, <1>3, <1>4

(* The boot image's writes are the last ones.                              *)
LEMMA WritesAre ==
  ASSUME BuildInv, cmd.output, Parsed(cmd)
  PROVE  LET n == Len(VendorWrites(cmd)) IN
         /\ n \in Nat /\ Writes \in Seq(WriteName)
         /\ Len(BootWrites(cmd)) = 1 + Sections + (IF WithSignature THEN 1 ELSE 0)
         /\ Len(Writes) = n + Len(BootWrites(cmd))
         /\ \A i \in 1..n : Writes[i] \in VendorName
         /\ Writes[n + 1] = "header"
         /\ \A k \in 1..Sections : Writes[n + 1 + k] = Nth[k]
         /\ WithSignature => Writes[n + 1 + Sections + 1] = "signature"
         /\ n > 0 => cmd.version > 2
<1> DEFINE V == VendorWrites(cmd)
           B == BootWrites(cmd)
<1>1. cmd.version \in Int
  BY Command
<1>2. /\ V \in Seq(WriteName)
      /\ \A i \in 1..Len(V) : V[i] \in VendorName
      /\ Len(V) > 0 => cmd.version > 2
  <2>1. CASE ~cmd.vendor_boot
    BY <2>1 DEF VendorWrites, WriteName, VendorName
  <2>2. CASE cmd.vendor_boot /\ cmd.version > 3
    <3>1. V = << "vendor_header", "vendor_ramdisks", "vendor_dtb", "vendor_table", "bootconfig" >>
      BY <2>2 DEF VendorWrites
    <3> HIDE DEF V
    <3> QED
      BY <2>2, <3>1, <1>1 DEF WriteName, SectionName, VendorName
  <2>3. CASE cmd.vendor_boot /\ ~(cmd.version > 3)
    <3>1. cmd.version = 3
      BY <2>3, <1>1 DEF Parsed
    <3>2. V = << "vendor_header", "vendor_ramdisk", "vendor_dtb" >>
      BY <2>3 DEF VendorWrites
    <3> HIDE DEF V
    <3> QED
      BY <3>1, <3>2 DEF WriteName, SectionName, VendorName
  <2> QED
    BY <2>1, <2>2, <2>3
<1>3. /\ B \in Seq(WriteName) /\ Len(B) = 1 + Sections + (IF WithSignature THEN 1 ELSE 0)
      /\ B[1] = "header"
      /\ \A k \in 1..Sections : B[1 + k] = Nth[k]
      /\ WithSignature => B[1 + Sections + 1] = "signature"
  <2> DEFINE h == << "header", "kernel", "ramdisk", "second" >>
             r == IF cmd.version \in {1, 2} THEN << "recovery_dtbo" >> ELSE << >>
             d == IF cmd.version = 2 THEN << "dtb" >> ELSE << >>
             g == IF cmd.version >= 4 /\ cmd.sign # "no" THEN << "signature" >> ELSE << >>
             hr == h \o r
             hrd == hr \o d
  <2>1. B = hrd \o g
    BY DEF BootWrites
  <2>2. /\ h \in Seq(WriteName) /\ Len(h) = 4
        /\ h[1] = "header" /\ h[2] = "kernel" /\ h[3] = "ramdisk" /\ h[4] = "second"
    BY DEF WriteName, SectionName, VendorName
  <2>3. /\ r \in Seq(WriteName)
        /\ cmd.version \in {1, 2} => Len(r) = 1 /\ r[1] = "recovery_dtbo"
        /\ cmd.version \notin {1, 2} => Len(r) = 0
    BY DEF WriteName, SectionName, VendorName
  <2>4. /\ d \in Seq(WriteName)
        /\ cmd.version = 2 => Len(d) = 1 /\ d[1] = "dtb"
        /\ cmd.version # 2 => Len(d) = 0
    <3>1. CASE cmd.version = 2
      BY <3>1 DEF WriteName, SectionName, VendorName
    <3>2. CASE cmd.version # 2
      BY <3>2
    <3> QED
      BY <3>1, <3>2
  <2>5. /\ g \in Seq(WriteName)
        /\ WithSignature => Len(g) = 1 /\ g[1] = "signature"
        /\ ~WithSignature => Len(g) = 0
    <3>1. CASE WithSignature
      <4>1. g = << "signature" >>
        BY <3>1 DEF WithSignature
      <4> HIDE DEF g
      <4> QED
        BY <3>1, <4>1 DEF WriteName, SectionName, VendorName
    <3>2. CASE ~WithSignature
      <4>1. g = << >>
        BY <3>2 DEF WithSignature
      <4> HIDE DEF g
      <4> QED
        BY <3>2, <4>1
    <3> QED
      BY <3>1, <3>2
  <2> HIDE DEF h, r, d, g, B
  <2>6. /\ hr \in Seq(WriteName) /\ Len(hr) = Len(h) + Len(r)
        /\ \A i \in 1..(Len(h) + Len(r)) : hr[i] = IF i <= Len(h) THEN h[i] ELSE r[i - Len(h)]
    <3>1. h \in Seq(WriteName) /\ r \in Seq(WriteName)
      BY <2>2, <2>3
    <3> QED
      BY <3>1, ConcatProperties
  <2> HIDE DEF hr
  <2>7. /\ hrd \in Seq(WriteName) /\ Len(hrd) = Len(hr) + Len(d)
        /\ \A i \in 1..(Len(hr) + Len(d)) : hrd[i] = IF i <= Len(hr) THEN hr[i] ELSE d[i - Len(hr)]
    <3>1. hr \in Seq(WriteName) /\ d \in Seq(WriteName)
      BY <2>4, <2>6
    <3> QED
      BY <3>1, ConcatProperties
  <2> HIDE DEF hrd
  <2>8. /\ B \in Seq(WriteName) /\ Len(B) = Len(hrd) + Len(g)
        /\ \A i \in 1..(Len(hrd) + Len(g)) : B[i] = IF i <= Len(hrd) THEN hrd[i] ELSE g[i - Len(hrd)]
    <3>1. hrd \in Seq(WriteName) /\ g \in Seq(WriteName)
      BY <2>5, <2>7
    <3> QED
      BY <2>1, <3>1, ConcatProperties
  <2>9. WithSignature => cmd.version \notin {1, 2}
    BY <1>1 DEF WithSignature
  <2>10. Len(h) = 4 /\ Len(r) \in 0..1 /\ Len(d) \in 0..1 /\ Len(g) \in 0..1
    BY <2>2, <2>3, <2>4, <2>5
  <2>11. /\ \A i \in 1..4 : hr[i] = h[i]
         /\ Len(r) = 1 => hr[5] = r[1]
    BY <2>6, <2>10
  <2>12. /\ \A i \in 1..4 : hrd[i] = h[i]
         /\ Len(r) = 1 => hrd[5] = r[1]
         /\ Len(r) = 1 /\ Len(d) = 1 => hrd[6] = d[1]
    BY <2>6, <2>7, <2>10, <2>11
  <2>13. /\ \A i \in 1..4 : B[i] = h[i]
         /\ Len(r) = 1 => B[5] = r[1]
         /\ Len(r) = 1 /\ Len(d) = 1 => B[6] = d[1]
         /\ Len(r) = 0 /\ Len(d) = 0 /\ Len(g) = 1 => B[5] = g[1]
         /\ Len(B) = 4 + Len(r) + Len(d) + Len(g)
    BY <2>6, <2>7, <2>8, <2>10, <2>12
  <2>14. /\ Nth[1] = "kernel" /\ Nth[2] = "ramdisk" /\ Nth[3] = "second"
         /\ Nth[4] = "recovery_dtbo" /\ Nth[5] = "dtb"
    BY DEF Nth
  <2>15. B[1] = "header" /\ B[2] = "kernel" /\ B[3] = "ramdisk" /\ B[4] = "second"
    BY <2>2, <2>13
  <2>16. B \in Seq(WriteName)
    BY <2>8
  <2>17. CASE cmd.version = 2
    <3>1. Sections = 5 /\ ~WithSignature /\ Len(r) = 1 /\ Len(d) = 1 /\ Len(g) = 0
      BY <2>3, <2>4, <2>5, <2>9, <2>17 DEF Sections
    <3>2. B[5] = "recovery_dtbo" /\ B[6] = "dtb" /\ Len(B) = 6
      BY <2>3, <2>4, <2>13, <2>17, <3>1
    <3>3. \A k \in 1..5 : B[1 + k] = Nth[k]
      BY <2>14, <2>15, <3>2
    <3> QED
      BY <2>16, <2>15, <3>1, <3>2, <3>3
  <2>18. CASE cmd.version = 1
    <3>1. Sections = 4 /\ ~WithSignature /\ Len(r) = 1 /\ Len(d) = 0 /\ Len(g) = 0
      BY <2>3, <2>4, <2>5, <2>9, <2>18 DEF Sections
    <3>2. B[5] = "recovery_dtbo" /\ Len(B) = 5
      BY <2>3, <2>13, <2>18, <3>1
    <3>3. \A k \in 1..4 : B[1 + k] = Nth[k]
      BY <2>14, <2>15, <3>2
    <3> QED
      BY <2>16, <2>15, <3>1, <3>2, <3>3
  <2>19. CASE cmd.version \notin {1, 2}
    <3>1. Sections = 3 /\ Len(r) = 0 /\ Len(d) = 0
      BY <2>3, <2>4, <2>19 DEF Sections
    <3>2. Len(B) = 4 + Len(g) /\ (WithSignature => B[5] = "signature")
      BY <2>5, <2>13, <3>1, <2>10
    <3>3. \A k \in 1..3 : B[1 + k] = Nth[k]
      BY <2>14, <2>15
    <3>4. Len(g) = IF WithSignature THEN 1 ELSE 0
      BY <2>5
    <3> QED
      BY <2>16, <2>15, <3>1, <3>2, <3>3, <3>4
  <2> QED
    BY <2>17, <2>18, <2>19
<1>4. Writes = V \o B
  BY DEF Writes
<1> HIDE DEF V, B
<1>5. /\ V \o B \in Seq(WriteName) /\ Len(V \o B) = Len(V) + Len(B)
      /\ \A i \in 1..(Len(V) + Len(B)) :
           (V \o B)[i] = IF i <= Len(V) THEN V[i] ELSE B[i - Len(V)]
  <2>1. V \in Seq(WriteName) /\ B \in Seq(WriteName)
    BY <1>2, <1>3
  <2> QED
    BY <2>1, ConcatProperties
<1>6. Len(V) \in Nat /\ Len(B) \in Nat /\ Sections \in 3..5
  BY <1>2, <1>3, Command
<1>7. \A i \in 1..Len(V) : (V \o B)[i] = V[i]
  BY <1>5, <1>6
<1>8. \A i \in 1..Len(B) : (V \o B)[Len(V) + i] = B[i]
  <2> TAKE i \in 1..Len(B)
  <2>1. Len(V) + i \in 1..(Len(V) + Len(B)) /\ ~(Len(V) + i <= Len(V)) /\ (Len(V) + i) - Len(V) = i
    BY <1>6
  <2> QED
    BY <2>1, <1>5
<1>9. (V \o B)[Len(V) + 1] = "header"
  BY <1>3, <1>6, <1>8
<1>10. \A k \in 1..Sections : (V \o B)[Len(V) + 1 + k] = Nth[k]
  <2> TAKE k \in 1..Sections
  <2>1. 1 + k \in 1..Len(B) /\ Len(V) + (1 + k) = Len(V) + 1 + k
    BY <1>3, <1>6
  <2> QED
    BY <2>1, <1>3, <1>8
<1>11. WithSignature => (V \o B)[Len(V) + 1 + Sections + 1] = "signature"
  <2> SUFFICES ASSUME WithSignature
               PROVE  (V \o B)[Len(V) + 1 + Sections + 1] = "signature"
    OBVIOUS
  <2>1. 1 + Sections + 1 \in 1..Len(B) /\ Len(V) + (1 + Sections + 1) = Len(V) + 1 + Sections + 1
    BY <1>3, <1>6
  <2> QED
    BY <2>1, <1>3, <1>8
<1> QED
  BY <1>2, <1>3, <1>4, <1>5, <1>6, <1>7, <1>9, <1>10, <1>11 DEF V, B

(* The sections come after the header and before the signature; a          *)
(* vendor_boot image is finished before the boot image is begun.           *)
LEMMA NextWrite ==
  ASSUME BuildInv, cmd.output, pc = "write", todo # << >>
  PROVE  /\ Written \in Int
         /\ Written < -1 => Head(todo) \in VendorName /\ cmd.version > 2
         /\ Written = -1 => Head(todo) = "header"
         /\ Written \in 0..(Sections - 1) => Head(todo) = Nth[Written + 1]
         /\ Written >= Sections => /\ Written = Sections /\ WithSignature
                                   /\ Head(todo) = "signature"
<1> DEFINE n == Len(VendorWrites(cmd))
           b == Len(BootWrites(cmd))
           t == Len(todo)
<1>1. Parsed(cmd) /\ WritesLeft
  BY DEF BuildInv
<1>2. /\ n \in Nat /\ Writes \in Seq(WriteName)
      /\ b = 1 + Sections + (IF WithSignature THEN 1 ELSE 0)
      /\ Len(Writes) = n + b
      /\ \A i \in 1..n : Writes[i] \in VendorName
      /\ Writes[n + 1] = "header"
      /\ \A k \in 1..Sections : Writes[n + 1 + k] = Nth[k]
      /\ WithSignature => Writes[n + 1 + Sections + 1] = "signature"
      /\ n > 0 => cmd.version > 2
  BY <1>1, WritesAre
<1>3. Sections \in 3..5
  BY Command
<1>4. /\ t \in Nat \ {0} /\ t <= n + b
      /\ todo[1] = Writes[n + b - t + 1]
  <2>1. /\ todo \in Seq(WriteName) /\ t <= n + b
        /\ \A i \in 1..t : todo[i] = Writes[Len(Writes) - t + i]
    BY <1>1, <1>2 DEF WritesLeft
  <2>2. t \in Nat \ {0}
    BY <2>1, EmptySeq
  <2>3. 1 \in 1..t
    BY <2>2
  <2>4. todo[1] = Writes[Len(Writes) - t + 1]
    BY <2>1, <2>3
  <2> QED
    BY <1>2, <2>1, <2>2, <2>4
<1>5. Head(todo) = todo[1]
  BY DEF Head
<1>6. Written = b - 1 - t
  BY DEF Written
<1>7. b \in Nat /\ b = 1 + Sections + (IF WithSignature THEN 1 ELSE 0)
  BY <1>2, <1>3
<1> HIDE DEF n, b, t
<1>8. Written \in Int
  BY <1>4, <1>6, <1>7
<1>9. ASSUME Written < -1 PROVE Head(todo) \in VendorName /\ cmd.version > 2
  <2>1. n + b - t + 1 \in 1..n /\ n > 0
    BY <1>2, <1>4, <1>6, <1>7, <1>9
  <2> QED
    BY <2>1, <1>2, <1>4, <1>5
<1>10. ASSUME Written = -1 PROVE Head(todo) = "header"
  <2>1. n + b - t + 1 = n + 1
    <3>1. n \in Nat /\ b \in Nat /\ t \in Nat /\ Written = b - 1 - t
      BY <1>2, <1>4, <1>6, <1>7
    <3> QED
      BY <3>1, <1>10
  <2> QED
    BY <2>1, <1>2, <1>4, <1>5
<1>11. ASSUME Written \in 0..(Sections - 1) PROVE Head(todo) = Nth[Written + 1]
  <2>1. n + b - t + 1 = n + 1 + (Written + 1) /\ Written + 1 \in 1..Sections
    BY <1>2, <1>3, <1>4, <1>6, <1>7, <1>11
  <2>2. Writes[n + 1 + (Written + 1)] = Nth[Written + 1]
    BY <2>1, <1>2
  <2> QED
    BY <2>1, <2>2, <1>4, <1>5
<1>12. ASSUME Written >= Sections
       PROVE  Written = Sections /\ WithSignature /\ Head(todo) = "signature"
  <2>1. t = 1 /\ Written = Sections /\ WithSignature
    BY <1>3, <1>4, <1>6, <1>7, <1>12
  <2>2. n + b - t + 1 = n + 1 + Sections + 1
    BY <1>2, <1>3, <1>7, <2>1
  <2> QED
    BY <2>1, <2>2, <1>2, <1>4, <1>5
<1> QED
  BY <1>8, <1>9, <1>10, <1>11, <1>12

LEMMA NextIsWritten ==
  ASSUME BuildInv, cmd.output, pc = "write", todo # << >>, cmd' = cmd, todo' = Tail(todo)
  PROVE  WritesLeft' /\ Written' = Written + 1
<1>1. /\ todo \in Seq(WriteName) /\ Len(todo) <= Len(Writes)
      /\ \A i \in 1..Len(todo) : todo[i] = Writes[Len(Writes) - Len(todo) + i]
  BY DEF BuildInv, WritesLeft
<1>2. /\ Tail(todo) \in Seq(WriteName)
      /\ Len(Tail(todo)) = Len(todo) - 1
      /\ \A i \in 1..Len(Tail(todo)) : Tail(todo)[i] = todo[i + 1]
  BY <1>1, HeadTailProperties
<1>3. Writes' = Writes /\ Len(BootWrites(cmd))' = Len(BootWrites(cmd))
  BY DEF Writes
<1>4. Len(todo) \in Nat /\ Len(Writes) \in Nat /\ Len(BootWrites(cmd)) \in Nat
  <2>1. Sections \in 3..5
    BY Command
  <2>2. Parsed(cmd)
    BY DEF BuildInv
  <2>3. Writes \in Seq(WriteName)
        /\ Len(BootWrites(cmd)) = 1 + Sections + (IF WithSignature THEN 1 ELSE 0)
    BY <2>2, WritesAre
  <2> QED
    BY <1>1, <2>1, <2>3
<1>5. ASSUME NEW i \in 1..Len(Tail(todo))
      PROVE  Tail(todo)[i] = Writes[Len(Writes) - Len(Tail(todo)) + i]
  <2>1. i + 1 \in 1..Len(todo)
        /\ Len(Writes) - Len(todo) + (i + 1) = Len(Writes) - Len(Tail(todo)) + i
    BY <1>2, <1>4
  <2> QED
    BY <2>1, <1>1, <1>2
<1>6. WritesLeft'
  <2> DEFINE w == Tail(todo)
  <2>1. w \in Seq(WriteName) /\ Len(w) <= Len(Writes)
        /\ \A i \in 1..Len(w) : w[i] = Writes[Len(Writes) - Len(w) + i]
    BY <1>1, <1>2, <1>4, <1>5
  <2> HIDE DEF w
  <2>2. todo' = w
    BY DEF w
  <2> QED
    BY <1>3, <2>1, <2>2 DEF WritesLeft
<1>7. Written' = Written + 1
  <2>1. Len(todo') = Len(todo) - 1
    BY <1>2
  <2> QED
    BY <1>3, <1>4, <2>1 DEF Written
<1> QED
  BY <1>6, <1>7

-----------------------------------------------------------------------------
(* The invariant, step by step.                                            *)

LEMMA NthNames ==
  /\ Nth[1] = "kernel" /\ Nth[2] = "ramdisk" /\ Nth[3] = "second"
  /\ Nth[4] = "recovery_dtbo" /\ Nth[5] = "dtb"
  /\ \A k \in 1..5 : Nth[k] \in SectionName /\ Nth[k] \in Input
  /\ \A j, k \in 1..5 : Nth[j] = Nth[k] => j = k
<1>1. /\ Nth[1] = "kernel" /\ Nth[2] = "ramdisk" /\ Nth[3] = "second"
      /\ Nth[4] = "recovery_dtbo" /\ Nth[5] = "dtb"
  BY DEF Nth
<1>2. \A k \in 1..5 : Nth[k] \in SectionName /\ Nth[k] \in Input
  BY <1>1 DEF SectionName, Input
<1>3. \A j, k \in {1, 2, 3, 4, 5} : Nth[j] = Nth[k] => j = k
  BY <1>1
<1>4. 1..5 = {1, 2, 3, 4, 5}
  OBVIOUS
<1> QED
  BY <1>1, <1>2, <1>3, <1>4

LEMMA CommandStays ==
  ASSUME cmd' = cmd
  PROVE  /\ Layout' = Layout /\ Sections' = Sections /\ WithSignature' = WithSignature
         /\ HeaderRefused' = HeaderRefused
  BY DEF Layout, Sections, HeaderRefused, PageSize, Header, WithSignature, Given,
         RecoveryDtboOffset

LEMMA ControlStep ==
  ASSUME BuildInv, [BuildNext]_build
  PROVE  /\ cmd' = cmd /\ cmd' \in BuildCommand /\ DOMAIN at' = Input
         /\ pc' \in {"parse", "write", "done", "failed"}
         /\ pc' = "parse" => at' = [i \in Input |-> 0]
         /\ pc' = "done" => todo' = << >>
<1>1. /\ cmd \in BuildCommand /\ DOMAIN at = Input
      /\ pc \in {"parse", "write", "done", "failed"}
      /\ pc = "parse" => at = [i \in Input |-> 0]
      /\ pc = "done" => todo = << >>
  BY DEF BuildInv
<1>2. CASE UNCHANGED build
  BY <1>1, <1>2 DEF build
<1>3. CASE Start
  BY <1>1, <1>3 DEF Start
<1>4. CASE Finish
  BY <1>1, <1>4 DEF Finish
<1>5. CASE Write
  <2>1. pc = "write" /\ cmd' = cmd
    BY <1>5 DEF Write
  <2>2. CASE WriteHeader
    BY <1>1, <2>1, <2>2 DEF WriteHeader, CursorsAfterSha
  <2>3. CASE WriteSection
    BY <1>1, <2>1, <2>3 DEF WriteSection, Consumed
  <2>4. CASE WriteSignature
    BY <1>1, <2>1, <2>4 DEF WriteSignature
  <2>5. CASE WriteVendor
    BY <1>1, <2>1, <2>5 DEF WriteVendor, Consumed
  <2> QED
    BY <1>5, <2>2, <2>3, <2>4, <2>5 DEF Write
<1> QED
  BY <1>2, <1>3, <1>4, <1>5 DEF BuildNext

LEMMA StartWrites ==
  ASSUME BuildInv, Start, cmd.output, pc' = "write"
  PROVE  (Parsed(cmd) /\ WritesLeft /\ Progress /\ Unread)'
<1>1. /\ pc = "parse" /\ Parsed(cmd) /\ cmd' = cmd /\ at' = at /\ boot' = << >>
      /\ todo' = Writes
  BY DEF Start, Writes
<1>2. at = [i \in Input |-> 0] /\ Sections \in 3..5
  BY <1>1, Command DEF BuildInv
<1>3. /\ Writes \in Seq(WriteName) /\ Len(VendorWrites(cmd)) \in Nat
      /\ Len(BootWrites(cmd)) = 1 + Sections + (IF WithSignature THEN 1 ELSE 0)
      /\ Len(Writes) = Len(VendorWrites(cmd)) + Len(BootWrites(cmd))
  BY <1>1, WritesAre
<1>4. Writes' = Writes /\ BootWrites(cmd)' = BootWrites(cmd)
  BY <1>1 DEF Writes
<1>5. WritesLeft'
  <2>1. Len(Writes) \in Nat
    BY <1>3
  <2>2. \A i \in 1..Len(Writes) : Len(Writes) - Len(Writes) + i = i
    BY <2>1
  <2> DEFINE w == Writes
  <2>3. todo' = w /\ Writes' = w
    BY <1>1, <1>4
  <2>4. w \in Seq(WriteName) /\ Len(w) <= Len(w) /\ \A i \in 1..Len(w) : w[i] = w[Len(w) - Len(w) + i]
    <3>1. w \in Seq(WriteName) /\ Len(w) \in Nat
      BY <1>3, <2>1
    <3> HIDE DEF w
    <3> QED
      BY <3>1
  <2> HIDE DEF w
  <2> QED
    BY <2>3, <2>4 DEF WritesLeft
<1>6. Written' < 0
  <2>1. Written' = Len(BootWrites(cmd)) - 1 - Len(Writes)
    BY <1>1, <1>4 DEF Written
  <2>2. Len(BootWrites(cmd)) \in Nat /\ Len(VendorWrites(cmd)) \in Nat
    BY <1>2, <1>3
  <2> QED
    BY <1>3, <2>1, <2>2
<1>7. Written' \in Int
  BY <1>1, <1>2, <1>3, <1>4 DEF Written
<1>8. Sections' = Sections
  BY <1>1, CommandStays
<1>9. Progress'
  BY <1>1, <1>2, <1>6, <1>7, <1>8 DEF Progress
<1>10. Unread'
  <2>1. \A k \in 1..Sections : at[Nth[k]] = 0
    BY <1>2, NthNames
  <2>2. Nth' = Nth
    BY DEF Nth
  <2> QED
    BY <1>1, <1>8, <2>1, <2>2 DEF Unread
<1> QED
  BY <1>1, <1>5, <1>9, <1>10

LEMMA VendorStep ==
  ASSUME BuildInv, Write, WriteVendor, cmd.output
  PROVE  (Progress /\ Unread)'
<1>1. /\ pc = "write" /\ todo # << >> /\ cmd' = cmd /\ todo' = Tail(todo) /\ boot' = boot
      /\ Head(todo) \in VendorName
      /\ at' \in {at, Consumed("dtb"), Consumed("bootconfig")}
  BY DEF Write, WriteVendor, VendorName
<1>2. Progress /\ Unread /\ DOMAIN at = Input
  BY <1>1 DEF BuildInv
<1>3. Sections \in 3..5
  BY Command
<1>4. Written \in Int /\ Written < -1 /\ cmd.version > 2
  <2>1. Head(todo) \notin SectionName /\ Head(todo) # "header" /\ Head(todo) # "signature"
    BY <1>1 DEF VendorName, SectionName
  <2>2. /\ Written \in Int
        /\ Written = -1 => Head(todo) = "header"
        /\ Written \in 0..(Sections - 1) => Head(todo) = Nth[Written + 1]
        /\ Written >= Sections => Head(todo) = "signature"
        /\ Written < -1 => cmd.version > 2
    BY <1>1, NextWrite
  <2>3. Written \notin 0..(Sections - 1)
    <3>1. SUFFICES ASSUME Written \in 0..(Sections - 1) PROVE FALSE
      OBVIOUS
    <3>2. Written + 1 \in 1..5
      BY <1>3, <3>1
    <3> QED
      BY <2>1, <2>2, <3>1, <3>2, NthNames
  <2> QED
    BY <1>3, <2>1, <2>2, <2>3
<1>5. Written' = Written + 1 /\ Sections' = Sections
  BY <1>1, NextIsWritten, CommandStays
<1>6. Progress'
  BY <1>1, <1>2, <1>3, <1>4, <1>5 DEF Progress
<1>7. Unread'
  <2>1. Sections = 3
    BY <1>4, Command DEF Sections
  <2>2. \A k \in 1..3 : Nth[k] # "dtb" /\ Nth[k] # "bootconfig"
    BY NthNames
  <2>3. \A k \in 1..3 : at[Nth[k]] = 0
    BY <1>2, <1>4, <2>1 DEF Unread
  <2>4. \A k \in 1..3 : at'[Nth[k]] = at[Nth[k]]
    BY <1>1, <1>2, <2>2, NthNames DEF Consumed
  <2>5. Nth' = Nth
    BY DEF Nth
  <2> QED
    BY <1>5, <2>1, <2>3, <2>4, <2>5 DEF Unread
<1> QED
  BY <1>6, <1>7

LEMMA HeaderStep ==
  ASSUME BuildInv, Write, WriteHeader, cmd.output, pc' = "write"
  PROVE  (WritesLeft /\ Progress /\ Unread)'
<1>1. /\ pc = "write" /\ todo # << >> /\ cmd' = cmd /\ Head(todo) = "header"
  BY DEF Write, WriteHeader
<1>2. /\ ~HeaderRefused
      /\ boot' = Padded(<< << "header", Header >> >>, PageSize)
      /\ todo' = Tail(todo)
      /\ at' = at \/ at' = [i \in Input |-> 0]
  BY DEF WriteHeader, CursorsAfterSha
<1>3. Unread /\ DOMAIN at = Input /\ Sections \in 3..5
  BY <1>1, Command DEF BuildInv
<1>4. Written = -1
  <2>1. Head(todo) \notin SectionName /\ Head(todo) \notin VendorName /\ Head(todo) # "signature"
    BY <1>1 DEF VendorName, SectionName
  <2>2. /\ Written \in Int
        /\ Written < -1 => Head(todo) \in VendorName
        /\ Written \in 0..(Sections - 1) => Head(todo) = Nth[Written + 1]
        /\ Written >= Sections => Head(todo) = "signature"
    BY <1>1, NextWrite
  <2>3. Written \notin 0..(Sections - 1)
    <3>1. SUFFICES ASSUME Written \in 0..(Sections - 1) PROVE FALSE
      OBVIOUS
    <3>2. Written + 1 \in 1..5
      BY <1>3, <3>1
    <3> QED
      BY <2>1, <2>2, <3>1, <3>2, NthNames
  <2> QED
    BY <1>3, <2>1, <2>2, <2>3
<1>5. /\ WritesLeft' /\ Written' = 0 /\ Sections' = Sections /\ Layout' = Layout
      /\ HeaderRefused' = HeaderRefused
  BY <1>1, <1>2, <1>4, NextIsWritten, CommandStays
<1>6. Built(Layout, boot', 0)
  <2>1. IsLayout(Layout) /\ Layout.page = PageSize /\ Layout.header = << "header", Header >>
    BY Command DEF IsLayout
  <2> DEFINE f == << Layout.header >>
             l == Layout
  <2>2. f \in Seq(BootCell(l)) /\ f # << >> /\ f[1] = l.header /\ Len(f) = 1
    BY DEF BootCell
  <2>3. Pages(Len(f), l.page) = l.first
    <3>1. l.first = 1 /\ l.page \in Nat \ {0}
      BY <2>1 DEF Layout, IsLayout
    <3> HIDE DEF f, l
    <3> QED
      BY <2>2, <3>1, NoPages
  <2> HIDE DEF f, l
  <2>4. IsLayout(l)
    BY <2>1 DEF l
  <2>5. Built(l, Padded(f, l.page), 0)
    BY <2>2, <2>3, <2>4, HeaderBuilt
  <2> QED
    BY <1>2, <2>1, <2>5 DEF f, l
<1>7. Progress'
  BY <1>2, <1>3, <1>5, <1>6 DEF Progress
<1>8. Unread'
  <2>1. \A k \in 1..Sections : at[Nth[k]] = 0
    BY <1>3, <1>4 DEF Unread
  <2>2. \A k \in 1..Sections : at'[Nth[k]] = 0
    BY <1>2, <1>3, <2>1, NthNames
  <2>3. Nth' = Nth
    BY DEF Nth
  <2> QED
    BY <1>5, <2>2, <2>3 DEF Unread
<1> QED
  BY <1>5, <1>7, <1>8

(* An input that nobody has read is copied from its first cell.            *)
LEMMA SectionIs ==
  ASSUME BuildInv, NEW k \in 0..4, at[Nth[k + 1]] = 0, Built(Layout, boot, k)
  PROVE  Built(Layout, Section(boot, Nth[k + 1], PageSize), k + 1)
<1> DEFINE input == Nth[k + 1]
           f == cmd.file[input]
<1>1. /\ IsLayout(Layout) /\ Layout.page = PageSize
      /\ cmd.file \in [Input -> {Absent} \cup Seq(Cell)]
      /\ Layout.part[k + 1] = Given(input)
  <2>1. k + 1 \in 1..5
    OBVIOUS
  <2> QED
    BY <2>1, Command DEF IsLayout
<1>2. input \in Input
  <2>1. k + 1 \in 1..5
    OBVIOUS
  <2> QED
    BY <2>1, NthNames
<1>3. CASE f = Absent
  <2>1. Section(boot, input, PageSize) = boot /\ Layout.part[k + 1] = << >>
    BY <1>1, <1>3 DEF Section, Given
  <2> QED
    BY <1>1, <2>1, NothingBuilt
<1>4. CASE f # Absent
  <2>1. f \in Seq(Cell) /\ Layout.part[k + 1] = f
    BY <1>1, <1>2, <1>4 DEF Given
  <2>2. SubSeq(f, at[input] + 1, Len(f)) = f
    <3>1. at[input] + 1 = 1
      OBVIOUS
    <3> HIDE DEF f
    <3> QED
      BY <2>1, <3>1, SubSeqFull
  <2>3. Section(boot, input, PageSize) = Padded(boot \o Layout.part[k + 1], Layout.page)
    BY <1>1, <1>4, <2>1, <2>2 DEF Section
  <2> QED
    BY <1>1, <2>3, SectionBuilt
<1> QED
  BY <1>3, <1>4

LEMMA SectionStep ==
  ASSUME BuildInv, Write, WriteSection, cmd.output
  PROVE  (WritesLeft /\ Progress /\ Unread)'
<1>1. /\ pc = "write" /\ todo # << >> /\ cmd' = cmd /\ todo' = Tail(todo)
      /\ Head(todo) \in SectionName
      /\ boot' = Section(boot, Head(todo), PageSize) /\ at' = Consumed(Head(todo))
  BY DEF Write, WriteSection, SectionName
<1>2. Progress /\ Unread /\ DOMAIN at = Input /\ Sections \in 3..5
  BY <1>1, Command DEF BuildInv
<1>3. Written \in 0..(Sections - 1) /\ Head(todo) = Nth[Written + 1]
  <2>1. Head(todo) # "header" /\ Head(todo) \notin VendorName /\ Head(todo) # "signature"
    BY <1>1 DEF VendorName, SectionName
  <2>2. /\ Written \in Int
        /\ Written < -1 => Head(todo) \in VendorName
        /\ Written = -1 => Head(todo) = "header"
        /\ Written \in 0..(Sections - 1) => Head(todo) = Nth[Written + 1]
        /\ Written >= Sections => Head(todo) = "signature"
    BY <1>1, NextWrite
  <2> QED
    BY <1>2, <2>1, <2>2
<1>4. /\ WritesLeft' /\ Written' = Written + 1 /\ Sections' = Sections /\ Layout' = Layout
      /\ HeaderRefused' = HeaderRefused
  BY <1>1, NextIsWritten, CommandStays
<1>5. ~HeaderRefused /\ Built(Layout, boot, Written)
  BY <1>2, <1>3 DEF Progress
<1>6. Built(Layout, boot', Written + 1)
  <2>1. Written \in 0..4 /\ Written + 1 \in 1..Sections
    BY <1>2, <1>3
  <2>2. at[Nth[Written + 1]] = 0
    BY <1>2, <2>1 DEF Unread
  <2> DEFINE k == Written
  <2>3. k \in 0..4 /\ at[Nth[k + 1]] = 0 /\ Built(Layout, boot, k)
        /\ boot' = Section(boot, Nth[k + 1], PageSize)
    BY <1>1, <1>3, <1>5, <2>1, <2>2
  <2> HIDE DEF k
  <2>4. Built(Layout, boot', k + 1)
    BY <2>3, SectionIs
  <2> QED
    BY <2>4 DEF k
<1>7. Written' \in 1..Sections
  BY <1>2, <1>3, <1>4
<1>8. Progress'
  BY <1>2, <1>4, <1>5, <1>6, <1>7 DEF Progress
<1>9. Unread'
  <2>1. ASSUME NEW k \in 1..Sections, k > Written + 1 PROVE at'[Nth[k]] = 0
    <3>1. k \in 1..5 /\ Written + 1 \in 1..5 /\ k # Written + 1 /\ k > Written
      BY <1>2, <1>3, <2>1
    <3>2. Nth[k] # Nth[Written + 1] /\ Nth[k] \in Input
      BY <3>1, NthNames
    <3>3. at'[Nth[k]] = at[Nth[k]]
      BY <1>1, <1>2, <1>3, <3>2 DEF Consumed
    <3> QED
      BY <1>2, <3>1, <3>3 DEF Unread
  <2>2. Nth' = Nth
    BY DEF Nth
  <2> QED
    BY <1>4, <2>1, <2>2 DEF Unread
<1> QED
  BY <1>4, <1>8, <1>9

LEMMA SignatureStep ==
  ASSUME BuildInv, Write, WriteSignature, cmd.output, pc' = "write"
  PROVE  (WritesLeft /\ Progress /\ Unread)'
<1>1. /\ pc = "write" /\ todo # << >> /\ cmd' = cmd /\ todo' = Tail(todo)
      /\ Head(todo) = "signature" /\ at' = at
      /\ boot' = Padded(boot \o << << "vbmeta", "boot", boot >> >>
                             \o Pads(SignatureSize - 1), PageSize)
  BY DEF Write, WriteSignature
<1>2. Progress /\ Unread /\ Sections \in 3..5
  BY <1>1, Command DEF BuildInv
<1>3. Written = Sections
  <2>1. Head(todo) # "header" /\ Head(todo) \notin VendorName /\ Head(todo) \notin SectionName
    BY <1>1 DEF VendorName, SectionName
  <2>2. /\ Written \in Int
        /\ Written < -1 => Head(todo) \in VendorName
        /\ Written = -1 => Head(todo) = "header"
        /\ Written \in 0..(Sections - 1) => Head(todo) = Nth[Written + 1]
        /\ Written >= Sections => Written = Sections
    BY <1>1, NextWrite
  <2>3. Written \notin 0..(Sections - 1)
    <3>1. SUFFICES ASSUME Written \in 0..(Sections - 1) PROVE FALSE
      OBVIOUS
    <3>2. Written + 1 \in 1..5
      BY <1>2, <3>1
    <3> QED
      BY <2>1, <2>2, <3>1, <3>2, NthNames
  <2> QED
    BY <1>2, <2>1, <2>2, <2>3
<1>4. /\ WritesLeft' /\ Written' = Sections + 1 /\ Sections' = Sections /\ Layout' = Layout
      /\ HeaderRefused' = HeaderRefused
  BY <1>1, <1>3, NextIsWritten, CommandStays
<1>5. ~HeaderRefused /\ Built(Layout, boot, Sections)
  BY <1>2, <1>3 DEF Progress
<1>6. boot \in Seq(BootCell(Layout)) /\ boot' = SignedFrom(Layout, boot)
  BY <1>1, <1>5, Command DEF Built, SignedFrom
<1>7. \E b \in Seq(BootCell(Layout)) : Built(Layout, b, Sections) /\ boot' = SignedFrom(Layout, b)
  BY <1>5, <1>6
<1>8. Progress'
  BY <1>2, <1>4, <1>5, <1>7 DEF Progress
<1>9. Unread'
  BY <1>2, <1>4 DEF Unread
<1> QED
  BY <1>4, <1>8, <1>9

(* Each step keeps the invariant.                                          *)
LEMMA BuildStep ==
  ASSUME BuildInv, [BuildNext]_build
  PROVE  BuildInv'
<1>1. /\ cmd' = cmd /\ cmd' \in BuildCommand /\ DOMAIN at' = Input
      /\ pc' \in {"parse", "write", "done", "failed"}
      /\ pc' = "parse" => at' = [i \in Input |-> 0]
      /\ pc' = "done" => todo' = << >>
  BY ControlStep
<1>2. SUFFICES ASSUME cmd.output, pc' \in {"write", "done"}
               PROVE  (Parsed(cmd) /\ WritesLeft /\ Progress /\ Unread)'
  BY <1>1 DEF BuildInv
<1>3. ASSUME UNCHANGED << cmd, at, todo, boot >>, pc \in {"write", "done"}
      PROVE  (Parsed(cmd) /\ WritesLeft /\ Progress /\ Unread)'
  <2>1. Parsed(cmd) /\ WritesLeft /\ Progress /\ Unread
    BY <1>2, <1>3 DEF BuildInv
  <2>2. cmd' = cmd /\ at' = at /\ todo' = todo /\ boot' = boot
    BY <1>3
  <2>3. Layout' = Layout /\ Sections' = Sections /\ HeaderRefused' = HeaderRefused
    BY <2>2, CommandStays
  <2>4. Writes' = Writes /\ Written' = Written
    BY <2>2 DEF Writes, Written
  <2>5. WritesLeft'
    BY <2>1, <2>2, <2>4 DEF WritesLeft
  <2>6. Progress'
    BY <2>1, <2>2, <2>3, <2>4 DEF Progress
  <2>7. Unread'
    BY <2>1, <2>2, <2>3, <2>4 DEF Unread, Nth
  <2> QED
    BY <2>1, <2>2, <2>5, <2>6, <2>7
<1>4. CASE UNCHANGED build
  BY <1>2, <1>4, <1>3 DEF build
<1>5. CASE Start
  BY <1>2, <1>5, StartWrites DEF Start
<1>6. CASE Finish
  BY <1>2, <1>6, <1>3 DEF Finish
<1>7. CASE Write
  <2>1. pc = "write" /\ todo # << >>
    BY <1>7 DEF Write
  <2>2. Parsed(cmd)'
    BY <1>1, <1>2, <2>1 DEF BuildInv
  <2>3. pc' = "write"
    BY <1>2, <1>7, <2>1 DEF Write, WriteHeader, WriteSection, WriteSignature, WriteVendor
  <2>4. CASE WriteHeader
    BY <1>2, <1>7, <2>2, <2>3, <2>4, HeaderStep
  <2>5. CASE WriteSection
    BY <1>2, <1>7, <2>2, <2>5, SectionStep
  <2>6. CASE WriteSignature
    BY <1>2, <1>7, <2>2, <2>3, <2>6, SignatureStep
  <2>7. CASE WriteVendor
    <3>1. todo' = Tail(todo)
      BY <2>7 DEF WriteVendor
    <3>2. WritesLeft'
      BY <1>1, <1>2, <2>1, <3>1, NextIsWritten
    <3> QED
      BY <1>2, <1>7, <2>2, <2>7, <3>2, VendorStep
  <2> QED
    BY <1>7, <2>4, <2>5, <2>6, <2>7 DEF Write
<1> QED
  BY <1>4, <1>5, <1>6, <1>7 DEF BuildNext

LEMMA BuildInvHolds == BuildSpec => []BuildInv
<1>1. BuildInit => BuildInv
  BY DEF BuildInit, BuildInv
<1>2. BuildInv /\ [BuildNext]_build => BuildInv'
  BY BuildStep
<1> QED
  BY <1>1, <1>2, PTL DEF BuildSpec

-----------------------------------------------------------------------------
(* A finished boot image.                                                  *)

(* The signature is one more page behind the sections.                     *)
SignedImage(l, k, b, s) ==
  /\ s \in Seq(BootCell(l) \cup {<< "vbmeta", "boot", b >>})
  /\ Len(s) = l.page * (FirstPage(l, k + 1) + 1)
  /\ \A i \in 1..Len(b) : s[i] = b[i]
  /\ s[Len(b) + 1] = << "vbmeta", "boot", b >>
  /\ \A i \in (Len(b) + 2)..Len(s) : s[i] = Pad
  /\ s[1] = l.header
  /\ \A j \in 1..k : SectionOf(l, s, j) = l.part[j]

LEMMA SignedIs ==
  ASSUME NEW l, IsLayout(l), SignatureSize <= l.page, NEW k \in 3..5, NEW b, Built(l, b, k)
  PROVE  SignedImage(l, k, b, SignedFrom(l, b))
<1> DEFINE c == << "vbmeta", "boot", b >>
           S == BootCell(l) \cup {c}
           p == Pads(SignatureSize - 1)
           d == << c >> \o p
           P == l.page
           q == FirstPage(l, k + 1)
           s == SignedFrom(l, b)
<1>1. /\ P \in Nat \ {0} /\ SignatureSize \in 1..P /\ q \in Nat \ {0}
      /\ b \in Seq(BootCell(l)) /\ Len(b) = P * q
  <2>1. k + 1 \in 1..6
    OBVIOUS
  <2>2. q \in Nat \ {0}
    BY <2>1, Places
  <2>3. P \in Nat \ {0} /\ SignatureSize \in Nat \ {0}
    BY SizesAre DEF IsLayout
  <2> QED
    BY <2>2, <2>3 DEF Built
<1>2. Pad \in S /\ c \in S /\ b \in Seq(S)
  <2>1. Pad \in S /\ c \in S /\ BootCell(l) \subseteq S
    BY DEF BootCell
  <2> HIDE DEF S
  <2> QED
    BY <1>1, <2>1, SeqMonotonic
<1> HIDE DEF c, S
<1>3. p \in Seq(S) /\ Len(p) = SignatureSize - 1 /\ \A i \in 1..(SignatureSize - 1) : p[i] = Pad
  <2> DEFINE n == SignatureSize - 1
  <2>1. n \in Nat
    BY <1>1
  <2> HIDE DEF n
  <2>2. /\ Pads(n) \in Seq(S) /\ Len(Pads(n)) = n
        /\ \A i \in 1..n : Pads(n)[i] = Pad
    BY <1>2, <2>1, PadsAre
  <2> QED
    BY <2>2 DEF n
<1>4. << c >> \in Seq(S) /\ Len(<< c >>) = 1
  BY <1>2
<1>5. s = Padded((b \o << c >>) \o p, P)
  BY DEF SignedFrom, c
<1> HIDE DEF p
<1>6. (b \o << c >>) \o p = b \o d
  BY <1>2, <1>3, <1>4, ConcatAssociative
<1>7. /\ d \in Seq(S) /\ Len(d) = SignatureSize
      /\ d[1] = c /\ \A i \in 2..SignatureSize : d[i] = Pad
  <2> DEFINE e == << c >>
  <2>1. e \in Seq(S) /\ Len(e) = 1 /\ e[1] = c
    BY <1>4
  <2> HIDE DEF e
  <2>2. /\ e \o p \in Seq(S) /\ Len(e \o p) = Len(e) + Len(p)
        /\ \A i \in 1..(Len(e) + Len(p)) : (e \o p)[i] = IF i <= Len(e) THEN e[i] ELSE p[i - Len(e)]
    BY <1>3, <2>1, ConcatProperties
  <2>3. /\ e \o p \in Seq(S) /\ Len(e \o p) = SignatureSize
        /\ (e \o p)[1] = c /\ \A i \in 2..SignatureSize : (e \o p)[i] = Pad
    BY <1>1, <1>3, <2>1, <2>2
  <2> QED
    BY <2>3 DEF e
<1> HIDE DEF d, P, q
<1>8. Appended(S, b, d, P, q, Padded(b \o d, P))
  BY <1>1, <1>2, <1>7, AppendSection, Zenon
<1>9. /\ s \in Seq(S) /\ Len(s) = P * (q + Pages(SignatureSize, P))
      /\ Len(b) + SignatureSize <= Len(s)
      /\ \A i \in 1..Len(b) : s[i] = b[i]
      /\ \A i \in 1..SignatureSize : s[Len(b) + i] = d[i]
  BY <1>5, <1>6, <1>7, <1>8 DEF Appended
<1>10. Pages(SignatureSize, P) = 1
  <2> DEFINE r == SignatureSize - 1
  <2>1. P * 1 + r = SignatureSize + P - 1 /\ r \in 0..(P - 1) /\ 1 \in Int
    BY <1>1
  <2> HIDE DEF r
  <2>2. (P * 1 + r) \div P = 1
    BY <1>1, <2>1, Quotient
  <2> QED
    BY <2>1, <2>2 DEF Pages
<1>11. Len(b) \in Nat
  BY <1>1
<1>12. s[Len(b) + 1] = c
  BY <1>1, <1>7, <1>9
<1>13. \A i \in (Len(b) + 2)..Len(s) : s[i] = Pad
  <2> DEFINE f == b \o d
  <2>1. f \in Seq(S) /\ Len(f) = Len(b) + SignatureSize
    BY <1>2, <1>7, ConcatProperties
  <2>2. s = Padded(f, P)
    BY <1>5, <1>6
  <2> HIDE DEF f, s
  <2>3. /\ Len(f) <= Len(s)
        /\ \A i \in (Len(f) + 1)..Len(s) : s[i] = Pad
    BY <1>1, <1>2, <2>1, <2>2, PaddedIs
  <2> TAKE i \in (Len(b) + 2)..Len(s)
  <2>4. CASE i <= Len(b) + SignatureSize
    <3>1. i - Len(b) \in 2..SignatureSize /\ i - Len(b) \in 1..SignatureSize
          /\ Len(b) + (i - Len(b)) = i
      BY <1>1, <1>11, <2>4
    <3> QED
      BY <3>1, <1>7, <1>9
  <2>5. CASE i > Len(b) + SignatureSize
    BY <1>1, <1>9, <1>11, <2>1, <2>3, <2>5
  <2> QED
    BY <1>1, <1>11, <2>4, <2>5
<1>14. Len(b) <= Len(s)
  BY <1>1, <1>9, <1>11
<1>15. s[1] = l.header /\ \A j \in 1..k : SectionOf(l, s, j) = l.part[j]
  <2> HIDE DEF s
  <2>1. k \in 0..5
    OBVIOUS
  <2> QED
    BY <1>9, <1>14, <2>1, SectionsStay
<1> QED
  BY <1>9, <1>10, <1>12, <1>13, <1>15 DEF S, c, P, q, SignedImage

LEMMA FinishedIs ==
  ASSUME BuildInv, pc = "done", cmd.output
  PROVE  /\ ~HeaderRefused
         /\ WithSignature => \E b \in Seq(BootCell(Layout)) :
              Built(Layout, b, Sections) /\ boot = SignedFrom(Layout, b)
         /\ ~WithSignature => Built(Layout, boot, Sections)
<1>1. Parsed(cmd) /\ Progress /\ todo = << >>
  BY DEF BuildInv
<1>2. Sections \in 3..5
  BY Command
<1>3. Written = Sections + (IF WithSignature THEN 1 ELSE 0)
  <2>1. Len(BootWrites(cmd)) = 1 + Sections + (IF WithSignature THEN 1 ELSE 0)
    BY <1>1, WritesAre
  <2>2. Len(todo) = 0
    BY <1>1
  <2> QED
    BY <1>2, <2>1, <2>2 DEF Written
<1> QED
  BY <1>1, <1>2, <1>3 DEF Progress

LEMMA FinishedSections ==
  ASSUME BuildInv, pc = "done", cmd.output
  PROVE  /\ IsLayout(Layout) /\ Sections \in 3..5
         /\ boot[1] = << "header", Header >>
         /\ Len(boot) = PageSize * (FirstPage(Layout, Sections + 1)
                                      + (IF WithSignature THEN 1 ELSE 0))
         /\ \A j \in 1..Sections : SectionOf(Layout, boot, j) = Given(Nth[j])
<1>1. /\ IsLayout(Layout) /\ Layout.page = PageSize /\ Layout.header = << "header", Header >>
      /\ Sections \in 3..5 /\ \A k \in 1..5 : Layout.part[k] = Given(Nth[k])
  BY Command DEF IsLayout
<1>2. FirstPage(Layout, Sections + 1) \in Nat
  <2>1. Sections + 1 \in 1..6
    BY <1>1
  <2> QED
    BY <1>1, <2>1, Places
<1>3. CASE WithSignature
  <2>1. PICK b \in Seq(BootCell(Layout)) : Built(Layout, b, Sections) /\ boot = SignedFrom(Layout, b)
    BY <1>3, FinishedIs
  <2>2. SignatureSize <= Layout.page
    BY <1>1, <1>3, Command, SizesAre DEF WithSignature, PageSize
  <2>3. /\ Len(boot) = Layout.page * (FirstPage(Layout, Sections + 1) + 1)
        /\ boot[1] = Layout.header
        /\ \A j \in 1..Sections : SectionOf(Layout, boot, j) = Layout.part[j]
    <3>1. SignedImage(Layout, Sections, b, SignedFrom(Layout, b))
      BY <1>1, <2>1, <2>2, SignedIs, Zenon
    <3> QED
      BY <2>1, <3>1 DEF SignedImage
  <2> QED
    BY <1>1, <1>3, <2>3
<1>4. CASE ~WithSignature
  <2>1. Built(Layout, boot, Sections)
    BY <1>4, FinishedIs
  <2> QED
    BY <1>1, <1>2, <1>4, <2>1 DEF Built
<1> QED
  BY <1>3, <1>4

(* What a loader reads where a section is.                                 *)
LoadsAt(b, offset, n, d) ==
  /\ offset \in Nat /\ n \in Nat /\ offset + n <= Len(b)
  /\ SubSeq(b, offset + 1, offset + n) = d
  /\ ReadAt(b, offset, n) = d

LEMMA SectionPlace ==
  ASSUME BuildInv, pc = "done", cmd.output, NEW j \in 1..Sections, NEW n, NEW offset,
         n = Len(Given(Nth[j])), offset = PageSize * FirstPage(Layout, j)
  PROVE  LoadsAt(boot, offset, n, Given(Nth[j]))
<1>1. /\ IsLayout(Layout) /\ Sections \in 3..5
      /\ Len(boot) = PageSize * (FirstPage(Layout, Sections + 1)
                                   + (IF WithSignature THEN 1 ELSE 0))
      /\ SectionOf(Layout, boot, j) = Given(Nth[j])
  BY FinishedSections
<1>2. /\ Layout.page = PageSize /\ PageSize \in Nat \ {0}
      /\ \A k \in 1..5 : Layout.part[k] = Given(Nth[k])
  BY Command
<1> DEFINE P == PageSize
           q == FirstPage(Layout, j)
           w == PagesOf(Layout, j)
           z == FirstPage(Layout, Sections + 1)
           e == IF WithSignature THEN 1 ELSE 0
<1>3. /\ q \in Nat /\ w \in Nat /\ z \in Nat /\ n \in Nat /\ n <= P * w /\ q + w <= z
  <2>1. j \in 1..5 /\ j \in 1..6 /\ Sections + 1 \in 1..6 /\ j < Sections + 1
    BY <1>1
  <2>2. q + w <= z
    BY <1>1, <2>1, PlacesInOrder
  <2>3. q \in Nat /\ w \in Nat /\ Len(Layout.part[j]) \in Nat
        /\ Len(Layout.part[j]) <= Layout.page * PagesOf(Layout, j)
    BY <1>1, <2>1, Places
  <2>4. z \in Nat
    BY <1>1, <2>1, Places
  <2> QED
    BY <1>2, <2>1, <2>2, <2>3, <2>4
<1>4. SectionOf(Layout, boot, j) = SubSeq(boot, offset + 1, offset + n)
  <2>1. j \in 1..5
    BY <1>1
  <2> QED
    BY <1>2, <2>1 DEF SectionOf
<1>5. P \in Nat \ {0} /\ e \in 0..1 /\ Len(boot) = P * (z + e) /\ offset = P * q
  BY <1>1, <1>2
<1> HIDE DEF P, q, w, z, e
<1>6. offset + n <= Len(boot) /\ offset + n \in Nat
  <2>1. P * (q + w) <= P * (z + e) /\ P * (q + w) = P * q + P * w /\ P * q \in Nat
    BY <1>3, <1>5
  <2> QED
    BY <1>3, <1>5, <2>1
<1>8. offset \in Nat
  BY <1>3, <1>5
<1>7. (IF offset + n < Len(boot) THEN offset + n ELSE Len(boot)) = offset + n
  BY <1>5, <1>6
<1> QED
  BY <1>1, <1>3, <1>4, <1>6, <1>7, <1>8 DEF ReadAt, LoadsAt

LEMMA LoadsSection ==
  ASSUME BuildInv, pc = "done", cmd.output, NEW j \in 1..Sections, NEW n, NEW offset,
         n = Len(Given(Nth[j])), offset = PageSize * FirstPage(Layout, j)
  PROVE  ReadAt(boot, offset, n) = Given(Nth[j])
<1>1. LoadsAt(boot, offset, n, Given(Nth[j]))
  BY SectionPlace, Zenon
<1> QED
  BY <1>1 DEF LoadsAt

(* The header names the sizes of the sections a version has; the loader's  *)
(* sums are the places they were put at.                                   *)
LEMMA LoaderFinds == BuildInv => LoaderFindsSections
<1> SUFFICES ASSUME BuildInv, pc = "done", cmd.output
             PROVE  LET l == Load(boot) IN
                    /\ l.kernel = Given("kernel") /\ l.ramdisk = Given("ramdisk")
                    /\ cmd.version < 3 => l.second = Given("second")
                    /\ cmd.version \in {1, 2} => l.recovery_dtbo = Given("recovery_dtbo")
                    /\ cmd.version = 2 => l.dtb = Given("dtb")
                    /\ Len(boot) % PageSize = 0
  BY DEF LoaderFindsSections
<1> DEFINE g(i) == Given(i)
           n(i) == Len(Given(i))
           p(i) == Pages(n(i), PageSize)
           h == boot[1][2]
<1>1. /\ IsLayout(Layout) /\ Sections \in 3..5 /\ boot[1] = << "header", Header >>
      /\ Len(boot) = PageSize * (FirstPage(Layout, Sections + 1)
                                   + (IF WithSignature THEN 1 ELSE 0))
  BY FinishedSections
<1>2. /\ cmd.version \in Int /\ PageSize \in Nat \ {0}
      /\ Layout.page = PageSize
      /\ \A k \in 1..5 : Layout.part[k] = Given(Nth[k])
  BY Command
<1>3. ~HeaderRefused
  BY FinishedIs
<1>4. \A i \in Input : FileSize(cmd.file[i]) = n(i)
  BY DEF FileSize, Given
<1>5. /\ h = Header /\ h.page = PageSize
      /\ h.kernel = n("kernel") /\ h.ramdisk = n("ramdisk")
      /\ cmd.version < 3 => h.second = n("second")
      /\ cmd.version \in {1, 2} => h.recovery_dtbo = n("recovery_dtbo")
      /\ cmd.version = 2 => h.dtb = n("dtb")
  <2>1. h = Header
    BY <1>1
  <2>2. /\ FileSize(cmd.file["kernel"]) = n("kernel") /\ FileSize(cmd.file["ramdisk"]) = n("ramdisk")
        /\ FileSize(cmd.file["second"]) = n("second") /\ FileSize(cmd.file["dtb"]) = n("dtb")
        /\ FileSize(cmd.file["recovery_dtbo"]) = n("recovery_dtbo")
    BY <1>4 DEF Input
  <2> HIDE DEF n
  <2> QED
    BY <2>1, <2>2 DEF Header
<1>6. /\ PagesOf(Layout, 1) = p("kernel") /\ PagesOf(Layout, 2) = p("ramdisk")
      /\ PagesOf(Layout, 3) = p("second") /\ PagesOf(Layout, 4) = p("recovery_dtbo")
      /\ PagesOf(Layout, 1) \in Nat /\ PagesOf(Layout, 2) \in Nat
      /\ PagesOf(Layout, 3) \in Nat /\ PagesOf(Layout, 4) \in Nat
  <2>1. /\ Layout.part[1] = g("kernel") /\ Layout.part[2] = g("ramdisk")
        /\ Layout.part[3] = g("second") /\ Layout.part[4] = g("recovery_dtbo")
    BY <1>2, NthNames
  <2>2. /\ PagesOf(Layout, 1) \in Nat /\ PagesOf(Layout, 2) \in Nat
        /\ PagesOf(Layout, 3) \in Nat /\ PagesOf(Layout, 4) \in Nat
    BY <1>1, Places
  <2> QED
    BY <1>2, <2>1, <2>2 DEF PagesOf
<1>7. /\ FirstPage(Layout, 1) = 1
      /\ FirstPage(Layout, 2) = 1 + p("kernel")
      /\ FirstPage(Layout, 3) = 1 + p("kernel") + p("ramdisk")
      /\ FirstPage(Layout, 4) = 1 + p("kernel") + p("ramdisk") + p("second")
      /\ FirstPage(Layout, 5) = 1 + p("kernel") + p("ramdisk") + p("second") + p("recovery_dtbo")
  <2> HIDE DEF p
  <2> QED
    BY <1>6 DEF FirstPage, Layout
<1> HIDE DEF h
<1>8. LoadKernel(boot) = g("kernel")
  <2>1. PageSize * 1 = PageSize
    BY <1>2
  <2>2. ReadAt(boot, PageSize, n("kernel")) = Given(Nth[1])
    BY <1>1, <1>7, <2>1, LoadsSection, NthNames
  <2> QED
    BY <1>5, <2>2, NthNames DEF LoadKernel, h
<1> DEFINE l == Load(boot)
<1>9. /\ l.kernel = LoadKernel(boot)
      /\ l.ramdisk = ReadAt(boot, h.page * (1 + Pages(h.kernel, h.page)), h.ramdisk)
      /\ l.second = ReadAt(boot, h.page * (1 + Pages(h.kernel, h.page) + Pages(h.ramdisk, h.page)),
                           h.second)
      /\ l.recovery_dtbo = ReadAt(boot, h.recovery_offset, h.recovery_dtbo)
      /\ l.dtb = ReadAt(boot, h.page * (1 + Pages(h.kernel, h.page) + Pages(h.ramdisk, h.page)
                                          + Pages(h.second, h.page)
                                          + Pages(h.recovery_dtbo, h.page)), h.dtb)
  BY DEF Load, h
<1> HIDE DEF l
<1>10. l.ramdisk = g("ramdisk")
  <2>1. ReadAt(boot, PageSize * (1 + p("kernel")), n("ramdisk")) = Given(Nth[2])
    BY <1>1, <1>7, LoadsSection, NthNames
  <2> QED
    BY <1>5, <1>9, <2>1, NthNames
<1>11. ASSUME cmd.version < 3 PROVE l.second = g("second")
  <2>1. ReadAt(boot, PageSize * (1 + p("kernel") + p("ramdisk")), n("second")) = Given(Nth[3])
    BY <1>1, <1>7, LoadsSection, NthNames
  <2> QED
    BY <1>5, <1>9, <1>11, <2>1, NthNames
<1>12. ASSUME cmd.version \in {1, 2} PROVE l.recovery_dtbo = g("recovery_dtbo")
  <2>1. Sections >= 4 /\ PageSize = cmd.pagesize
    BY <1>12 DEF Sections, PageSize
  <2>2. CASE cmd.file["recovery_dtbo"] = Absent
    <3>1. g("recovery_dtbo") = << >> /\ h.recovery_offset = 0 /\ h.recovery_dtbo = 0
      BY <1>5, <1>12, <2>2 DEF Given, Header
    <3>2. (IF 0 + 0 < Len(boot) THEN 0 + 0 ELSE Len(boot)) = 0
      <4>1. Len(boot) \in Nat
        <5> DEFINE z == FirstPage(Layout, Sections + 1)
                   e == IF WithSignature THEN 1 ELSE 0
        <5>1. z \in Nat /\ e \in Nat
          <6>1. Sections + 1 \in 1..6
            BY <1>1
          <6> QED
            BY <1>1, <6>1, Places
        <5> HIDE DEF z, e
        <5>2. PageSize * (z + e) \in Nat
          BY <1>2, <5>1
        <5> QED
          BY <1>1, <5>2 DEF z, e
      <4> QED
        BY <4>1
    <3>3. ReadAt(boot, 0, 0) = << >>
      BY <3>2, SubSeqEmpty DEF ReadAt
    <3> QED
      BY <1>9, <3>1, <3>3
  <2>3. CASE cmd.file["recovery_dtbo"] # Absent
    <3>1. h.recovery_offset = RecoveryDtboOffset
      BY <1>5, <1>12, <2>3 DEF Header
    <3>2. RecoveryDtboOffset = PageSize * (1 + p("kernel") + p("ramdisk") + p("second"))
      BY <1>4, <2>1 DEF RecoveryDtboOffset, Input
    <3>3. ReadAt(boot, PageSize * (1 + p("kernel") + p("ramdisk") + p("second")),
                 n("recovery_dtbo")) = Given(Nth[4])
      BY <1>1, <1>7, <2>1, LoadsSection, NthNames
    <3> QED
      BY <1>5, <1>9, <1>12, <3>1, <3>2, <3>3, NthNames
  <2> QED
    BY <2>2, <2>3
<1>13. ASSUME cmd.version = 2 PROVE l.dtb = g("dtb")
  <2>1. Sections = 5
    BY <1>13 DEF Sections
  <2>2. ReadAt(boot, PageSize * (1 + p("kernel") + p("ramdisk") + p("second")
                                   + p("recovery_dtbo")), n("dtb")) = Given(Nth[5])
    BY <1>1, <1>7, <2>1, LoadsSection, NthNames
  <2> QED
    BY <1>5, <1>9, <1>13, <2>2, NthNames
<1>14. Len(boot) % PageSize = 0
  <2> DEFINE z == FirstPage(Layout, Sections + 1)
             e == IF WithSignature THEN 1 ELSE 0
             w == z + e
  <2>1. z \in Nat /\ e \in Nat
    <3>1. Sections + 1 \in 1..6
      BY <1>1
    <3> QED
      BY <1>1, <3>1, Places
  <2>2. Len(boot) = PageSize * w + 0
    BY <1>1, <1>2, <2>1
  <2>3. w \in Int /\ 0 \in 0..(PageSize - 1)
    BY <1>2, <2>1
  <2> HIDE DEF w
  <2> QED
    BY <1>2, <2>2, <2>3, Quotient
<1> QED
  BY <1>8, <1>9, <1>10, <1>11, <1>12, <1>13, <1>14 DEF l

(* Two adjacent pieces are the whole; the second is what does not fit the  *)
(* first field and fits the other because CmdlineFits was checked.         *)
LEMMA SplitWhole ==
  ASSUME NEW c, c.version \in Int, c.cmdline \in Seq(Nat), CmdlineFits(c)
  PROVE  LET parts == SplitCmdline(c) IN
         /\ parts[1] \o parts[2] = c.cmdline
         /\ c.version < 3 => /\ Len(parts[1]) < ArgsSize
                             /\ parts[2] # << >> => Len(parts[2]) < ExtraArgsSize
<1> DEFINE s == c.cmdline
           m == Len(s)
           n == IF m < ArgsSize - 1 THEN m ELSE ArgsSize - 1
           x == SubSeq(s, 1, n)
           y == SubSeq(s, n + 1, m)
<1>1. ArgsSize \in Nat \ {0} /\ ExtraArgsSize \in Nat \ {0}
  BY BootImageAssumption
<1>2. s \in Seq(Nat) /\ m \in Nat
  OBVIOUS
<1>3. CASE c.version < 3
  <2>1. m + 1 <= ArgsSize + ExtraArgsSize - 1
    BY <1>3 DEF CmdlineFits
  <2>2. SplitCmdline(c) = << x, y >>
    BY <1>3 DEF SplitCmdline
  <2> HIDE DEF s
  <2>3. n \in 0..m /\ n < ArgsSize /\ (n < m => n = ArgsSize - 1)
    BY <1>1, <1>2
  <2> HIDE DEF n
  <2>4. x \in Seq(Nat) /\ Len(x) = n /\ y \in Seq(Nat) /\ Len(y) = m - n
    BY <1>2, <2>3, SMTT(30)
  <2>5. x \o y = s
    <3>1. 1 \in 1..(Len(s) + 1) /\ n \in (1 - 1)..Len(s) /\ m \in n..Len(s)
      BY <1>2, <2>3
    <3>2. SubSeq(s, 1, n) \o SubSeq(s, n + 1, m) = SubSeq(s, 1, m)
      BY <1>2, <3>1, ConcatAdjacentSubSeq
    <3> QED
      BY <1>2, <3>2, SubSeqFull
  <2> HIDE DEF x, y, m
  <2>6. y # << >> => Len(y) < ExtraArgsSize
    <3>1. SUFFICES ASSUME y # << >> PROVE Len(y) < ExtraArgsSize
      OBVIOUS
    <3>2. Len(y) # 0
      BY <2>4, <3>1, EmptySeq
    <3> QED
      BY <1>1, <1>2, <2>1, <2>3, <2>4, <3>2
  <2> QED
    BY <1>3, <2>2, <2>3, <2>4, <2>5, <2>6 DEF s
<1>4. CASE ~(c.version < 3)
  <2>1. SplitCmdline(c) = << s, << >> >>
    BY <1>4 DEF SplitCmdline
  <2>2. s \o << >> = s
    BY <1>2, ConcatEmptySeq
  <2> QED
    BY <1>4, <2>1, <2>2
<1> QED
  BY <1>3, <1>4

LEMMA CmdlineIsWhole == BuildInv => CmdlineWhole
<1> SUFFICES ASSUME BuildInv, pc = "done", cmd.output
             PROVE  LET parts == boot[1][2].cmdline IN
                    /\ parts[1] \o parts[2] = cmd.cmdline
                    /\ cmd.version < 3 => /\ Len(parts[1]) < ArgsSize
                                          /\ parts[2] # << >> => Len(parts[2]) < ExtraArgsSize
  BY DEF CmdlineWhole
<1>1. boot[1] = << "header", Header >>
  BY FinishedSections
<1>2. boot[1][2].cmdline = SplitCmdline(cmd)
  BY <1>1 DEF Header
<1>3. cmd.version \in Int /\ cmd.cmdline \in Seq(Nat) /\ CmdlineFits(cmd)
  BY Command DEF BuildInv, Parsed
<1> QED
  BY <1>2, <1>3, SplitWhole

-----------------------------------------------------------------------------
(* Induction, on the set T of the numbers that satisfy a fact.             *)

(* Every nonempty set of naturals has a least element.                     *)
LEMMA NatLeast ==
  ASSUME NEW T \in SUBSET Nat, T # {}
  PROVE  \E x \in T : \A y \in T : x <= y
<1>1. IsWellFoundedOn(OpToRel(<, Nat), Nat)
  BY NatLessThanWellFounded
<1>2. PICK x \in T : \A y \in T : ~(<< y, x >> \in OpToRel(<, Nat))
  BY <1>1, WFMin
<1>3. \A y \in T : ~(y < x)
  BY <1>2 DEF OpToRel
<1> QED
  BY <1>3

(* A set of naturals that has n when it has all below n has them all.      *)
LEMMA StrongInduction ==
  ASSUME NEW T, \A n \in Nat : (\A k \in Nat : k < n => k \in T) => n \in T
  PROVE  Nat \subseteq T
<1> DEFINE Bad == Nat \ T
<1>1. SUFFICES ASSUME Bad # {} PROVE FALSE
  OBVIOUS
<1>2. Bad \in SUBSET Nat
  OBVIOUS
<1>3. PICK x \in Bad : \A y \in Bad : x <= y
  <2> HIDE DEF Bad
  <2> QED
    BY <1>1, <1>2, NatLeast
<1>4. \A k \in Nat : k < x => k \in T
  BY <1>3
<1> QED
  BY <1>3, <1>4

(* One that has 0, and n + 1 when it has n, has them all.                  *)
LEMMA StepInduction ==
  ASSUME NEW T, 0 \in T, \A n \in Nat : n \in T => n + 1 \in T
  PROVE  Nat \subseteq T
<1>1. ASSUME NEW n \in Nat, \A k \in Nat : k < n => k \in T
      PROVE  n \in T
  <2>1. CASE n = 0
    BY <2>1
  <2>2. CASE n # 0
    <3>1. n - 1 \in Nat /\ n - 1 < n /\ (n - 1) + 1 = n
      BY <2>2
    <3> QED
      BY <1>1, <3>1
  <2> QED
    BY <2>1, <2>2
<1> QED
  BY <1>1, StrongInduction
(* The sum of the sizes of what is in a table, entry by entry.             *)

Sums(s, es, n) == \A k \in 0..n : s[k] = IF k = 0 THEN 0 ELSE s[k - 1] + Len(es[k].cells)

LEMMA SumsExist ==
  ASSUME NEW es
  PROVE  \A n \in Nat : \E s : Sums(s, es, n)
<1> DEFINE T == {n \in Nat : \E s : Sums(s, es, n)}
<1>1. 0 \in T
  <2>1. Sums([k \in {0} |-> 0], es, 0)
    BY DEF Sums
  <2> QED
    BY <2>1
<1>2. ASSUME NEW n \in Nat, n \in T
      PROVE  n + 1 \in T
  <2>1. PICK s : Sums(s, es, n)
    BY <1>2
  <2> DEFINE d == [k \in 0..(n + 1) |-> IF k = n + 1 THEN s[n] + Len(es[n + 1].cells) ELSE s[k]]
  <2>2. ASSUME NEW k \in 0..(n + 1)
        PROVE  d[k] = IF k = 0 THEN 0 ELSE d[k - 1] + Len(es[k].cells)
    <3>1. CASE k = n + 1
      <4>1. k # 0 /\ k - 1 = n /\ n \in 0..(n + 1) /\ n # n + 1
        BY <3>1
      <4>2. d[k] = s[n] + Len(es[k].cells) /\ d[n] = s[n]
        BY <3>1, <4>1
      <4> QED
        BY <4>1, <4>2
    <3>2. CASE k # n + 1
      <4>1. k \in 0..n /\ (k # 0 => k - 1 \in 0..(n + 1) /\ k - 1 # n + 1)
        BY <3>2
      <4>2. s[k] = IF k = 0 THEN 0 ELSE s[k - 1] + Len(es[k].cells)
        BY <2>1, <4>1 DEF Sums
      <4>3. d[k] = s[k] /\ (k # 0 => d[k - 1] = s[k - 1])
        BY <3>2, <4>1
      <4> QED
        BY <4>2, <4>3
    <3> QED
      BY <3>1, <3>2
  <2>3. Sums(d, es, n + 1)
    <3> HIDE DEF d
    <3> QED
      BY <2>2 DEF Sums
  <2> QED
    BY <2>3
<1>3. Nat \subseteq T
  <2> HIDE DEF T
  <2> QED
    BY <1>1, <1>2, StepInduction
<1> QED
  BY <1>3

LEMMA TotalDef ==
  ASSUME NEW es, Len(es) \in Nat
  PROVE  \E s : Sums(s, es, Len(es)) /\ TotalSize(es) = s[Len(es)]
<1> DEFINE n == Len(es)
           Is(s) == s = [k \in 0..n |-> IF k = 0 THEN 0 ELSE s[k - 1] + Len(es[k].cells)]
<1>1. PICK d : Sums(d, es, n)
  BY SumsExist
<1> DEFINE e == [k \in 0..n |-> d[k]]
<1>2. Is(e)
  <2>1. ASSUME NEW k \in 0..n
        PROVE  e[k] = IF k = 0 THEN 0 ELSE e[k - 1] + Len(es[k].cells)
    <3>1. d[k] = IF k = 0 THEN 0 ELSE d[k - 1] + Len(es[k].cells)
      BY <1>1 DEF Sums
    <3>2. k # 0 => k - 1 \in 0..n
      OBVIOUS
    <3>3. e[k] = d[k] /\ (k # 0 => e[k - 1] = d[k - 1])
      BY <3>2
    <3> QED
      BY <3>1, <3>3
  <2>2. e = [k \in 0..n |-> e[k]]
    OBVIOUS
  <2> HIDE DEF e, n
  <2> QED
    BY <2>1, <2>2 DEF n
<1>3. PICK c : c = (CHOOSE x : Is(x)) /\ Is(c)
  <2> HIDE DEF Is
  <2> QED
    BY <1>2
<1>4. TotalSize(es) = c[n]
  BY <1>3 DEF TotalSize
<1>5. Sums(c, es, n)
  BY <1>3 DEF Sums
<1> QED
  BY <1>4, <1>5

(* Sums depend on the sizes only.                                          *)
LEMMA SumsAgree ==
  ASSUME NEW es, NEW fs, NEW n, NEW s, NEW r, n \in Nat, Sums(s, es, n), Sums(r, fs, n),
         \A k \in 1..n : Len(es[k].cells) = Len(fs[k].cells)
  PROVE  s[n] = r[n]
<1> DEFINE T == {k \in Nat : k <= n => s[k] = r[k]}
<1>1. 0 \in T
  <2>1. 0 \in 0..n
    OBVIOUS
  <2> QED
    BY <2>1 DEF Sums
<1>2. ASSUME NEW k \in Nat, k \in T
      PROVE  k + 1 \in T
  <2> SUFFICES ASSUME k + 1 <= n PROVE s[k + 1] = r[k + 1]
    OBVIOUS
  <2>1. k + 1 \in 0..n /\ k + 1 # 0 /\ (k + 1) - 1 = k /\ k + 1 \in 1..n /\ k <= n
    OBVIOUS
  <2>2. s[k + 1] = s[k] + Len(es[k + 1].cells) /\ r[k + 1] = r[k] + Len(fs[k + 1].cells)
    BY <2>1 DEF Sums
  <2> QED
    BY <1>2, <2>1, <2>2
<1>3. Nat \subseteq T
  <2> HIDE DEF T
  <2> QED
    BY <1>1, <1>2, StepInduction
<1> QED
  BY <1>3

LEMMA SumsAre ==
  ASSUME NEW es, NEW n, NEW s, n \in Nat, Sums(s, es, n), \A k \in 1..n : Len(es[k].cells) \in Nat
  PROVE  /\ \A k \in 0..n : s[k] \in Nat
         /\ s[0] = 0 /\ \A k \in 1..n : s[k] = s[k - 1] + Len(es[k].cells)
<1> DEFINE T == {k \in Nat : k <= n => s[k] \in Nat}
<1>1. 0 \in T /\ s[0] = 0
  <2>1. 0 \in 0..n
    OBVIOUS
  <2> QED
    BY <2>1 DEF Sums
<1>2. \A k \in 1..n : s[k] = s[k - 1] + Len(es[k].cells)
  BY DEF Sums
<1>3. ASSUME NEW k \in Nat, k \in T
      PROVE  k + 1 \in T
  <2> SUFFICES ASSUME k + 1 <= n PROVE s[k + 1] \in Nat
    OBVIOUS
  <2>1. (k + 1) - 1 = k /\ k + 1 \in 1..n /\ k <= n
    OBVIOUS
  <2>2. s[k + 1] = s[k] + Len(es[k + 1].cells)
    BY <1>2, <2>1
  <2> QED
    BY <1>3, <2>1, <2>2
<1>4. Nat \subseteq T
  <2> HIDE DEF T
  <2> QED
    BY <1>1, <1>3, StepInduction
<1> QED
  BY <1>1, <1>2, <1>4

(* What comes before an entry and the entry are no more than all.          *)
LEMMA SumsGrow ==
  ASSUME NEW es, NEW n, NEW s, NEW i, n \in Nat, i \in 0..n, Sums(s, es, n),
         \A k \in 1..n : Len(es[k].cells) \in Nat
  PROVE  s[i] <= s[n]
<1>1. (\A k \in 0..n : s[k] \in Nat) /\ \A k \in 1..n : s[k] = s[k - 1] + Len(es[k].cells)
  BY SumsAre
<1> DEFINE T == {d \in Nat : i + d <= n => s[i] <= s[i + d]}
<1>2. 0 \in T
  <2>1. i + 0 = i /\ s[i] \in Nat
    BY <1>1
  <2> QED
    BY <2>1
<1>3. ASSUME NEW d \in Nat, d \in T
      PROVE  d + 1 \in T
  <2> SUFFICES ASSUME i + (d + 1) <= n PROVE s[i] <= s[i + (d + 1)]
    OBVIOUS
  <2> DEFINE m == i + d
  <2>1. m \in 0..n /\ i + (d + 1) = m + 1 /\ m + 1 \in 1..n /\ m + 1 \in 0..n /\ (m + 1) - 1 = m
    OBVIOUS
  <2>2. s[i] <= s[m]
    BY <1>3, <2>1
  <2> HIDE DEF m
  <2>3. s[m + 1] = s[m] + Len(es[m + 1].cells) /\ s[m] \in Nat /\ s[i] \in Nat
        /\ Len(es[m + 1].cells) \in Nat
    BY <1>1, <2>1
  <2> QED
    BY <2>1, <2>2, <2>3
<1>4. Nat \subseteq T
  <2> HIDE DEF T
  <2> QED
    BY <1>2, <1>3, StepInduction
<1>5. n - i \in T /\ i + (n - i) = n
  <2>1. n - i \in Nat
    OBVIOUS
  <2> HIDE DEF T
  <2> QED
    BY <1>4, <2>1
<1> QED
  BY <1>5

-----------------------------------------------------------------------------
(* The vendor ramdisk table: every entry is a fragment, at the sum of the  *)
(* sizes of those before it.                                               *)

(* The two names that the code gives are named here for the provers.       *)
Word == STRING \cup {"", "platform"}

Fragment == [name : Word, type : Word, cells : Seq(Cell)]

TableRow == [name : Word, type : Word, offset : Nat, cells : Seq(Cell)]

RowOf(f, offset) ==
  [name |-> f.name, type |-> f.type, offset |-> offset, cells |-> f.cells]

RowsOf(F, s, n) == [i \in 1..n |-> RowOf(F[i], s[i - 1])]

LEMMA FragmentsAre ==
  ASSUME NEW c \in BuildCommand
  PROVE  Fragments(c) \in Seq(Fragment)
<1> DEFINE d == IF c.vendor_ramdisk = Absent THEN << >>
                ELSE << [name |-> "", type |-> "platform", cells |-> c.vendor_ramdisk] >>
<1>1. c.vendor_ramdisk \in {Absent} \cup Seq(Cell) /\ c.fragments \in Seq(Fragment)
  <2> DEFINE G == [name : STRING, type : STRING, cells : Seq(Cell)]
  <2>1. c.vendor_ramdisk \in {Absent} \cup Seq(Cell) /\ c.fragments \in Seq(G)
    BY CommandAssumption
  <2>2. G \subseteq Fragment
    BY DEF Fragment, Word
  <2> HIDE DEF G
  <2> QED
    BY <2>1, <2>2, SeqMonotonic
<1>2. d \in Seq(Fragment)
  <2>1. CASE c.vendor_ramdisk = Absent
    BY <2>1
  <2>2. CASE c.vendor_ramdisk # Absent
    <3> DEFINE r == [name |-> "", type |-> "platform", cells |-> c.vendor_ramdisk]
    <3>1. r \in Fragment
      <4>1. c.vendor_ramdisk \in Seq(Cell) /\ "" \in Word /\ "platform" \in Word
        BY <1>1, <2>2 DEF Word
      <4> QED
        BY <4>1 DEF Fragment
    <3>2. d = << r >>
      BY <2>2
    <3> HIDE DEF r, d
    <3> QED
      BY <3>1, <3>2
  <2> QED
    BY <2>1, <2>2
<1> HIDE DEF d
<1>3. d \o c.fragments \in Seq(Fragment)
  BY <1>1, <1>2, ConcatProperties
<1> QED
  BY <1>3 DEF Fragments, d

LEMMA RowsAre ==
  ASSUME NEW F, NEW s, NEW n, F \in Seq(Fragment), n \in 0..Len(F), Sums(s, F, Len(F))
  PROVE  /\ RowsOf(F, s, n) \in Seq(TableRow) /\ Len(RowsOf(F, s, n)) = n
         /\ \A i \in 1..n : RowsOf(F, s, n)[i] = RowOf(F[i], s[i - 1])
<1>1. \A i \in 1..Len(F) : F[i] \in Fragment /\ Len(F[i].cells) \in Nat
  <2> TAKE i \in 1..Len(F)
  <2>1. F[i] \in Fragment
    OBVIOUS
  <2>2. F[i].cells \in Seq(Cell)
    BY <2>1 DEF Fragment
  <2> QED
    BY <2>1, <2>2
<1>2. \A k \in 0..Len(F) : s[k] \in Nat
  <2>1. Len(F) \in Nat
    OBVIOUS
  <2> QED
    BY <1>1, <2>1, SumsAre
<1>3. \A i \in 1..n : RowOf(F[i], s[i - 1]) \in TableRow
  <2> TAKE i \in 1..n
  <2>1. i \in 1..Len(F) /\ i - 1 \in 0..Len(F)
    OBVIOUS
  <2>2. F[i] \in Fragment /\ s[i - 1] \in Nat
    BY <1>1, <1>2, <2>1
  <2> QED
    BY <2>2 DEF RowOf, Fragment, TableRow
<1>4. n \in Nat
  OBVIOUS
<1> QED
  BY <1>3, <1>4 DEF RowsOf

(* The total size of the first rows is where the next one goes.            *)
LEMMA TotalOfRows ==
  ASSUME NEW F, NEW s, NEW n, F \in Seq(Fragment), n \in 0..Len(F), Sums(s, F, Len(F))
  PROVE  TotalSize(RowsOf(F, s, n)) = s[n]
<1> DEFINE es == RowsOf(F, s, n)
<1>1. Len(es) = n /\ n \in Nat /\ \A i \in 1..n : es[i] = RowOf(F[i], s[i - 1])
  BY RowsAre
<1> HIDE DEF es
<1>2. PICK r : Sums(r, es, Len(es)) /\ TotalSize(es) = r[Len(es)]
  BY <1>1, TotalDef
<1>3. Sums(s, F, n)
  BY DEF Sums
<1>4. \A i \in 1..n : Len(es[i].cells) = Len(F[i].cells)
  BY <1>1 DEF RowOf
<1>5. r[n] = s[n]
  BY <1>1, <1>2, <1>3, <1>4, SumsAgree
<1> QED
  BY <1>1, <1>2, <1>5 DEF es

LEMMA NextRow ==
  ASSUME NEW F, NEW s, NEW n, F \in Seq(Fragment), n \in 0..Len(F), n + 1 \in 0..Len(F),
         Sums(s, F, Len(F))
  PROVE  AddRamdisk(RowsOf(F, s, n), F[n + 1]) = RowsOf(F, s, n + 1)
<1> DEFINE x == RowsOf(F, s, n)
           y == RowsOf(F, s, n + 1)
           e == RowOf(F[n + 1], s[n])
<1>1. x \in Seq(TableRow) /\ Len(x) = n /\ \A i \in 1..n : x[i] = RowOf(F[i], s[i - 1])
  BY RowsAre
<1>2. y \in Seq(TableRow) /\ Len(y) = n + 1 /\ \A i \in 1..(n + 1) : y[i] = RowOf(F[i], s[i - 1])
  <2> DEFINE m == n + 1
  <2>1. m \in 0..Len(F)
    OBVIOUS
  <2> HIDE DEF m
  <2>2. RowsOf(F, s, m) \in Seq(TableRow) /\ Len(RowsOf(F, s, m)) = m
        /\ \A i \in 1..m : RowsOf(F, s, m)[i] = RowOf(F[i], s[i - 1])
    BY <2>1, RowsAre
  <2> QED
    BY <2>2 DEF m
<1>3. AddRamdisk(x, F[n + 1]) = Append(x, e)
  <2>1. TotalSize(x) = s[n]
    BY TotalOfRows
  <2> QED
    BY <2>1 DEF AddRamdisk, RowOf
<1> HIDE DEF x, y
<1>4. n \in Nat /\ n + 1 \in 1..(n + 1) /\ (n + 1) - 1 = n
  OBVIOUS
<1>5. y[n + 1] = e /\ e \in TableRow
  BY <1>2, <1>4
<1> HIDE DEF e
<1>6. /\ Append(x, e) \in Seq(TableRow) /\ Len(Append(x, e)) = n + 1
      /\ \A i \in 1..n : Append(x, e)[i] = x[i]
      /\ Append(x, e)[n + 1] = e
  BY <1>1, <1>5, AppendProperties
<1>7. \A i \in 1..(n + 1) : Append(x, e)[i] = y[i]
  <2> TAKE i \in 1..(n + 1)
  <2>1. CASE i = n + 1
    BY <1>5, <1>6, <2>1
  <2>2. CASE i # n + 1
    <3>1. i \in 1..n
      BY <1>4, <2>2
    <3> QED
      BY <1>1, <1>2, <1>6, <3>1
  <2> QED
    BY <2>1, <2>2
<1>8. Append(x, e) = y
  BY <1>2, <1>6, <1>7, SeqEqual
<1> QED
  BY <1>3, <1>8 DEF x, y

Tables(t, F, n) == \A k \in 0..n : t[k] = IF k = 0 THEN << >> ELSE AddRamdisk(t[k - 1], F[k])

LEMMA TablesExist ==
  ASSUME NEW F
  PROVE  \A n \in Nat : \E t : Tables(t, F, n)
<1> DEFINE T == {n \in Nat : \E t : Tables(t, F, n)}
<1>1. 0 \in T
  <2>1. Tables([k \in {0} |-> << >>], F, 0)
    BY DEF Tables
  <2> QED
    BY <2>1
<1>2. ASSUME NEW n \in Nat, n \in T
      PROVE  n + 1 \in T
  <2>1. PICK t : Tables(t, F, n)
    BY <1>2
  <2> DEFINE d == [k \in 0..(n + 1) |-> IF k = n + 1 THEN AddRamdisk(t[n], F[n + 1]) ELSE t[k]]
  <2>2. ASSUME NEW k \in 0..(n + 1)
        PROVE  d[k] = IF k = 0 THEN << >> ELSE AddRamdisk(d[k - 1], F[k])
    <3>1. CASE k = n + 1
      <4>1. k # 0 /\ k - 1 = n /\ n \in 0..(n + 1) /\ n # n + 1
        BY <3>1
      <4>2. d[k] = AddRamdisk(t[n], F[k]) /\ d[n] = t[n]
        BY <3>1, <4>1
      <4> QED
        BY <4>1, <4>2
    <3>2. CASE k # n + 1
      <4>1. k \in 0..n /\ (k # 0 => k - 1 \in 0..(n + 1) /\ k - 1 # n + 1)
        BY <3>2
      <4>2. t[k] = IF k = 0 THEN << >> ELSE AddRamdisk(t[k - 1], F[k])
        BY <2>1, <4>1 DEF Tables
      <4>3. d[k] = t[k] /\ (k # 0 => d[k - 1] = t[k - 1])
        BY <3>2, <4>1
      <4> QED
        BY <4>2, <4>3
    <3> QED
      BY <3>1, <3>2
  <2>3. Tables(d, F, n + 1)
    <3> HIDE DEF d
    <3> QED
      BY <2>2 DEF Tables
  <2> QED
    BY <2>3
<1>3. Nat \subseteq T
  <2> HIDE DEF T
  <2> QED
    BY <1>1, <1>2, StepInduction
<1> QED
  BY <1>3

LEMMA TableDef ==
  ASSUME NEW c, Len(Fragments(c)) \in Nat
  PROVE  \E t : Tables(t, Fragments(c), Len(Fragments(c))) /\ RamdiskTable(c) = t[Len(Fragments(c))]
<1> DEFINE F == Fragments(c)
           n == Len(F)
           Is(t) == t = [k \in 0..n |-> IF k = 0 THEN << >> ELSE AddRamdisk(t[k - 1], F[k])]
<1>1. PICK d : Tables(d, F, n)
  BY TablesExist
<1> DEFINE e == [k \in 0..n |-> d[k]]
<1>2. Is(e)
  <2>1. ASSUME NEW k \in 0..n
        PROVE  e[k] = IF k = 0 THEN << >> ELSE AddRamdisk(e[k - 1], F[k])
    <3>1. d[k] = IF k = 0 THEN << >> ELSE AddRamdisk(d[k - 1], F[k])
      BY <1>1 DEF Tables
    <3>2. k # 0 => k - 1 \in 0..n
      OBVIOUS
    <3>3. e[k] = d[k] /\ (k # 0 => e[k - 1] = d[k - 1])
      BY <3>2
    <3> QED
      BY <3>1, <3>3
  <2>2. e = [k \in 0..n |-> e[k]]
    OBVIOUS
  <2> HIDE DEF e, n, F
  <2> QED
    BY <2>1, <2>2 DEF n
<1>3. PICK b : b = (CHOOSE x : Is(x)) /\ Is(b)
  <2> HIDE DEF Is
  <2> QED
    BY <1>2
<1>4. RamdiskTable(c) = b[n]
  BY <1>3 DEF RamdiskTable
<1>5. Tables(b, F, n)
  BY <1>3 DEF Tables
<1> QED
  BY <1>4, <1>5

LEMMA TableIs ==
  ASSUME NEW c, NEW s, c \in BuildCommand, Sums(s, Fragments(c), Len(Fragments(c)))
  PROVE  RamdiskTable(c) = RowsOf(Fragments(c), s, Len(Fragments(c)))
<1> DEFINE F == Fragments(c)
           n == Len(F)
<1>1. F \in Seq(Fragment) /\ n \in Nat
  BY FragmentsAre
<1>2. PICK t : Tables(t, F, n) /\ RamdiskTable(c) = t[n]
  BY <1>1, TableDef
<1> HIDE DEF F
<1> DEFINE T == {k \in Nat : k <= n => t[k] = RowsOf(F, s, k)}
<1>3. 0 \in T
  <2>1. t[0] = << >>
    BY <1>1, <1>2 DEF Tables
  <2>2. RowsOf(F, s, 0) = << >>
    <3>1. 0 \in 0..Len(F) /\ Sums(s, F, Len(F))
      BY <1>1 DEF F
    <3>2. RowsOf(F, s, 0) \in Seq(TableRow) /\ Len(RowsOf(F, s, 0)) = 0
      BY <1>1, <3>1, RowsAre
    <3> QED
      BY <3>2, EmptySeq
  <2> QED
    BY <2>1, <2>2
<1>4. ASSUME NEW k \in Nat, k \in T
      PROVE  k + 1 \in T
  <2> SUFFICES ASSUME k + 1 <= n PROVE t[k + 1] = RowsOf(F, s, k + 1)
    OBVIOUS
  <2>1. k + 1 \in 0..n /\ k + 1 # 0 /\ (k + 1) - 1 = k /\ k <= n /\ k \in 0..Len(F)
        /\ k + 1 \in 0..Len(F)
    BY <1>1
  <2>2. t[k + 1] = AddRamdisk(t[k], F[k + 1])
    BY <1>2, <2>1 DEF Tables
  <2>3. t[k] = RowsOf(F, s, k)
    BY <1>4, <2>1
  <2>4. AddRamdisk(RowsOf(F, s, k), F[k + 1]) = RowsOf(F, s, k + 1)
    <3>1. Sums(s, F, Len(F))
      BY DEF F
    <3> QED
      BY <1>1, <2>1, <3>1, NextRow
  <2> QED
    BY <2>2, <2>3, <2>4
<1>5. n \in T
  <2>1. Nat \subseteq T
    <3> HIDE DEF T
    <3> QED
      BY <1>3, <1>4, StepInduction
  <2> HIDE DEF T
  <2> QED
    BY <1>1, <2>1
<1> QED
  BY <1>1, <1>2, <1>5 DEF F

-----------------------------------------------------------------------------
(* The ramdisks behind each other.                                         *)

Flats(f, g, n) == \A k \in 1..n : f[k] = IF k = 1 THEN g[k] ELSE f[k - 1] \o g[k]

LEMMA FlatsExist ==
  ASSUME NEW g
  PROVE  \A n \in Nat : \E f : Flats(f, g, n)
<1> DEFINE T == {n \in Nat : \E f : Flats(f, g, n)}
<1>1. 0 \in T
  <2>1. Flats(<< >>, g, 0)
    BY DEF Flats
  <2> QED
    BY <2>1
<1>2. ASSUME NEW n \in Nat, n \in T
      PROVE  n + 1 \in T
  <2>1. PICK f : Flats(f, g, n)
    BY <1>2
  <2> DEFINE e == IF n + 1 = 1 THEN g[n + 1] ELSE f[n] \o g[n + 1]
             d == [k \in 1..(n + 1) |-> IF k = n + 1 THEN e ELSE f[k]]
  <2>2. ASSUME NEW k \in 1..(n + 1)
        PROVE  d[k] = IF k = 1 THEN g[k] ELSE d[k - 1] \o g[k]
    <3>1. CASE k = n + 1
      <4>1. d[k] = e /\ k - 1 = n
        BY <3>1
      <4>2. CASE k = 1
        BY <3>1, <4>1, <4>2
      <4>3. CASE k # 1
        <5>1. n \in 1..(n + 1) /\ n # n + 1
          BY <3>1, <4>3
        <5>2. d[n] = f[n]
          BY <5>1
        <5> QED
          BY <3>1, <4>1, <4>3, <5>2
      <4> QED
        BY <4>2, <4>3
    <3>2. CASE k # n + 1
      <4>1. k \in 1..n /\ (k # 1 => k - 1 \in 1..(n + 1) /\ k - 1 # n + 1)
        BY <3>2
      <4>2. f[k] = IF k = 1 THEN g[k] ELSE f[k - 1] \o g[k]
        BY <2>1, <4>1 DEF Flats
      <4>3. d[k] = f[k] /\ (k # 1 => d[k - 1] = f[k - 1])
        BY <3>2, <4>1
      <4> QED
        BY <4>2, <4>3
    <3> QED
      BY <3>1, <3>2
  <2>3. Flats(d, g, n + 1)
    <3> HIDE DEF d
    <3> QED
      BY <2>2 DEF Flats
  <2> QED
    BY <2>3
<1>3. Nat \subseteq T
  <2> HIDE DEF T
  <2> QED
    BY <1>1, <1>2, StepInduction
<1> QED
  BY <1>3

LEMMA FlattenDef ==
  ASSUME NEW g, Len(g) \in Nat, Len(g) # 0
  PROVE  \E f : Flats(f, g, Len(g)) /\ FlattenSeq(g) = f[Len(g)]
<1> DEFINE n == Len(g)
           Is(f) == f = [k \in 1..n |-> IF k = 1 THEN g[k] ELSE f[k - 1] \o g[k]]
<1>1. PICK d : Flats(d, g, n)
  BY FlatsExist
<1> DEFINE e == [k \in 1..n |-> d[k]]
<1>2. Is(e)
  <2>1. ASSUME NEW k \in 1..n
        PROVE  e[k] = IF k = 1 THEN g[k] ELSE e[k - 1] \o g[k]
    <3>1. d[k] = IF k = 1 THEN g[k] ELSE d[k - 1] \o g[k]
      BY <1>1 DEF Flats
    <3>2. k # 1 => k - 1 \in 1..n
      OBVIOUS
    <3>3. e[k] = d[k] /\ (k # 1 => e[k - 1] = d[k - 1])
      BY <3>2
    <3> QED
      BY <3>1, <3>3
  <2>2. e = [k \in 1..n |-> e[k]]
    OBVIOUS
  <2> HIDE DEF e, n
  <2> QED
    BY <2>1, <2>2 DEF n
<1>3. PICK b : b = (CHOOSE x : Is(x)) /\ Is(b)
  <2> HIDE DEF Is
  <2> QED
    BY <1>2
<1>4. FlattenSeq(g) = b[n]
  BY <1>3 DEF FlattenSeq
<1>5. Flats(b, g, n)
  BY <1>3 DEF Flats
<1> QED
  BY <1>4, <1>5

(* Each ramdisk of the first n is at the sum of the sizes before it.       *)
FlatIs(f, es, s, n) ==
  /\ f \in Seq(Cell) /\ Len(f) = s[n]
  /\ \A i \in 1..n : \A j \in 1..Len(es[i].cells) : f[s[i - 1] + j] = es[i].cells[j]

LEMMA FlatGrows ==
  ASSUME NEW es, NEW s, NEW n, NEW k, NEW f, es \in Seq(TableRow), n = Len(es), k \in 0..n,
         k + 1 \in 1..n, Sums(s, es, n), FlatIs(f, es, s, k)
  PROVE  FlatIs(f \o es[k + 1].cells, es, s, k + 1)
<1> DEFINE c == es[k + 1].cells
           g == f \o c
<1>1. n \in Nat /\ \A i \in 1..n : es[i].cells \in Seq(Cell) /\ Len(es[i].cells) \in Nat
  <2>1. n \in Nat
    OBVIOUS
  <2> SUFFICES ASSUME NEW i \in 1..n
               PROVE  es[i].cells \in Seq(Cell) /\ Len(es[i].cells) \in Nat
    BY <2>1
  <2>2. es[i] \in TableRow
    OBVIOUS
  <2>3. es[i].cells \in Seq(Cell)
    BY <2>2 DEF TableRow
  <2> QED
    BY <2>3
<1>2. /\ \A i \in 0..n : s[i] \in Nat
      /\ \A i \in 1..n : s[i] = s[i - 1] + Len(es[i].cells)
  BY <1>1, SumsAre
<1>3. c \in Seq(Cell) /\ f \in Seq(Cell) /\ Len(f) = s[k]
  BY <1>1 DEF FlatIs
<1>4. s[k] \in Nat /\ s[k + 1] = s[k] + Len(c)
  <2>1. (k + 1) - 1 = k
    OBVIOUS
  <2> QED
    BY <1>2, <2>1
<1> HIDE DEF c
<1>5. /\ g \in Seq(Cell) /\ Len(g) = Len(f) + Len(c)
      /\ \A i \in 1..(Len(f) + Len(c)) : g[i] = IF i <= Len(f) THEN f[i] ELSE c[i - Len(f)]
  BY <1>3, ConcatProperties
<1> HIDE DEF g
<1>6. ASSUME NEW i \in 1..(k + 1), NEW j \in 1..Len(es[i].cells)
      PROVE  g[s[i - 1] + j] = es[i].cells[j]
  <2>1. CASE i = k + 1
    <3>1. i - 1 = k /\ es[i].cells = c /\ j \in 1..Len(c)
      BY <2>1 DEF c
    <3> DEFINE m == s[k] + j
    <3>2. m \in 1..(Len(f) + Len(c)) /\ ~(m <= Len(f)) /\ m - Len(f) = j
      BY <1>3, <1>4, <3>1
    <3>3. g[m] = c[j]
      BY <1>5, <3>2
    <3> QED
      BY <3>1, <3>3
  <2>2. CASE i # k + 1
    <3>1. i \in 1..k /\ i \in 1..n /\ i - 1 \in 0..n /\ i \in 0..k /\ k \in Nat
      BY <2>2
    <3>2. f[s[i - 1] + j] = es[i].cells[j]
      BY <3>1 DEF FlatIs
    <3>3. s[i] <= s[k]
      <4>1. Sums(s, es, k)
        BY DEF Sums
      <4>2. \A q \in 1..k : Len(es[q].cells) \in Nat
        BY <1>1
      <4> QED
        BY <3>1, <4>1, <4>2, SumsGrow
    <3>4. s[i] = s[i - 1] + Len(es[i].cells) /\ s[i - 1] \in Nat /\ Len(es[i].cells) \in Nat
      BY <1>1, <1>2, <3>1
    <3> DEFINE m == s[i - 1] + j
    <3>5. m \in 1..(Len(f) + Len(c)) /\ m <= Len(f)
      <4> DEFINE a == s[i - 1]
                 w == Len(es[i].cells)
      <4>1. Len(c) \in Nat /\ Len(f) \in Nat /\ a \in Nat /\ w \in Nat /\ j \in 1..w
            /\ a + w <= Len(f)
        BY <1>3, <1>4, <3>3, <3>4
      <4> HIDE DEF a, w
      <4>2. a + j \in 1..(Len(f) + Len(c)) /\ a + j <= Len(f)
        BY <4>1
      <4> QED
        BY <4>2 DEF a
    <3>6. g[m] = f[m]
      BY <1>5, <3>5
    <3> QED
      BY <3>2, <3>6
  <2> QED
    BY <2>1, <2>2
<1>7. FlatIs(g, es, s, k + 1)
  BY <1>3, <1>4, <1>5, <1>6 DEF FlatIs
<1> QED
  BY <1>7 DEF g, c

LEMMA FlattenIs ==
  ASSUME NEW es, NEW s, es \in Seq(TableRow), Sums(s, es, Len(es))
  PROVE  FlatIs(FlattenSeq([i \in DOMAIN es |-> es[i].cells]), es, s, Len(es))
<1> DEFINE g == [i \in DOMAIN es |-> es[i].cells]
           n == Len(es)
<1>1. n \in Nat /\ DOMAIN es = 1..n
  OBVIOUS
<1>2. \A i \in 1..n : es[i].cells \in Seq(Cell) /\ Len(es[i].cells) \in Nat
  <2> TAKE i \in 1..n
  <2>1. es[i] \in TableRow
    OBVIOUS
  <2>2. es[i].cells \in Seq(Cell)
    BY <2>1 DEF TableRow
  <2> QED
    BY <2>2
<1>3. g \in Seq(Seq(Cell)) /\ Len(g) = n /\ \A i \in 1..n : g[i] = es[i].cells
  <2> HIDE DEF n
  <2> QED
    BY <1>1, <1>2
<1> HIDE DEF g, n
<1>4. s[0] = 0 /\ (\A i \in 0..n : s[i] \in Nat)
      /\ \A i \in 1..n : s[i] = s[i - 1] + Len(es[i].cells)
  <2>1. Sums(s, es, n)
    BY DEF n
  <2> QED
    BY <1>1, <1>2, <2>1, SumsAre
<1>5. << >> \in Seq(Cell)
  OBVIOUS
<1>6. FlatIs(<< >>, es, s, 0)
  BY <1>4, <1>5 DEF FlatIs
<1>7. CASE n = 0
  <2>1. g = << >>
    BY <1>3, <1>7, EmptySeq
  <2>2. FlattenSeq(g) = g
    BY <1>3, <1>7 DEF FlattenSeq
  <2> QED
    BY <1>6, <1>7, <2>1, <2>2 DEF g, n
<1>8. CASE n # 0
  <2>1. PICK f : Flats(f, g, n) /\ FlattenSeq(g) = f[n]
    BY <1>1, <1>3, <1>8, FlattenDef
  <2> DEFINE T == {k \in Nat : k + 1 <= n => FlatIs(f[k + 1], es, s, k + 1)}
  <2>2. 0 \in T
    <3>1. f[1] = g[1] /\ g[1] = es[1].cells
      BY <1>1, <1>3, <1>8, <2>1 DEF Flats
    <3>2. << >> \o es[1].cells = es[1].cells
      BY <1>1, <1>2, <1>8, ConcatEmptySeq
    <3>3. FlatIs(<< >> \o es[0 + 1].cells, es, s, 0 + 1)
      <4> DEFINE z == 0
      <4>1. z \in 0..n /\ z + 1 \in 1..n /\ n = Len(es) /\ Sums(s, es, n) /\ FlatIs(<< >>, es, s, z)
        BY <1>1, <1>6, <1>8 DEF n
      <4> HIDE DEF z
      <4>2. FlatIs(<< >> \o es[z + 1].cells, es, s, z + 1)
        BY <4>1, FlatGrows
      <4> QED
        BY <4>2 DEF z
    <3>4. 0 + 1 = 1
      OBVIOUS
    <3> QED
      BY <3>1, <3>2, <3>3, <3>4
  <2>3. ASSUME NEW k \in Nat, k \in T
        PROVE  k + 1 \in T
    <3> SUFFICES ASSUME (k + 1) + 1 <= n
                 PROVE  FlatIs(f[(k + 1) + 1], es, s, (k + 1) + 1)
      OBVIOUS
    <3> DEFINE m == k + 1
    <3>1. m \in 0..n /\ m + 1 \in 1..n /\ m + 1 # 1 /\ (m + 1) - 1 = m
      BY <1>1
    <3>2. FlatIs(f[m], es, s, m)
      BY <2>3, <3>1
    <3> HIDE DEF m
    <3>3. f[m + 1] = f[m] \o es[m + 1].cells
      <4>1. f[m + 1] = f[m] \o g[m + 1]
        BY <2>1, <3>1 DEF Flats
      <4> QED
        BY <1>3, <3>1, <4>1
    <3>4. FlatIs(f[m] \o es[m + 1].cells, es, s, m + 1)
      <4>1. n = Len(es) /\ Sums(s, es, n)
        BY DEF n
      <4> QED
        BY <3>1, <3>2, <4>1, FlatGrows
    <3> QED
      BY <3>3, <3>4 DEF m
  <2>4. Nat \subseteq T
    <3> HIDE DEF T
    <3> QED
      BY <2>2, <2>3, StepInduction
  <2>5. n - 1 \in Nat /\ (n - 1) + 1 = n
    BY <1>1, <1>8
  <2>6. FlatIs(f[n], es, s, n)
    <3>1. n - 1 \in T
      <4> HIDE DEF T
      <4> QED
        BY <2>4, <2>5
    <3> QED
      BY <1>1, <2>5, <3>1
  <2> QED
    BY <2>1, <2>6 DEF g, n
<1> QED
  BY <1>7, <1>8

-----------------------------------------------------------------------------
(* The vendor_boot image, in the same terms as the boot image: a header    *)
(* and the sections behind it.                                             *)

Ramdisks == FlattenSeq([i \in DOMAIN table |-> table[i].cells])

TableSection == [i \in DOMAIN table |-> TableEntry(table[i])]

VendorPart ==
  IF cmd.version > 3
  THEN << Ramdisks, Given("dtb"), TableSection, Given("bootconfig"), << >> >>
  ELSE << cmd.vendor_ramdisk, Given("dtb"), << >>, << >>, << >> >>

VendorLayout == [page |-> cmd.pagesize, header |-> << "vendor_header", VendorHeader >>,
                 first |-> Pages(VendorHeaderSize[cmd.version], cmd.pagesize),
                 cell |-> Cell \cup {TableEntry(table[i]) : i \in DOMAIN table},
                 part |-> VendorPart]

VendorSections == IF cmd.version > 3 THEN 4 ELSE 2

(* The sections written so far: -1 before the header is.                   *)
Copied == Len(Writes) - 1 - Len(todo)

VendorProgress ==
  /\ Copied \in 0..VendorSections => Built(VendorLayout, vendor, Copied)
  /\ Copied > VendorSections => Built(VendorLayout, vendor, VendorSections)

(* The inputs that the vendor_boot image is still to take are unread: the  *)
(* boot image comes after it.                                              *)
VendorUnread ==
  /\ Copied < 2 => at["dtb"] = 0
  /\ Copied < VendorSections => at["bootconfig"] = 0

VendorInv ==
  /\ cmd \in BuildCommand /\ DOMAIN at = Input
  /\ pc \in {"parse", "write", "done", "failed"}
  /\ pc = "parse" => at = [i \in Input |-> 0]
  /\ cmd.vendor_boot /\ pc \in {"write", "done"} =>
       /\ Parsed(cmd) /\ WritesLeft
       /\ table = IF cmd.version > 3 THEN RamdiskTable(cmd) ELSE << >>
       /\ VendorProgress /\ VendorUnread
  /\ pc = "done" => todo = << >>

-----------------------------------------------------------------------------
(* The writes of a vendor_boot image.                                      *)

LEMMA BootWritesAre ==
  ASSUME NEW c
  PROVE  BootWrites(c) \in Seq({"header", "signature"} \cup SectionName)
<1> DEFINE W == {"header", "signature"} \cup SectionName
           h == << "header", "kernel", "ramdisk", "second" >>
           r == IF c.version \in {1, 2} THEN << "recovery_dtbo" >> ELSE << >>
           d == IF c.version = 2 THEN << "dtb" >> ELSE << >>
           g == IF c.version >= 4 /\ c.sign # "no" THEN << "signature" >> ELSE << >>
<1>1. "header" \in W /\ "signature" \in W /\ "kernel" \in W /\ "ramdisk" \in W
      /\ "second" \in W /\ "recovery_dtbo" \in W /\ "dtb" \in W
  BY DEF SectionName
<1> HIDE DEF W
<1>2. h \in Seq(W) /\ r \in Seq(W)
  BY <1>1
<1>3. d \in Seq(W)
  <2>1. CASE c.version = 2
    BY <1>1, <2>1
  <2>2. CASE c.version # 2
    BY <2>2
  <2> QED
    BY <2>1, <2>2
<1>4. g \in Seq(W)
  <2>1. << "signature" >> \in Seq(W) /\ << >> \in Seq(W)
    BY <1>1
  <2> QED
    BY <2>1, Zenon
<1>5. BootWrites(c) = << >> \/ BootWrites(c) = ((h \o r) \o d) \o g
  BY DEF BootWrites
<1> HIDE DEF h, r, d, g
<1>6. h \o r \in Seq(W)
  BY <1>2, ConcatProperties
<1>7. (h \o r) \o d \in Seq(W)
  BY <1>3, <1>6, ConcatProperties
<1>8. ((h \o r) \o d) \o g \in Seq(W)
  BY <1>4, <1>7, ConcatProperties
<1>9. << >> \in Seq(W)
  OBVIOUS
<1> QED
  BY <1>5, <1>8, <1>9 DEF W

(* The command line, as far as the vendor_boot image depends on it.        *)
LEMMA VendorCommand ==
  ASSUME cmd \in BuildCommand, cmd.vendor_boot, Parsed(cmd)
  PROVE  /\ cmd.version \in {3, 4} /\ cmd.pagesize \in Nat \ {0}
         /\ cmd.file \in [Input -> {Absent} \cup Seq(Cell)]
         /\ cmd.version = 3 => cmd.vendor_ramdisk \in Seq(Cell)
         /\ VendorSections \in {2, 4} /\ (VendorSections = 4 <=> cmd.version = 4)
         /\ Given("dtb") \in Seq(Cell) /\ Given("bootconfig") \in Seq(Cell)
<1>1. /\ cmd.version \in {3, 4} /\ (cmd.version = 3 => cmd.vendor_ramdisk # Absent)
  BY DEF Parsed
<1>2. /\ cmd.pagesize \in Nat \ {0} /\ cmd.file \in [Input -> {Absent} \cup Seq(Cell)]
      /\ cmd.vendor_ramdisk \in {Absent} \cup Seq(Cell)
  BY CommandAssumption
<1>3. \A i \in Input : Given(i) \in Seq(Cell)
  BY <1>2 DEF Given
<1>4. "dtb" \in Input /\ "bootconfig" \in Input
  BY DEF Input
<1>5. VendorSections \in {2, 4} /\ (VendorSections = 4 <=> cmd.version = 4)
  BY <1>1 DEF VendorSections
<1> QED
  BY <1>1, <1>2, <1>3, <1>4, <1>5

LEMMA VendorWritesAre ==
  ASSUME cmd \in BuildCommand, cmd.vendor_boot, Parsed(cmd)
  PROVE  /\ Writes \in Seq(WriteName) /\ Len(Writes) \in Nat
         /\ VendorSections + 1 <= Len(Writes)
         /\ Writes[1] = "vendor_header"
         /\ cmd.version = 4 => /\ Writes[2] = "vendor_ramdisks" /\ Writes[3] = "vendor_dtb"
                               /\ Writes[4] = "vendor_table" /\ Writes[5] = "bootconfig"
         /\ cmd.version = 3 => /\ Writes[2] = "vendor_ramdisk" /\ Writes[3] = "vendor_dtb"
         /\ \A i \in 1..Len(Writes) : i > VendorSections + 1 => Writes[i] \notin VendorName
<1> DEFINE V == VendorWrites(cmd)
           B == BootWrites(cmd)
<1>1. cmd.version \in {3, 4} /\ VendorSections \in {2, 4} /\ (VendorSections = 4 <=> cmd.version = 4)
  BY VendorCommand
<1>2. /\ cmd.version = 4 =>
           V = << "vendor_header", "vendor_ramdisks", "vendor_dtb", "vendor_table", "bootconfig" >>
      /\ cmd.version = 3 => V = << "vendor_header", "vendor_ramdisk", "vendor_dtb" >>
  BY DEF VendorWrites
<1>3. B \in Seq({"header", "signature"} \cup SectionName)
  BY BootWritesAre
<1>4. Writes = V \o B
  BY DEF Writes
<1> HIDE DEF V, B
<1>5. \A i \in 1..Len(B) : B[i] \notin VendorName
  <2> TAKE i \in 1..Len(B)
  <2>1. B[i] \in {"header", "signature"} \cup SectionName
    BY <1>3
  <2> QED
    BY <2>1 DEF SectionName, VendorName
<1>6. B \in Seq(WriteName)
  <2> DEFINE S == {"header", "signature"} \cup SectionName
  <2>1. S \subseteq WriteName /\ B \in Seq(S)
    BY <1>3 DEF WriteName
  <2> HIDE DEF S
  <2> QED
    BY <2>1, SeqMonotonic
<1>7. /\ V \in Seq(WriteName) /\ Len(V) = VendorSections + 1
      /\ V[1] = "vendor_header"
      /\ cmd.version = 4 => /\ V[2] = "vendor_ramdisks" /\ V[3] = "vendor_dtb"
                            /\ V[4] = "vendor_table" /\ V[5] = "bootconfig"
      /\ cmd.version = 3 => /\ V[2] = "vendor_ramdisk" /\ V[3] = "vendor_dtb"
  <2>1. /\ "vendor_header" \in WriteName /\ "vendor_ramdisk" \in WriteName
        /\ "vendor_ramdisks" \in WriteName /\ "vendor_dtb" \in WriteName
        /\ "vendor_table" \in WriteName /\ "bootconfig" \in WriteName
    BY DEF WriteName, VendorName
  <2>2. CASE cmd.version = 4
    <3>1. V = << "vendor_header", "vendor_ramdisks", "vendor_dtb", "vendor_table", "bootconfig" >>
      BY <1>2, <2>2
    <3>2. V \in Seq(WriteName) /\ Len(V) = 5
      BY <2>1, <3>1
    <3>3. /\ V[1] = "vendor_header" /\ V[2] = "vendor_ramdisks" /\ V[3] = "vendor_dtb"
          /\ V[4] = "vendor_table" /\ V[5] = "bootconfig"
      BY <3>1
    <3> QED
      BY <1>1, <2>2, <3>2, <3>3
  <2>3. CASE cmd.version = 3
    <3>1. V = << "vendor_header", "vendor_ramdisk", "vendor_dtb" >>
      BY <1>2, <2>3
    <3>2. V \in Seq(WriteName) /\ Len(V) = 3
      BY <2>1, <3>1
    <3>3. V[1] = "vendor_header" /\ V[2] = "vendor_ramdisk" /\ V[3] = "vendor_dtb"
      BY <3>1
    <3> QED
      BY <1>1, <2>3, <3>2, <3>3
  <2> QED
    BY <1>1, <2>2, <2>3
<1>8. /\ V \o B \in Seq(WriteName) /\ Len(V \o B) = Len(V) + Len(B)
      /\ \A i \in 1..(Len(V) + Len(B)) :
           (V \o B)[i] = IF i <= Len(V) THEN V[i] ELSE B[i - Len(V)]
  BY <1>6, <1>7, ConcatProperties
<1>9. Len(V) \in Nat /\ Len(B) \in Nat
  BY <1>6, <1>7
<1>10. \A i \in 1..Len(V) : (V \o B)[i] = V[i]
  BY <1>8, <1>9
<1>11. ASSUME NEW i \in 1..Len(V \o B), i > VendorSections + 1
       PROVE  (V \o B)[i] \notin VendorName
  <2>1. ~(i <= Len(V)) /\ i - Len(V) \in 1..Len(B) /\ i \in 1..(Len(V) + Len(B))
    BY <1>1, <1>7, <1>8, <1>9, <1>11
  <2> QED
    BY <2>1, <1>5, <1>8
<1>12. /\ cmd.version = 4 => 1 \in 1..Len(V) /\ 2 \in 1..Len(V) /\ 3 \in 1..Len(V)
                             /\ 4 \in 1..Len(V) /\ 5 \in 1..Len(V)
       /\ cmd.version = 3 => 1 \in 1..Len(V) /\ 2 \in 1..Len(V) /\ 3 \in 1..Len(V)
  BY <1>1, <1>7
<1>13. /\ (V \o B)[1] = "vendor_header"
       /\ cmd.version = 4 => /\ (V \o B)[2] = "vendor_ramdisks" /\ (V \o B)[3] = "vendor_dtb"
                             /\ (V \o B)[4] = "vendor_table" /\ (V \o B)[5] = "bootconfig"
       /\ cmd.version = 3 => /\ (V \o B)[2] = "vendor_ramdisk" /\ (V \o B)[3] = "vendor_dtb"
  BY <1>1, <1>7, <1>10, <1>12
<1>14. VendorSections + 1 <= Len(V \o B) /\ Len(V \o B) \in Nat
  BY <1>1, <1>7, <1>8, <1>9
<1> QED
  BY <1>4, <1>8, <1>11, <1>13, <1>14

(* The next write of the vendor_boot image, until it is complete.          *)
LEMMA NextVendorWrite ==
  ASSUME VendorInv, cmd.vendor_boot, pc = "write", todo # << >>
  PROVE  /\ Copied \in Int /\ Copied >= -1
         /\ Copied = -1 => Head(todo) = "vendor_header"
         /\ cmd.version = 4 => /\ Copied = 0 => Head(todo) = "vendor_ramdisks"
                               /\ Copied = 1 => Head(todo) = "vendor_dtb"
                               /\ Copied = 2 => Head(todo) = "vendor_table"
                               /\ Copied = 3 => Head(todo) = "bootconfig"
         /\ cmd.version = 3 => /\ Copied = 0 => Head(todo) = "vendor_ramdisk"
                               /\ Copied = 1 => Head(todo) = "vendor_dtb"
         /\ Copied >= VendorSections => Head(todo) \notin VendorName
<1>1. cmd \in BuildCommand /\ Parsed(cmd) /\ WritesLeft
  BY DEF VendorInv
<1> DEFINE w == Len(Writes)
           t == Len(todo)
           n == VendorSections
<1>2. /\ w \in Nat /\ n + 1 <= w /\ n \in {2, 4}
      /\ Writes[1] = "vendor_header"
      /\ cmd.version = 4 => /\ Writes[2] = "vendor_ramdisks" /\ Writes[3] = "vendor_dtb"
                            /\ Writes[4] = "vendor_table" /\ Writes[5] = "bootconfig"
      /\ cmd.version = 3 => /\ Writes[2] = "vendor_ramdisk" /\ Writes[3] = "vendor_dtb"
      /\ \A i \in 1..w : i > n + 1 => Writes[i] \notin VendorName
  BY <1>1, VendorWritesAre, VendorCommand
<1>3. /\ t \in Nat \ {0} /\ t <= w /\ todo[1] = Writes[w - t + 1]
  <2>1. /\ todo \in Seq(WriteName) /\ t <= w
        /\ \A i \in 1..t : todo[i] = Writes[w - t + i]
    BY <1>1 DEF WritesLeft
  <2>2. t \in Nat \ {0}
    BY <2>1, EmptySeq
  <2>3. 1 \in 1..t
    BY <2>2
  <2> QED
    BY <2>1, <2>2, <2>3
<1>4. Head(todo) = todo[1] /\ Copied = w - 1 - t
  BY DEF Head, Copied
<1> HIDE DEF w, t, n
<1>5. w - t + 1 = Copied + 2 /\ Copied \in Int /\ Copied >= -1 /\ Copied + 2 \in 1..w
  BY <1>2, <1>3, <1>4
<1>6. Head(todo) = Writes[Copied + 2]
  BY <1>3, <1>4, <1>5
<1> DEFINE k == Copied
<1>7. k \in Int /\ k >= -1 /\ k + 2 \in 1..w /\ Head(todo) = Writes[k + 2]
  BY <1>5, <1>6
<1> HIDE DEF k
<1>8. k >= n => Head(todo) \notin VendorName
  <2>1. SUFFICES ASSUME k >= n PROVE Writes[k + 2] \notin VendorName
    BY <1>7
  <2>2. k + 2 > n + 1
    BY <1>2, <1>7, <2>1
  <2> QED
    BY <1>2, <1>7, <2>2
<1>9. /\ k = -1 => k + 2 = 1
      /\ k = 0 => k + 2 = 2
      /\ k = 1 => k + 2 = 3
      /\ k = 2 => k + 2 = 4
      /\ k = 3 => k + 2 = 5
  OBVIOUS
<1>10. /\ k = -1 => Head(todo) = "vendor_header"
       /\ cmd.version = 4 => /\ k = 0 => Head(todo) = "vendor_ramdisks"
                             /\ k = 1 => Head(todo) = "vendor_dtb"
                             /\ k = 2 => Head(todo) = "vendor_table"
                             /\ k = 3 => Head(todo) = "bootconfig"
       /\ cmd.version = 3 => /\ k = 0 => Head(todo) = "vendor_ramdisk"
                             /\ k = 1 => Head(todo) = "vendor_dtb"
  BY <1>2, <1>7, <1>9
<1> QED
  BY <1>7, <1>8, <1>10 DEF k, n

LEMMA NextIsCopied ==
  ASSUME VendorInv, cmd.vendor_boot, pc = "write", todo # << >>, cmd' = cmd, todo' = Tail(todo)
  PROVE  WritesLeft' /\ Copied' = Copied + 1
<1>1. cmd \in BuildCommand /\ Parsed(cmd) /\ WritesLeft
  BY DEF VendorInv
<1>2. /\ todo \in Seq(WriteName) /\ Len(todo) <= Len(Writes)
      /\ \A i \in 1..Len(todo) : todo[i] = Writes[Len(Writes) - Len(todo) + i]
  BY <1>1 DEF WritesLeft
<1>3. /\ Tail(todo) \in Seq(WriteName)
      /\ Len(Tail(todo)) = Len(todo) - 1
      /\ \A i \in 1..Len(Tail(todo)) : Tail(todo)[i] = todo[i + 1]
  BY <1>2, HeadTailProperties
<1>4. Writes' = Writes
  BY DEF Writes
<1>5. Len(todo) \in Nat /\ Len(Writes) \in Nat
  BY <1>1, <1>2, VendorWritesAre
<1>6. ASSUME NEW i \in 1..Len(Tail(todo))
      PROVE  Tail(todo)[i] = Writes[Len(Writes) - Len(Tail(todo)) + i]
  <2>1. i + 1 \in 1..Len(todo)
        /\ Len(Writes) - Len(todo) + (i + 1) = Len(Writes) - Len(Tail(todo)) + i
    BY <1>3, <1>5
  <2> QED
    BY <2>1, <1>2, <1>3
<1>7. WritesLeft'
  <2> DEFINE w == Tail(todo)
  <2>1. w \in Seq(WriteName) /\ Len(w) <= Len(Writes)
        /\ \A i \in 1..Len(w) : w[i] = Writes[Len(Writes) - Len(w) + i]
    BY <1>2, <1>3, <1>5, <1>6
  <2> HIDE DEF w
  <2>2. todo' = w
    BY DEF w
  <2> QED
    BY <1>4, <2>1, <2>2 DEF WritesLeft
<1>8. Copied' = Copied + 1
  <2>1. Len(todo') = Len(todo) - 1
    BY <1>3
  <2> QED
    BY <1>4, <1>5, <2>1 DEF Copied
<1> QED
  BY <1>7, <1>8

-----------------------------------------------------------------------------
(* The layout of a vendor_boot image.                                      *)

LEMMA TableTyped ==
  ASSUME cmd \in BuildCommand, table = IF cmd.version > 3 THEN RamdiskTable(cmd) ELSE << >>
  PROVE  table \in Seq(TableRow)
<1> DEFINE F == Fragments(cmd)
           n == Len(F)
<1>1. F \in Seq(Fragment) /\ n \in Nat
  BY FragmentsAre
<1>2. PICK s : Sums(s, F, n)
  BY <1>1, SumsExist
<1>3. RamdiskTable(cmd) = RowsOf(F, s, n)
  BY <1>2, TableIs
<1>4. RowsOf(F, s, n) \in Seq(TableRow)
  <2>1. n \in 0..Len(F) /\ Sums(s, F, Len(F))
    BY <1>1, <1>2
  <2> HIDE DEF n, F
  <2>2. F \in Seq(Fragment)
    BY <1>1
  <2> QED
    BY <2>1, <2>2, RowsAre
<1>5. << >> \in Seq(TableRow)
  OBVIOUS
<1> QED
  BY <1>3, <1>4, <1>5

LEMMA RamdisksAre ==
  ASSUME table \in Seq(TableRow)
  PROVE  /\ \E s : Sums(s, table, Len(table)) /\ FlatIs(Ramdisks, table, s, Len(table))
         /\ Ramdisks \in Seq(Cell)
<1>1. Len(table) \in Nat
  OBVIOUS
<1>2. PICK s : Sums(s, table, Len(table))
  BY <1>1, SumsExist
<1>3. FlatIs(Ramdisks, table, s, Len(table))
  BY <1>2, FlattenIs DEF Ramdisks
<1> QED
  BY <1>2, <1>3 DEF FlatIs

LEMMA FiveParts ==
  ASSUME NEW S, NEW a \in S, NEW b \in S, NEW c \in S, NEW d \in S, NEW e \in S
  PROVE  /\ << a, b, c, d, e >> \in [1..5 -> S]
         /\ << a, b, c, d, e >>[1] = a /\ << a, b, c, d, e >>[2] = b
         /\ << a, b, c, d, e >>[3] = c /\ << a, b, c, d, e >>[4] = d
<1> DEFINE x == << a, b, c, d, e >>
<1>1. x \in Seq(S) /\ Len(x) = 5
  OBVIOUS
<1>2. x[1] = a /\ x[2] = b /\ x[3] = c /\ x[4] = d
  OBVIOUS
<1> HIDE DEF x
<1>3. x \in [1..5 -> S]
  <2>1. x \in [1..Len(x) -> S]
    BY <1>1, LenProperties
  <2> QED
    BY <1>1, <2>1
<1> QED
  BY <1>2, <1>3 DEF x

LEMMA HeaderSizeIs ==
  ASSUME NEW v, v \in {3, 4}
  PROVE  VendorHeaderSize[v] \in Nat \ {0}
  BY BootImageAssumption

(* A header has at least one page.                                         *)
LEMMA HeaderPages ==
  ASSUME NEW n \in Nat \ {0}, NEW P \in Nat \ {0}
  PROVE  Pages(n, P) \in Nat \ {0}
<1> DEFINE q == Pages(n, P)
<1>1. q \in Nat /\ (0 - n) % P \in Nat /\ n + ((0 - n) % P) = P * q
  BY PagesFill
<1> HIDE DEF q
<1>2. q # 0
  <2>1. SUFFICES ASSUME q = 0 PROVE FALSE
    OBVIOUS
  <2>2. P * q = 0
    BY <2>1
  <2> QED
    BY <1>1, <2>2
<1> QED
  BY <1>1, <1>2 DEF q

LEMMA VendorLayoutIs ==
  ASSUME cmd \in BuildCommand, cmd.vendor_boot, Parsed(cmd),
         table = IF cmd.version > 3 THEN RamdiskTable(cmd) ELSE << >>
  PROVE  /\ IsLayout(VendorLayout) /\ VendorLayout.page = cmd.pagesize
         /\ VendorLayout.header = << "vendor_header", VendorHeader >>
         /\ VendorLayout.first = Pages(VendorHeaderSize[cmd.version], cmd.pagesize)
         /\ VendorLayout.part[2] = Given("dtb")
         /\ cmd.version = 3 => VendorLayout.part[1] = cmd.vendor_ramdisk
         /\ cmd.version = 4 => /\ VendorLayout.part[1] = Ramdisks
                               /\ VendorLayout.part[3] = TableSection
                               /\ VendorLayout.part[4] = Given("bootconfig")
<1> DEFINE E == {TableEntry(table[i]) : i \in DOMAIN table}
           C == Cell \cup E
           p == VendorPart
<1>1. /\ VendorLayout.page = cmd.pagesize /\ VendorLayout.cell = C /\ VendorLayout.part = p
      /\ VendorLayout.header = << "vendor_header", VendorHeader >>
      /\ VendorLayout.first = Pages(VendorHeaderSize[cmd.version], cmd.pagesize)
  BY DEF VendorLayout
<1>2. /\ cmd.version \in {3, 4} /\ cmd.pagesize \in Nat \ {0}
      /\ cmd.version = 3 => cmd.vendor_ramdisk \in Seq(Cell)
      /\ Given("dtb") \in Seq(Cell) /\ Given("bootconfig") \in Seq(Cell)
  BY VendorCommand
<1>3. table \in Seq(TableRow)
  BY TableTyped
<1>10. VendorLayout.first \in Nat \ {0}
  <2> DEFINE v == cmd.version
             P == cmd.pagesize
  <2>1. v \in {3, 4} /\ P \in Nat \ {0}
    BY <1>2
  <2> HIDE DEF v, P
  <2> DEFINE n == VendorHeaderSize[v]
  <2>3. n \in Nat \ {0}
    BY <2>1, HeaderSizeIs
  <2> HIDE DEF n
  <2>4. Pages(n, P) \in Nat \ {0}
    BY <2>1, <2>3, HeaderPages
  <2>2. Pages(VendorHeaderSize[v], P) \in Nat \ {0}
    BY <2>4 DEF n
  <2> QED
    BY <1>1, <2>2 DEF v, P
<1>4. Ramdisks \in Seq(Cell)
  BY <1>3, RamdisksAre
<1>5. TableSection \in Seq(E)
  <2>1. Len(table) \in Nat /\ DOMAIN table = 1..Len(table)
    BY <1>3
  <2>2. \A i \in 1..Len(table) : TableEntry(table[i]) \in E
    BY <2>1
  <2> HIDE DEF E
  <2> QED
    BY <2>1, <2>2 DEF TableSection
<1> HIDE DEF E
<1>6. Seq(Cell) \subseteq Seq(C) /\ Seq(E) \subseteq Seq(C)
  <2>1. Cell \subseteq C /\ E \subseteq C
    OBVIOUS
  <2> HIDE DEF C
  <2> QED
    BY <2>1, SeqMonotonic
<1>7. << >> \in Seq(C)
  OBVIOUS
<1> HIDE DEF C
<1>8. CASE cmd.version = 3
  <2> DEFINE a == cmd.vendor_ramdisk
             b == Given("dtb")
  <2>1. a \in Seq(C) /\ b \in Seq(C)
    BY <1>2, <1>6, <1>8
  <2>2. p = << a, b, << >>, << >>, << >> >>
    BY <1>8 DEF VendorPart
  <2> HIDE DEF a, b, p
  <2>3. p \in [1..5 -> Seq(C)] /\ p[1] = a /\ p[2] = b
    <3> DEFINE S == Seq(C)
    <3>1. a \in S /\ b \in S /\ << >> \in S
      BY <1>7, <2>1
    <3> HIDE DEF S
    <3> QED
      BY <2>2, <3>1, FiveParts DEF S
  <2> QED
    BY <1>1, <1>2, <1>8, <1>10, <2>3 DEF a, b, IsLayout
<1>9. CASE cmd.version = 4
  <2> DEFINE a == Ramdisks
             b == Given("dtb")
             c == TableSection
             d == Given("bootconfig")
  <2>1. a \in Seq(C) /\ b \in Seq(C) /\ c \in Seq(C) /\ d \in Seq(C)
    BY <1>2, <1>4, <1>5, <1>6
  <2>2. p = << a, b, c, d, << >> >>
    BY <1>9 DEF VendorPart
  <2> HIDE DEF a, b, c, d, p
  <2>3. p \in [1..5 -> Seq(C)] /\ p[1] = a /\ p[2] = b /\ p[3] = c /\ p[4] = d
    <3> DEFINE S == Seq(C)
    <3>1. a \in S /\ b \in S /\ c \in S /\ d \in S /\ << >> \in S
      BY <1>7, <2>1
    <3> HIDE DEF S
    <3> QED
      BY <2>2, <3>1, FiveParts DEF S
  <2> QED
    BY <1>1, <1>2, <1>9, <1>10, <2>3 DEF a, b, c, d, IsLayout
<1> QED
  BY <1>2, <1>8, <1>9

-----------------------------------------------------------------------------
(* The invariant of the vendor_boot image, step by step.                   *)

LEMMA VendorStays ==
  ASSUME cmd' = cmd, table' = table
  PROVE  VendorLayout' = VendorLayout /\ VendorSections' = VendorSections
  BY DEF VendorLayout, VendorSections, VendorHeader, VendorPart, Ramdisks, TableSection, Given

LEMMA VendorControl ==
  ASSUME VendorInv, [BuildNext]_build
  PROVE  /\ cmd' = cmd /\ cmd' \in BuildCommand /\ DOMAIN at' = Input
         /\ pc' \in {"parse", "write", "done", "failed"}
         /\ pc' = "parse" => at' = [i \in Input |-> 0]
         /\ pc' = "done" => todo' = << >>
<1>1. /\ cmd \in BuildCommand /\ DOMAIN at = Input
      /\ pc \in {"parse", "write", "done", "failed"}
      /\ pc = "parse" => at = [i \in Input |-> 0]
      /\ pc = "done" => todo = << >>
  BY DEF VendorInv
<1>2. CASE UNCHANGED build
  BY <1>1, <1>2 DEF build
<1>3. CASE Start
  BY <1>1, <1>3 DEF Start
<1>4. CASE Finish
  BY <1>1, <1>4 DEF Finish
<1>5. CASE Write
  <2>1. pc = "write" /\ cmd' = cmd
    BY <1>5 DEF Write
  <2>2. CASE WriteHeader
    BY <1>1, <2>1, <2>2 DEF WriteHeader, CursorsAfterSha
  <2>3. CASE WriteSection
    BY <1>1, <2>1, <2>3 DEF WriteSection, Consumed
  <2>4. CASE WriteSignature
    BY <1>1, <2>1, <2>4 DEF WriteSignature
  <2>5. CASE WriteVendor
    BY <1>1, <2>1, <2>5 DEF WriteVendor, Consumed
  <2> QED
    BY <1>5, <2>2, <2>3, <2>4, <2>5 DEF Write
<1> QED
  BY <1>2, <1>3, <1>4, <1>5 DEF BuildNext

LEMMA VendorStarts ==
  ASSUME VendorInv, Start, cmd.vendor_boot, pc' = "write"
  PROVE  /\ Parsed(cmd)' /\ WritesLeft'
         /\ (table = IF cmd.version > 3 THEN RamdiskTable(cmd) ELSE << >>)'
         /\ (VendorProgress /\ VendorUnread)'
<1>1. /\ pc = "parse" /\ Parsed(cmd) /\ cmd' = cmd /\ at' = at
      /\ todo' = Writes
      /\ table' = IF cmd.version > 3 THEN RamdiskTable(cmd) ELSE << >>
  BY DEF Start, Writes
<1>2. at = [i \in Input |-> 0] /\ cmd \in BuildCommand
  BY <1>1 DEF VendorInv
<1>3. Writes \in Seq(WriteName) /\ Len(Writes) \in Nat /\ VendorSections \in {2, 4}
  BY <1>1, <1>2, VendorWritesAre, VendorCommand
<1>4. Writes' = Writes
  BY <1>1 DEF Writes
<1>5. WritesLeft'
  <2> DEFINE w == Writes
  <2>1. todo' = w /\ Writes' = w /\ w \in Seq(WriteName) /\ Len(w) \in Nat
    BY <1>1, <1>3, <1>4
  <2> HIDE DEF w
  <2>2. Len(w) <= Len(w) /\ \A i \in 1..Len(w) : w[i] = w[Len(w) - Len(w) + i]
    BY <2>1
  <2> QED
    BY <2>1, <2>2 DEF WritesLeft
<1>6. Copied' = -1
  <2>1. Copied' = Len(Writes) - 1 - Len(Writes)
    BY <1>1, <1>4 DEF Copied
  <2> QED
    BY <1>3, <2>1
<1>7. VendorSections' = VendorSections
  BY <1>1 DEF VendorSections
<1>8. VendorProgress'
  BY <1>3, <1>6, <1>7 DEF VendorProgress
<1>9. VendorUnread'
  <2>1. at["dtb"] = 0 /\ at["bootconfig"] = 0
    BY <1>2 DEF Input
  <2> QED
    BY <1>1, <2>1 DEF VendorUnread
<1> QED
  BY <1>1, <1>5, <1>8, <1>9

(* An input that nobody has read is copied from its first cell.            *)
LEMMA VendorSectionIs ==
  ASSUME cmd \in BuildCommand, cmd.vendor_boot, Parsed(cmd),
         table = IF cmd.version > 3 THEN RamdiskTable(cmd) ELSE << >>,
         NEW k \in 0..4, NEW input \in Input, at[input] = 0,
         VendorLayout.part[k + 1] = Given(input), Built(VendorLayout, vendor, k)
  PROVE  Built(VendorLayout, Section(vendor, input, cmd.pagesize), k + 1)
<1> DEFINE f == cmd.file[input]
<1>1. /\ IsLayout(VendorLayout) /\ VendorLayout.page = cmd.pagesize
      /\ cmd.file \in [Input -> {Absent} \cup Seq(Cell)]
  BY VendorLayoutIs, VendorCommand
<1>2. CASE f = Absent
  <2>1. Section(vendor, input, cmd.pagesize) = vendor /\ VendorLayout.part[k + 1] = << >>
    BY <1>2 DEF Section, Given
  <2> QED
    BY <1>1, <2>1, NothingBuilt
<1>3. CASE f # Absent
  <2>1. f \in Seq(Cell) /\ VendorLayout.part[k + 1] = f
    BY <1>1, <1>3 DEF Given
  <2>2. SubSeq(f, at[input] + 1, Len(f)) = f
    <3>1. at[input] + 1 = 1
      OBVIOUS
    <3> HIDE DEF f
    <3> QED
      BY <2>1, <3>1, SubSeqFull
  <2>3. Section(vendor, input, cmd.pagesize)
          = Padded(vendor \o VendorLayout.part[k + 1], VendorLayout.page)
    BY <1>1, <1>3, <2>1, <2>2 DEF Section
  <2> QED
    BY <1>1, <2>3, SectionBuilt
<1> QED
  BY <1>2, <1>3

(* One write of the vendor_boot image: its header, or its next section.    *)
LEMMA VendorGrows ==
  ASSUME VendorInv, cmd.vendor_boot, Write, WriteVendor
  PROVE  /\ Copied \in -1..(VendorSections - 1)
         /\ Built(VendorLayout, vendor', Copied + 1)
         /\ Copied + 1 < 2 => at'["dtb"] = 0
         /\ Copied + 1 < VendorSections => at'["bootconfig"] = 0
<1>1. /\ pc = "write" /\ todo # << >> /\ Head(todo) \in VendorName /\ vendor' = VendorWritten
      /\ at' = CASE Head(todo) = "vendor_dtb" -> Consumed("dtb")
                 [] Head(todo) = "bootconfig" -> Consumed("bootconfig")
                 [] OTHER -> at
  BY DEF Write, WriteVendor, VendorName
<1>2. /\ cmd \in BuildCommand /\ Parsed(cmd) /\ DOMAIN at = Input
      /\ table = IF cmd.version > 3 THEN RamdiskTable(cmd) ELSE << >>
      /\ VendorProgress /\ VendorUnread
  BY <1>1 DEF VendorInv
<1>3. /\ IsLayout(VendorLayout) /\ VendorLayout.page = cmd.pagesize
      /\ VendorLayout.header = << "vendor_header", VendorHeader >>
      /\ VendorLayout.first = Pages(VendorHeaderSize[cmd.version], cmd.pagesize)
      /\ VendorLayout.part[2] = Given("dtb")
      /\ cmd.version = 3 => VendorLayout.part[1] = cmd.vendor_ramdisk
      /\ cmd.version = 4 => /\ VendorLayout.part[1] = Ramdisks
                            /\ VendorLayout.part[3] = TableSection
                            /\ VendorLayout.part[4] = Given("bootconfig")
  BY <1>2, VendorLayoutIs
<1>4. /\ cmd.version \in {3, 4} /\ VendorSections \in {2, 4}
      /\ (VendorSections = 4 <=> cmd.version = 4)
  BY <1>2, VendorCommand
<1>5. /\ Copied \in Int /\ Copied >= -1
      /\ Copied = -1 => Head(todo) = "vendor_header"
      /\ cmd.version = 4 => /\ Copied = 0 => Head(todo) = "vendor_ramdisks"
                            /\ Copied = 1 => Head(todo) = "vendor_dtb"
                            /\ Copied = 2 => Head(todo) = "vendor_table"
                            /\ Copied = 3 => Head(todo) = "bootconfig"
      /\ cmd.version = 3 => /\ Copied = 0 => Head(todo) = "vendor_ramdisk"
                            /\ Copied = 1 => Head(todo) = "vendor_dtb"
      /\ Copied >= VendorSections => Head(todo) \notin VendorName
  BY <1>1, NextVendorWrite
<1> DEFINE k == Copied
           l == VendorLayout
<1>6. k \in -1..(VendorSections - 1)
  BY <1>1, <1>4, <1>5
<1>7. k >= 0 => Built(l, vendor, k)
  BY <1>4, <1>6, <1>2 DEF VendorProgress
<1>8. (k < 2 => at["dtb"] = 0) /\ (k < VendorSections => at["bootconfig"] = 0)
  BY <1>2 DEF VendorUnread
<1>9. "dtb" \in Input /\ "bootconfig" \in Input
  BY DEF Input
<1>10. ASSUME k = -1
       PROVE  Built(l, vendor', k + 1) /\ at' = at
  <2>1. Head(todo) = "vendor_header"
    BY <1>5, <1>10
  <2> DEFINE f == [i \in 1..VendorHeader.size |-> << "vendor_header", VendorHeader >>]
             n == VendorHeaderSize[cmd.version]
  <2>2. vendor' = Padded(f, cmd.pagesize)
    BY <1>1, <2>1 DEF VendorWritten
  <2>5. n \in Nat \ {0}
    <3> DEFINE v == cmd.version
               P == cmd.pagesize
    <3>1. v \in {3, 4} /\ P \in Nat \ {0}
      BY <1>2, <1>4, VendorCommand
    <3> HIDE DEF v, P
    <3>2. VendorHeaderSize[v] \in Nat \ {0}
      BY <3>1, HeaderSizeIs
    <3> QED
      BY <3>2 DEF v
  <2>6. f = [i \in 1..n |-> l.header]
    BY <1>3 DEF VendorHeader
  <2>7. f \in Seq(BootCell(l)) /\ Len(f) = n /\ f # << >> /\ f[1] = l.header
    <3> DEFINE x == l.header
               S == BootCell(l)
    <3>1. x \in S
      BY DEF BootCell
    <3> HIDE DEF x, S, n, l, f
    <3>2. f = [i \in 1..n |-> x]
      BY <2>6 DEF x
    <3> QED
      BY <2>5, <3>1, <3>2 DEF x, S
  <2>8. Pages(Len(f), l.page) = l.first
    BY <1>3, <2>7
  <2>3. Built(l, Padded(f, l.page), 0)
    <3> HIDE DEF f, l
    <3>1. IsLayout(l)
      BY <1>3 DEF l
    <3> QED
      BY <2>7, <2>8, <3>1, HeaderBuilt
  <2>4. at' = at
    BY <1>1, <2>1
  <2> QED
    BY <1>3, <1>10, <2>2, <2>3, <2>4
<1>11. ASSUME k = 0
       PROVE  Built(l, vendor', k + 1) /\ at' = at
  <2>1. vendor' = Padded(vendor \o l.part[1], l.page) /\ at' = at
    <3>1. CASE cmd.version = 3
      <4>1. Head(todo) = "vendor_ramdisk"
        BY <1>5, <1>11, <3>1
      <4>2. vendor' = Padded(vendor \o cmd.vendor_ramdisk, cmd.pagesize) /\ at' = at
        BY <1>1, <4>1 DEF VendorWritten
      <4> QED
        BY <1>3, <3>1, <4>2
    <3>2. CASE cmd.version = 4
      <4>1. Head(todo) = "vendor_ramdisks"
        BY <1>5, <1>11, <3>2
      <4>2. vendor' = Padded(vendor \o Ramdisks, cmd.pagesize) /\ at' = at
        BY <1>1, <4>1 DEF VendorWritten, Ramdisks
      <4> QED
        BY <1>3, <3>2, <4>2
    <3> QED
      BY <1>4, <3>1, <3>2
  <2> DEFINE z == 0
  <2>2. z \in 0..4 /\ Built(l, vendor, z) /\ vendor' = Padded(vendor \o l.part[z + 1], l.page)
    BY <1>7, <1>11, <2>1
  <2> HIDE DEF z, l
  <2>3. Built(l, Padded(vendor \o l.part[z + 1], l.page), z + 1)
    BY <1>3, <2>2, SectionBuilt DEF l
  <2> QED
    BY <1>11, <2>1, <2>2, <2>3 DEF z
<1>12. ASSUME k = 1
       PROVE  Built(l, vendor', k + 1) /\ at' = Consumed("dtb")
  <2>1. Head(todo) = "vendor_dtb"
    BY <1>4, <1>5, <1>12
  <2>2. vendor' = Section(vendor, "dtb", cmd.pagesize) /\ at' = Consumed("dtb")
    BY <1>1, <2>1 DEF VendorWritten
  <2> DEFINE z == 1
  <2>3. z \in 0..4 /\ Built(VendorLayout, vendor, z) /\ VendorLayout.part[z + 1] = Given("dtb")
        /\ at["dtb"] = 0
    BY <1>3, <1>7, <1>8, <1>12
  <2> HIDE DEF z
  <2>4. Built(VendorLayout, Section(vendor, "dtb", cmd.pagesize), z + 1)
    BY <1>2, <1>9, <2>3, VendorSectionIs
  <2> QED
    BY <1>12, <2>2, <2>4 DEF z
<1>13. ASSUME k = 2
       PROVE  Built(l, vendor', k + 1) /\ at' = at
  <2>1. cmd.version = 4
    BY <1>4, <1>6, <1>13
  <2>2. Head(todo) = "vendor_table"
    BY <1>5, <1>13, <2>1
  <2>3. vendor' = Padded(vendor \o TableSection, cmd.pagesize) /\ at' = at
    BY <1>1, <2>2 DEF VendorWritten, TableSection
  <2> DEFINE z == 2
  <2>4. z \in 0..4 /\ Built(l, vendor, z) /\ vendor' = Padded(vendor \o l.part[z + 1], l.page)
    BY <1>3, <1>7, <1>13, <2>1, <2>3
  <2> HIDE DEF z, l
  <2>5. Built(l, Padded(vendor \o l.part[z + 1], l.page), z + 1)
    BY <1>3, <2>4, SectionBuilt DEF l
  <2> QED
    BY <1>13, <2>3, <2>4, <2>5 DEF z
<1>14. ASSUME k = 3
       PROVE  Built(l, vendor', k + 1)
  <2>1. cmd.version = 4
    BY <1>4, <1>6, <1>14
  <2>2. Head(todo) = "bootconfig"
    BY <1>5, <1>14, <2>1
  <2>3. vendor' = Section(vendor, "bootconfig", cmd.pagesize)
    BY <1>1, <2>2 DEF VendorWritten
  <2> DEFINE z == 3
  <2>4. z \in 0..4 /\ Built(VendorLayout, vendor, z)
        /\ VendorLayout.part[z + 1] = Given("bootconfig") /\ at["bootconfig"] = 0
    BY <1>3, <1>4, <1>7, <1>8, <1>14, <2>1
  <2> HIDE DEF z
  <2>5. Built(VendorLayout, Section(vendor, "bootconfig", cmd.pagesize), z + 1)
    BY <1>2, <1>9, <2>4, VendorSectionIs
  <2> QED
    BY <1>14, <2>3, <2>5 DEF z
<1>15. k \in {-1, 0, 1, 2, 3}
  BY <1>4, <1>6
<1>16. Built(l, vendor', k + 1)
  BY <1>10, <1>11, <1>12, <1>13, <1>14, <1>15
<1>17. k + 1 < 2 => at'["dtb"] = 0
  BY <1>8, <1>10, <1>11, <1>15
<1>18. k + 1 < VendorSections => at'["bootconfig"] = 0
  <2>1. SUFFICES ASSUME k + 1 < VendorSections PROVE at'["bootconfig"] = 0
    OBVIOUS
  <2>2. k \in {-1, 0, 1, 2} /\ at["bootconfig"] = 0
    BY <1>4, <1>8, <1>15, <2>1
  <2>3. at' = at \/ at' = Consumed("dtb")
    BY <1>10, <1>11, <1>12, <1>13, <2>2
  <2>4. Consumed("dtb")["bootconfig"] = at["bootconfig"]
    BY <1>2, <1>9 DEF Consumed
  <2> QED
    BY <2>2, <2>3, <2>4
<1> QED
  BY <1>6, <1>16, <1>17, <1>18

LEMMA VendorImageStep ==
  ASSUME VendorInv, cmd.vendor_boot, Write, WriteVendor
  PROVE  (WritesLeft /\ VendorProgress /\ VendorUnread)'
<1>1. /\ pc = "write" /\ todo # << >> /\ cmd' = cmd /\ table' = table /\ todo' = Tail(todo)
  BY DEF Write, WriteVendor
<1>2. WritesLeft' /\ Copied' = Copied + 1
  BY <1>1, NextIsCopied
<1>3. VendorLayout' = VendorLayout /\ VendorSections' = VendorSections
  BY <1>1, VendorStays
<1>4. /\ Copied \in -1..(VendorSections - 1)
      /\ Built(VendorLayout, vendor', Copied + 1)
      /\ Copied + 1 < 2 => at'["dtb"] = 0
      /\ Copied + 1 < VendorSections => at'["bootconfig"] = 0
  BY VendorGrows
<1>5. VendorSections \in {2, 4}
  BY <1>1, VendorCommand DEF VendorInv
<1>6. VendorProgress'
  <2>1. Built(VendorLayout, vendor, Copied)' /\ ~(Copied' > VendorSections')
    BY <1>2, <1>3, <1>4, <1>5
  <2> QED
    BY <2>1 DEF VendorProgress
<1>7. VendorUnread'
  BY <1>2, <1>3, <1>4 DEF VendorUnread
<1> QED
  BY <1>2, <1>6, <1>7

(* The boot image is written when the vendor_boot image is complete.       *)
LEMMA OtherImageStep ==
  ASSUME VendorInv, cmd.vendor_boot, Write, vendor' = vendor, todo' = Tail(todo),
         Head(todo) \notin VendorName
  PROVE  (WritesLeft /\ VendorProgress /\ VendorUnread)'
<1>1. /\ pc = "write" /\ todo # << >> /\ cmd' = cmd /\ table' = table
  BY DEF Write
<1>2. WritesLeft' /\ Copied' = Copied + 1
  BY <1>1, NextIsCopied
<1>3. VendorLayout' = VendorLayout /\ VendorSections' = VendorSections
  BY <1>1, VendorStays
<1>4. VendorSections \in {2, 4} /\ cmd.version \in {3, 4}
      /\ (VendorSections = 4 <=> cmd.version = 4)
  BY <1>1, VendorCommand DEF VendorInv
<1>5. Copied \in Int /\ Copied >= VendorSections
  <2>1. /\ Copied \in Int /\ Copied >= -1
        /\ Copied = -1 => Head(todo) = "vendor_header"
        /\ cmd.version = 4 => /\ Copied = 0 => Head(todo) = "vendor_ramdisks"
                              /\ Copied = 1 => Head(todo) = "vendor_dtb"
                              /\ Copied = 2 => Head(todo) = "vendor_table"
                              /\ Copied = 3 => Head(todo) = "bootconfig"
        /\ cmd.version = 3 => /\ Copied = 0 => Head(todo) = "vendor_ramdisk"
                              /\ Copied = 1 => Head(todo) = "vendor_dtb"
    BY <1>1, NextVendorWrite
  <2>2. /\ "vendor_header" \in VendorName /\ "vendor_ramdisk" \in VendorName
        /\ "vendor_ramdisks" \in VendorName /\ "vendor_dtb" \in VendorName
        /\ "vendor_table" \in VendorName /\ "bootconfig" \in VendorName
    BY DEF VendorName
  <2>3. Copied # -1
    BY <2>1, <2>2
  <2>4. CASE cmd.version = 4
    <3>1. Copied # 0 /\ Copied # 1 /\ Copied # 2 /\ Copied # 3
      BY <2>1, <2>2, <2>4
    <3> QED
      BY <1>4, <2>1, <2>3, <2>4, <3>1
  <2>5. CASE cmd.version = 3
    <3>1. Copied # 0 /\ Copied # 1
      BY <2>1, <2>2, <2>5
    <3> QED
      BY <1>4, <2>1, <2>3, <2>5, <3>1
  <2> QED
    BY <1>4, <2>4, <2>5
<1>6. Built(VendorLayout, vendor, VendorSections)
  <2>1. VendorProgress
    BY <1>1 DEF VendorInv
  <2>2. CASE Copied = VendorSections
    BY <1>4, <2>1, <2>2 DEF VendorProgress
  <2>3. CASE Copied > VendorSections
    BY <2>1, <2>3 DEF VendorProgress
  <2> QED
    BY <1>4, <1>5, <2>2, <2>3
<1>7. Copied' > VendorSections' /\ Copied' \notin 0..VendorSections' /\ ~(Copied' < 2)
      /\ ~(Copied' < VendorSections')
  BY <1>2, <1>3, <1>4, <1>5
<1>8. VendorProgress'
  <2>1. Built(VendorLayout, vendor, VendorSections)'
    BY <1>3, <1>6
  <2> QED
    BY <1>7, <2>1 DEF VendorProgress
<1>9. VendorUnread'
  BY <1>7 DEF VendorUnread
<1> QED
  BY <1>2, <1>8, <1>9

LEMMA VendorInvStep ==
  ASSUME VendorInv, [BuildNext]_build
  PROVE  VendorInv'
<1>1. /\ cmd' = cmd /\ cmd' \in BuildCommand /\ DOMAIN at' = Input
      /\ pc' \in {"parse", "write", "done", "failed"}
      /\ pc' = "parse" => at' = [i \in Input |-> 0]
      /\ pc' = "done" => todo' = << >>
  BY VendorControl
<1> DEFINE TableOk == table = IF cmd.version > 3 THEN RamdiskTable(cmd) ELSE << >>
<1>2. SUFFICES ASSUME cmd.vendor_boot, pc' \in {"write", "done"}
               PROVE  (Parsed(cmd) /\ WritesLeft /\ TableOk /\ VendorProgress /\ VendorUnread)'
  BY <1>1 DEF VendorInv
<1>3. ASSUME UNCHANGED << cmd, at, table, todo, vendor >>, pc \in {"write", "done"}
      PROVE  (Parsed(cmd) /\ WritesLeft /\ TableOk /\ VendorProgress /\ VendorUnread)'
  <2>1. Parsed(cmd) /\ WritesLeft /\ TableOk /\ VendorProgress /\ VendorUnread
    BY <1>2, <1>3 DEF VendorInv
  <2>2. cmd' = cmd /\ at' = at /\ table' = table /\ todo' = todo /\ vendor' = vendor
    BY <1>3
  <2>3. VendorLayout' = VendorLayout /\ VendorSections' = VendorSections
    BY <2>2, VendorStays
  <2>4. Writes' = Writes /\ Copied' = Copied
    BY <2>2 DEF Writes, Copied
  <2>5. WritesLeft'
    BY <2>1, <2>2, <2>4 DEF WritesLeft
  <2>6. VendorProgress'
    BY <2>1, <2>2, <2>3, <2>4 DEF VendorProgress
  <2>7. VendorUnread'
    BY <2>1, <2>2, <2>3, <2>4 DEF VendorUnread
  <2> QED
    BY <2>1, <2>2, <2>5, <2>6, <2>7
<1>4. CASE UNCHANGED build
  BY <1>2, <1>3, <1>4 DEF build
<1>5. CASE Start
  <2>1. pc' = "write"
    BY <1>2, <1>5 DEF Start
  <2> QED
    BY <1>2, <1>5, <2>1, VendorStarts
<1>6. CASE Finish
  BY <1>2, <1>3, <1>6 DEF Finish
<1>7. CASE Write
  <2>1. pc = "write" /\ cmd' = cmd /\ table' = table
    BY <1>7 DEF Write
  <2>2. (Parsed(cmd) /\ TableOk)'
    <3>1. Parsed(cmd) /\ TableOk
      BY <1>2, <2>1 DEF VendorInv
    <3> QED
      BY <2>1, <3>1
  <2>3. pc' = "write"
    BY <1>2, <1>7, <2>1 DEF Write, WriteHeader, WriteSection, WriteSignature, WriteVendor
  <2>4. CASE WriteVendor
    BY <1>2, <1>7, <2>2, <2>4, VendorImageStep
  <2>5. ASSUME WriteHeader \/ WriteSection \/ WriteSignature
        PROVE  vendor' = vendor /\ todo' = Tail(todo) /\ Head(todo) \notin VendorName
    <3>1. CASE WriteHeader
      BY <2>3, <3>1 DEF WriteHeader, VendorName
    <3>2. CASE WriteSection
      BY <3>2 DEF WriteSection, VendorName
    <3>3. CASE WriteSignature
      BY <2>3, <3>3 DEF WriteSignature, VendorName
    <3> QED
      BY <2>5, <3>1, <3>2, <3>3
  <2>6. CASE WriteHeader \/ WriteSection \/ WriteSignature
    <3>1. (WritesLeft /\ VendorProgress /\ VendorUnread)'
      BY <1>2, <1>7, <2>5, <2>6, OtherImageStep
    <3> QED
      BY <2>2, <3>1
  <2> QED
    BY <1>7, <2>4, <2>6 DEF Write
<1> QED
  BY <1>4, <1>5, <1>6, <1>7 DEF BuildNext

LEMMA VendorInvHolds == BuildSpec => []VendorInv
<1>1. BuildInit => VendorInv
  BY DEF BuildInit, VendorInv
<1>2. VendorInv /\ [BuildNext]_build => VendorInv'
  BY VendorInvStep
<1> QED
  BY <1>1, <1>2, PTL DEF BuildSpec

-----------------------------------------------------------------------------
(* A finished vendor_boot image.                                           *)

LEMMA LoadsPart ==
  ASSUME NEW l, NEW k, NEW b, NEW j, NEW offset, NEW n,
         IsLayout(l), k \in 1..5, Built(l, b, k), j \in 1..k,
         offset = l.page * FirstPage(l, j), n = Len(l.part[j])
  PROVE  LoadsAt(b, offset, n, l.part[j])
<1> DEFINE P == l.page
           q == FirstPage(l, j)
           w == PagesOf(l, j)
           z == FirstPage(l, k + 1)
<1>1. Len(b) = P * z /\ SectionOf(l, b, j) = l.part[j]
  BY DEF Built
<1>2. /\ P \in Nat \ {0} /\ q \in Nat /\ w \in Nat /\ z \in Nat /\ n \in Nat
      /\ n <= P * w /\ q + w <= z
  <2>1. j \in 1..5 /\ j \in 1..6 /\ k + 1 \in 1..6 /\ j < k + 1
    OBVIOUS
  <2>2. FirstPage(l, j) + PagesOf(l, j) <= FirstPage(l, k + 1)
    BY <2>1, PlacesInOrder
  <2>3. q \in Nat /\ w \in Nat /\ Len(l.part[j]) \in Nat
        /\ Len(l.part[j]) <= l.page * PagesOf(l, j) /\ z \in Nat
    BY <2>1, Places
  <2> QED
    BY <2>2, <2>3 DEF IsLayout
<1>3. SectionOf(l, b, j) = SubSeq(b, offset + 1, offset + n)
  BY DEF SectionOf
<1>4. offset = P * q
  OBVIOUS
<1> HIDE DEF P, q, w, z
<1>5. offset \in Nat /\ offset + n <= Len(b) /\ offset + n \in Nat /\ Len(b) \in Nat
  <2> DEFINE x == P * q
             y == P * w
             v == P * z
  <2>1. P * (q + w) <= P * z
    BY <1>2
  <2>2. P * (q + w) = P * q + P * w
    BY <1>2
  <2>3. x \in Nat /\ y \in Nat /\ v \in Nat
    BY <1>2
  <2>4. x + y <= v /\ n <= y /\ Len(b) = v /\ offset = x
    BY <1>1, <1>2, <1>4, <2>1, <2>2
  <2> HIDE DEF x, y, v
  <2> QED
    BY <1>2, <2>3, <2>4
<1>6. (IF offset + n < Len(b) THEN offset + n ELSE Len(b)) = offset + n
  BY <1>5
<1> QED
  BY <1>1, <1>2, <1>3, <1>5, <1>6 DEF ReadAt, LoadsAt

(* What is at a place inside a section.                                    *)
IsIn(c, d, a) ==
  /\ a \in Nat /\ a + Len(c) <= Len(d)
  /\ \A j \in 1..Len(c) : d[a + j] = c[j]

LEMMA ReadInside ==
  ASSUME NEW T, NEW b, NEW S, NEW d, NEW c, NEW o, NEW a,
         b \in Seq(T), d \in Seq(S), c \in Seq(S),
         LoadsAt(b, o, Len(d), d), IsIn(c, d, a)
  PROVE  ReadAt(b, o + a, Len(c)) = c
<1> DEFINE n == Len(d)
           m == Len(c)
           p == o + a
           x == SubSeq(b, p + 1, p + m)
<1>1. n \in Nat /\ m \in Nat /\ Len(b) \in Nat /\ p \in Nat /\ p + m <= Len(b)
      /\ o \in Nat /\ a \in Nat /\ o + n <= Len(b) /\ a + m <= n
      /\ SubSeq(b, o + 1, o + n) = d /\ \A j \in 1..m : d[a + j] = c[j]
  BY DEF LoadsAt, IsIn
<1>2. \A j \in 1..n : d[j] = b[o + j]
  <2> DEFINE y == SubSeq(b, o + 1, o + n)
  <2>1. y = d
    BY <1>1
  <2>2. \A j \in 1..n : y[j] = b[o + j]
    <3> HIDE DEF n, m, p
    <3> QED
      BY <1>1, SMTT(30)
  <2> HIDE DEF y
  <2> QED
    BY <2>1, <2>2
<1>7. m \in Nat /\ Len(b) \in Nat /\ p \in Nat /\ p + m <= Len(b)
  BY <1>1
<1> HIDE DEF n, m, p
<1>3. x \in Seq(T) /\ Len(x) = m /\ \A j \in 1..m : x[j] = b[p + j]
  <2>1. /\ x \in Seq(T)
        /\ Len(x) = IF p + 1 <= p + m THEN (p + m) - (p + 1) + 1 ELSE 0
        /\ \A i \in 1..((p + m) - (p + 1) + 1) : x[i] = b[(p + 1) + i - 1]
    <3> DEFINE u == p + 1
               v == p + m
    <3>1. u \in 1..(Len(b) + 1) /\ v \in (u - 1)..Len(b)
      BY <1>1
    <3> HIDE DEF u, v
    <3>2. /\ SubSeq(b, u, v) \in Seq(T)
          /\ Len(SubSeq(b, u, v)) = IF u <= v THEN v - u + 1 ELSE 0
          /\ \A i \in 1..(v - u + 1) : SubSeq(b, u, v)[i] = b[u + i - 1]
      BY <3>1, SubSeqProperties
    <3> QED
      BY <3>2 DEF u, v
  <2> HIDE DEF x
  <2> QED
    BY <1>7, <2>1
<1> HIDE DEF x
<1>4. \A j \in 1..m : x[j] = c[j]
  <2> TAKE j \in 1..m
  <2>1. a + j \in 1..n /\ p + j = o + (a + j)
    <3>1. a \in Nat /\ o \in Nat /\ j \in Nat /\ n \in Nat /\ m \in Nat /\ a + m <= n /\ p = o + a
      BY <1>1 DEF p
    <3>2. a + j \in 1..n
      BY <3>1
    <3>3. p + j = o + (a + j)
      BY <3>1
    <3> QED
      BY <3>2, <3>3
  <2>2. d[a + j] = b[o + (a + j)]
    BY <1>2, <2>1
  <2> QED
    BY <1>1, <1>3, <2>1, <2>2
<1>5. x = c
  <2>1. x \in Seq(S \cup T) /\ c \in Seq(S \cup T)
    BY <1>3, SeqMonotonic
  <2> QED
    BY <1>3, <1>4, <2>1, SeqEqual DEF m
<1>6. (IF p + m < Len(b) THEN p + m ELSE Len(b)) = p + m
  BY <1>7
<1> QED
  BY <1>5, <1>6 DEF ReadAt, x, p, m

LEMMA VendorFinished ==
  ASSUME VendorInv, pc = "done", cmd.vendor_boot
  PROVE  Built(VendorLayout, vendor, VendorSections)
<1>1. cmd \in BuildCommand /\ Parsed(cmd) /\ todo = << >> /\ VendorProgress
  BY DEF VendorInv
<1>2. VendorSections \in {2, 4}
  BY <1>1, VendorCommand
<1>3. Len(Writes) \in Nat /\ VendorSections + 1 <= Len(Writes)
  BY <1>1, VendorWritesAre
<1>4. Copied = Len(Writes) - 1
  <2>1. Len(todo) = 0
    BY <1>1
  <2> QED
    BY <1>3, <2>1 DEF Copied
<1>5. Copied \in Int /\ Copied >= VendorSections
  BY <1>2, <1>3, <1>4
<1>6. CASE Copied = VendorSections
  BY <1>1, <1>2, <1>6 DEF VendorProgress
<1>7. CASE Copied > VendorSections
  BY <1>1, <1>7 DEF VendorProgress
<1> QED
  BY <1>2, <1>5, <1>6, <1>7

(* The table and the ramdisks go together.                                 *)
LEMMA VendorTable ==
  ASSUME cmd \in BuildCommand, table = RamdiskTable(cmd)
  PROVE  /\ Len(table) = Len(Fragments(cmd)) /\ Len(table) \in Nat
         /\ \E s : /\ Sums(s, table, Len(table))
                   /\ FlatIs(Ramdisks, table, s, Len(table))
                   /\ TotalSize(table) = s[Len(table)]
                   /\ \A i \in 1..Len(table) : table[i] = RowOf(Fragments(cmd)[i], s[i - 1])
<1> DEFINE F == Fragments(cmd)
           n == Len(F)
<1>1. F \in Seq(Fragment) /\ n \in Nat
  BY FragmentsAre
<1>2. PICK s : Sums(s, F, n)
  BY <1>1, SumsExist
<1>3. table = RowsOf(F, s, n)
  BY <1>2, TableIs
<1>4. n \in 0..Len(F) /\ Sums(s, F, Len(F))
  BY <1>1, <1>2
<1> HIDE DEF F, n
<1>5. /\ table \in Seq(TableRow) /\ Len(table) = n
      /\ \A i \in 1..n : table[i] = RowOf(F[i], s[i - 1])
  BY <1>1, <1>3, <1>4, RowsAre
<1>6. TotalSize(table) = s[n]
  BY <1>1, <1>3, <1>4, TotalOfRows
<1>7. Sums(s, table, n)
  <2>1. \A i \in 1..n : table[i].cells = F[i].cells
    BY <1>5 DEF RowOf
  <2>2. ASSUME NEW k \in 0..n
        PROVE  s[k] = IF k = 0 THEN 0 ELSE s[k - 1] + Len(table[k].cells)
    <3>1. s[k] = IF k = 0 THEN 0 ELSE s[k - 1] + Len(F[k].cells)
      BY <1>2, <2>2 DEF Sums
    <3>2. CASE k = 0
      BY <3>1, <3>2
    <3>3. CASE k # 0
      <4>1. k \in 1..n
        BY <1>1, <3>3
      <4> QED
        BY <2>1, <3>1, <3>3, <4>1
    <3> QED
      BY <3>2, <3>3
  <2> QED
    BY <2>2 DEF Sums
<1>8. FlatIs(Ramdisks, table, s, n)
  BY <1>5, <1>7, FlattenIs DEF Ramdisks
<1> QED
  BY <1>1, <1>5, <1>6, <1>7, <1>8 DEF F, n

(* Where the loader looks in a vendor_boot image.                          *)
LEMMA VendorPlaces ==
  ASSUME VendorInv, pc = "done", cmd.vendor_boot, NEW h, h = vendor[1][2]
  PROVE  /\ h = VendorHeader /\ h.page = cmd.pagesize
         /\ h.page * (Pages(h.size, h.page) + Pages(h.ramdisk, h.page)) = cmd.pagesize * FirstPage(VendorLayout, 2)
         /\ cmd.version = 4 =>
              /\ h.page * (Pages(h.size, h.page) + Pages(h.ramdisk, h.page) + Pages(h.dtb, h.page))
                   = cmd.pagesize * FirstPage(VendorLayout, 3)
              /\ h.page * (Pages(h.size, h.page) + Pages(h.ramdisk, h.page) + Pages(h.dtb, h.page)
                             + Pages(h.entries, h.page))
                   = cmd.pagesize * FirstPage(VendorLayout, 4)
              /\ h.ramdisk = Len(Ramdisks) /\ h.entries = Len(table)
              /\ h.bootconfig = Len(Given("bootconfig"))
         /\ cmd.version = 3 => h.ramdisk = Len(cmd.vendor_ramdisk)
         /\ h.dtb = Len(Given("dtb"))
         /\ h.page * Pages(h.size, h.page) = cmd.pagesize * FirstPage(VendorLayout, 1)
<1> DEFINE l == VendorLayout
           P == cmd.pagesize
<1>1. /\ cmd \in BuildCommand /\ Parsed(cmd)
      /\ table = IF cmd.version > 3 THEN RamdiskTable(cmd) ELSE << >>
  BY DEF VendorInv
<1>2. /\ IsLayout(l) /\ l.page = P /\ l.header = << "vendor_header", VendorHeader >>
      /\ l.first = Pages(VendorHeaderSize[cmd.version], P)
      /\ l.part[2] = Given("dtb")
      /\ cmd.version = 3 => l.part[1] = cmd.vendor_ramdisk
      /\ cmd.version = 4 => /\ l.part[1] = Ramdisks
                            /\ l.part[3] = TableSection
                            /\ l.part[4] = Given("bootconfig")
  BY <1>1, VendorLayoutIs
<1>3. cmd.version \in {3, 4} /\ P \in Nat \ {0} /\ (cmd.version = 3 => cmd.vendor_ramdisk \in Seq(Cell))
  BY <1>1, VendorCommand
<1>4. vendor[1] = << "vendor_header", VendorHeader >>
  BY <1>2, VendorFinished DEF Built
<1>5. h = VendorHeader
  BY <1>4
<1>6. /\ h.page = P /\ h.size = VendorHeaderSize[cmd.version] /\ h.entries = Len(table)
      /\ h.ramdisk = (IF cmd.version > 3 THEN TotalSize(table) ELSE FileSize(cmd.vendor_ramdisk))
      /\ h.dtb = FileSize(cmd.file["dtb"])
      /\ h.bootconfig = (IF cmd.version > 3 THEN FileSize(cmd.file["bootconfig"]) ELSE 0)
  BY <1>5 DEF VendorHeader
<1>7. \A i \in Input : FileSize(cmd.file[i]) = Len(Given(i))
  BY DEF FileSize, Given
<1>8. h.dtb = Len(Given("dtb")) /\ (cmd.version = 4 => h.bootconfig = Len(Given("bootconfig")))
  <2>1. "dtb" \in Input /\ "bootconfig" \in Input
    BY DEF Input
  <2> QED
    BY <1>6, <1>7, <2>1
<1>9. ASSUME cmd.version = 4
      PROVE  /\ h.ramdisk = Len(Ramdisks) /\ Len(TableSection) = Len(table)
  <2>1. table = RamdiskTable(cmd)
    BY <1>1, <1>9
  <2>2. PICK s : FlatIs(Ramdisks, table, s, Len(table)) /\ TotalSize(table) = s[Len(table)]
    BY <1>1, <2>1, VendorTable
  <2>3. Len(Ramdisks) = TotalSize(table)
    BY <2>2 DEF FlatIs
  <2>4. Len(TableSection) = Len(table)
    <3>1. table \in Seq(TableRow)
      BY <1>1, TableTyped
    <3>2. Len(table) \in Nat /\ DOMAIN table = 1..Len(table)
      BY <3>1
    <3> QED
      BY <3>2 DEF TableSection
  <2> QED
    BY <1>6, <1>9, <2>3, <2>4
<1>10. cmd.version = 3 => h.ramdisk = Len(cmd.vendor_ramdisk)
  <2>1. cmd.version = 3 => cmd.vendor_ramdisk # Absent
    BY <1>1 DEF Parsed
  <2> QED
    BY <1>6, <2>1 DEF FileSize
<1>11. /\ \A k \in 1..5 : PagesOf(l, k) \in Nat
       /\ FirstPage(l, 1) = l.first /\ l.first \in Nat
       /\ FirstPage(l, 2) = l.first + PagesOf(l, 1)
       /\ FirstPage(l, 3) = l.first + PagesOf(l, 1) + PagesOf(l, 2)
       /\ FirstPage(l, 4) = l.first + PagesOf(l, 1) + PagesOf(l, 2) + PagesOf(l, 3)
  <2>1. PagesOf(l, 1) \in Nat /\ PagesOf(l, 2) \in Nat /\ PagesOf(l, 3) \in Nat
        /\ \A k \in 1..5 : PagesOf(l, k) \in Nat
    <3>1. \A k \in 1..5 : PagesOf(l, k) \in Nat
      BY <1>2, Places
    <3> QED
      BY <3>1
  <2>2. l.first \in Nat
    BY <1>2 DEF IsLayout
  <2> HIDE DEF l
  <2> QED
    BY <2>1, <2>2 DEF FirstPage
<1>12. PagesOf(l, 1) = Pages(h.ramdisk, P) /\ PagesOf(l, 2) = Pages(h.dtb, P)
  <2>1. h.ramdisk = Len(l.part[1]) /\ h.dtb = Len(l.part[2])
    BY <1>2, <1>3, <1>8, <1>9, <1>10
  <2> QED
    BY <1>2, <2>1 DEF PagesOf
<1>13. cmd.version = 4 => PagesOf(l, 3) = Pages(h.entries, P)
  BY <1>2, <1>6, <1>9 DEF PagesOf
<1>14. l.first = Pages(h.size, P)
  BY <1>2, <1>6
<1> HIDE DEF l, P
<1> QED
  BY <1>3, <1>5, <1>6, <1>8, <1>9, <1>10, <1>11, <1>12, <1>13, <1>14 DEF l, P

(* A fragment, by its entry in the table.                                  *)
LEMMA FindsFragment ==
  ASSUME VendorInv, pc = "done", cmd.vendor_boot, cmd.version = 4, NEW i,
         i \in 1..Len(table), NEW e,
         e = vendor[cmd.pagesize * FirstPage(VendorLayout, 3) + i][2]
  PROVE  /\ e.name = Fragments(cmd)[i].name /\ e.type = Fragments(cmd)[i].type
         /\ ReadAt(vendor, cmd.pagesize * FirstPage(VendorLayout, 1) + e.offset, e.size) = Fragments(cmd)[i].cells
<1> DEFINE l == VendorLayout
           P == cmd.pagesize
           F == Fragments(cmd)
           n == Len(table)
<1>1. cmd \in BuildCommand /\ Parsed(cmd) /\ table = RamdiskTable(cmd)
      /\ table = IF cmd.version > 3 THEN RamdiskTable(cmd) ELSE << >>
  BY DEF VendorInv
<1>2. /\ IsLayout(l) /\ l.page = P /\ l.part[1] = Ramdisks /\ l.part[3] = TableSection
  BY <1>1, VendorLayoutIs
<1>3. Built(l, vendor, 4)
  BY <1>1, VendorFinished, VendorCommand
<1>4. PICK s : /\ Sums(s, table, n) /\ FlatIs(Ramdisks, table, s, n)
               /\ \A k \in 1..n : table[k] = RowOf(F[k], s[k - 1])
  BY <1>1, VendorTable
<1>5. n \in Nat /\ n = Len(F) /\ F \in Seq(Fragment) /\ table \in Seq(TableRow)
  BY <1>1, VendorTable, FragmentsAre, TableTyped
<1>6. table[i] = RowOf(F[i], s[i - 1])
  BY <1>4
<1>7. /\ table[i].name = F[i].name /\ table[i].type = F[i].type
      /\ table[i].offset = s[i - 1] /\ table[i].cells = F[i].cells
  BY <1>6 DEF RowOf
<1>8. Len(TableSection) = n /\ TableSection[i] = TableEntry(table[i])
  <2>1. DOMAIN table = 1..n
    BY <1>5
  <2> QED
    BY <1>5, <2>1 DEF TableSection
<1>9. vendor[P * FirstPage(l, 3) + i] = TableEntry(table[i])
  <2> DEFINE o == P * FirstPage(l, 3)
             j == 3
             k == 4
             x == SubSeq(vendor, o + 1, o + n)
             T == BootCell(l)
  <2>1. k \in 1..5 /\ j \in 1..k /\ o = l.page * FirstPage(l, j) /\ n = Len(l.part[j])
        /\ Built(l, vendor, k)
    BY <1>2, <1>3, <1>8
  <2> HIDE DEF k, n, l
  <2>2. /\ o \in Nat /\ n \in Nat /\ o + n <= Len(vendor)
        /\ SubSeq(vendor, o + 1, o + n) = l.part[j]
    <3> HIDE DEF j, o
    <3>1. LoadsAt(vendor, o, n, l.part[j])
      BY <1>2, <2>1, LoadsPart, Zenon
    <3> QED
      BY <3>1 DEF LoadsAt
  <2>3. vendor \in Seq(T)
    BY <1>3 DEF Built
  <2> HIDE DEF o, T
  <2>4. \A q \in 1..n : x[q] = vendor[o + q]
    <3> DEFINE u == o + 1
               v == o + n
    <3>1. u \in Int /\ v \in Int /\ \A q \in u..v : vendor[q] \in T
      BY <2>2, <2>3
    <3> HIDE DEF u, v
    <3>2. \A q \in 1..((v - u) + 1) : SubSeq(vendor, u, v)[q] = vendor[(u + q) - 1]
      BY <3>1, SubSeqProperties
    <3>3. (v - u) + 1 = n /\ \A q \in 1..n : (u + q) - 1 = o + q
      BY <2>2 DEF u, v
    <3> QED
      BY <3>2, <3>3 DEF u, v
  <2>5. x = TableSection
    BY <1>2, <2>2
  <2> HIDE DEF x
  <2>6. x[i] = vendor[o + i]
    BY <2>4 DEF n
  <2> QED
    BY <1>8, <2>5, <2>6 DEF o, l
<1>10. /\ e.name = F[i].name /\ e.type = F[i].type
       /\ e.offset = s[i - 1] /\ e.size = Len(F[i].cells)
  <2>1. e = [name |-> table[i].name, type |-> table[i].type, offset |-> table[i].offset,
             size |-> Len(table[i].cells)]
    BY <1>9 DEF TableEntry
  <2> QED
    BY <1>7, <2>1
<1>11. ReadAt(vendor, P * FirstPage(l, 1) + s[i - 1], Len(F[i].cells)) = F[i].cells
  <2> DEFINE d == Ramdisks
             c == F[i].cells
             j == 1
             k == 4
             a == s[i - 1]
             m == Len(c)
             o == P * FirstPage(l, 1)
  <2>1. d \in Seq(Cell) /\ Len(d) = s[n]
        /\ \A q \in 1..Len(table[i].cells) : d[s[i - 1] + q] = table[i].cells[q]
    BY <1>4 DEF FlatIs
  <2>2. k \in 1..5 /\ j \in 1..k /\ d = l.part[j] /\ Built(l, vendor, k)
    BY <1>2, <1>3
  <2>4. o = l.page * FirstPage(l, j)
    BY <1>2
  <2>5. LoadsAt(vendor, o, Len(d), d)
    <3> DEFINE nn == Len(d)
    <3>1. nn = Len(l.part[j])
      BY <2>2
    <3> HIDE DEF j, k, d, nn, o, P, l
    <3>2. LoadsAt(vendor, o, nn, l.part[j])
      BY <1>2, <2>2, <2>4, <3>1, LoadsPart, Zenon
    <3> QED
      BY <2>2, <3>2 DEF nn
  <2>6. vendor \in Seq(BootCell(l))
    BY <1>3 DEF Built
  <2>7. \A q \in 1..n : Len(table[q].cells) \in Nat
    <3> TAKE q \in 1..n
    <3>1. table[q] \in TableRow
      BY <1>5
    <3>2. table[q].cells \in Seq(Cell)
      BY <3>1 DEF TableRow
    <3> QED
      BY <3>2
  <2>8. c \in Seq(Cell)
    <3>1. table[i] \in TableRow
      BY <1>5
    <3>2. table[i].cells \in Seq(Cell)
      BY <3>1 DEF TableRow
    <3> QED
      BY <1>7, <3>2
  <2>9. a \in Nat /\ s[i] = a + m /\ s[i] <= s[n] /\ m \in Nat
    <3>1. /\ \A q \in 0..n : s[q] \in Nat
          /\ \A q \in 1..n : s[q] = s[q - 1] + Len(table[q].cells)
      BY <1>4, <1>5, <2>7, SumsAre
    <3>2. i - 1 \in 0..n /\ i \in 0..n
      BY <1>5
    <3>3. s[i] <= s[n]
      BY <1>4, <1>5, <2>7, <3>2, SumsGrow
    <3>4. s[i] = a + m
      BY <1>7, <3>1
    <3> QED
      BY <2>8, <3>1, <3>2, <3>3, <3>4
  <2>10. \A q \in 1..m : d[a + q] = c[q]
    BY <1>7, <2>1
  <2>11. IsIn(c, d, a)
    BY <2>1, <2>9, <2>10 DEF IsIn
  <2> DEFINE T == BootCell(l)
  <2>12. vendor \in Seq(T) /\ d \in Seq(Cell)
    BY <2>1, <2>6
  <2> HIDE DEF T, d, c, a, m, o
  <2>13. ReadAt(vendor, o + a, Len(c)) = c
    BY <2>5, <2>8, <2>11, <2>12, ReadInside
  <2> QED
    BY <2>13 DEF a, c, o
<1> QED
  BY <1>10, <1>11

LEMMA VendorFinds == VendorInv => LoaderFindsFragments
<1> SUFFICES ASSUME VendorInv, pc = "done", cmd.vendor_boot
             PROVE  LET l == LoadVendor(vendor) IN
                    /\ cmd.version > 3 => l.ramdisks = Fragments(cmd)
                    /\ cmd.version = 3 => l.ramdisk = cmd.vendor_ramdisk
                    /\ cmd.version > 3 => l.bootconfig = Given("bootconfig")
                    /\ l.dtb = Given("dtb")
  BY DEF LoaderFindsFragments
<1> DEFINE h == vendor[1][2]
           P == cmd.pagesize
           v == VendorLayout
           l == LoadVendor(vendor)
           first == h.page * Pages(h.size, h.page)
           tableAt == h.page * (Pages(h.size, h.page) + Pages(h.ramdisk, h.page) + Pages(h.dtb, h.page))
           lastAt == h.page * (Pages(h.size, h.page) + Pages(h.ramdisk, h.page) + Pages(h.dtb, h.page)
                                 + Pages(h.entries, h.page))
<1>1. cmd \in BuildCommand /\ Parsed(cmd)
      /\ table = IF cmd.version > 3 THEN RamdiskTable(cmd) ELSE << >>
  BY DEF VendorInv
<1>2. /\ IsLayout(v) /\ v.page = P /\ v.part[2] = Given("dtb")
      /\ cmd.version = 3 => v.part[1] = cmd.vendor_ramdisk
      /\ cmd.version = 4 => v.part[4] = Given("bootconfig")
  BY <1>1, VendorLayoutIs
<1>3. /\ cmd.version \in {3, 4} /\ VendorSections \in {2, 4}
      /\ (VendorSections = 4 <=> cmd.version = 4)
  BY <1>1, VendorCommand
<1>4. Built(v, vendor, VendorSections)
  BY VendorFinished
<1>5. /\ h.page = P
      /\ h.page * (Pages(h.size, h.page) + Pages(h.ramdisk, h.page)) = P * FirstPage(v, 2)
      /\ cmd.version = 4 =>
           /\ tableAt = P * FirstPage(v, 3) /\ lastAt = P * FirstPage(v, 4)
           /\ h.entries = Len(table) /\ h.bootconfig = Len(Given("bootconfig"))
      /\ cmd.version = 3 => h.ramdisk = Len(cmd.vendor_ramdisk)
      /\ h.dtb = Len(Given("dtb"))
      /\ h.page * Pages(h.size, h.page) = P * FirstPage(v, 1)
  BY VendorPlaces
<1>6. /\ l.ramdisks = [i \in 1..h.entries |->
                         [name |-> vendor[tableAt + i][2].name,
                          type |-> vendor[tableAt + i][2].type,
                          cells |-> ReadAt(vendor, first + vendor[tableAt + i][2].offset,
                                           vendor[tableAt + i][2].size)]]
      /\ l.ramdisk = ReadAt(vendor, first, h.ramdisk)
      /\ l.dtb = ReadAt(vendor, h.page * (Pages(h.size, h.page) + Pages(h.ramdisk, h.page)), h.dtb)
      /\ l.bootconfig = ReadAt(vendor, lastAt, h.bootconfig)
  BY DEF LoadVendor
<1>13. first = cmd.pagesize * FirstPage(VendorLayout, 1)
  BY <1>5
<1> HIDE DEF l, h, first, tableAt, lastAt, P, v
<1>7. ASSUME NEW j, NEW o, NEW n, j \in 1..VendorSections, o = P * FirstPage(v, j),
             n = Len(v.part[j])
      PROVE  ReadAt(vendor, o, n) = v.part[j]
  <2>1. o = v.page * FirstPage(v, j) /\ VendorSections \in 1..5
    BY <1>2, <1>3, <1>7
  <2>2. LoadsAt(vendor, o, n, v.part[j])
    BY <1>2, <1>4, <1>7, <2>1, LoadsPart, Zenon
  <2> QED
    BY <2>2 DEF LoadsAt
<1>8. l.dtb = Given("dtb")
  <2> DEFINE j == 2
             o == P * FirstPage(v, 2)
             n == Len(Given("dtb"))
  <2>1. j \in 1..VendorSections /\ n = Len(v.part[j])
    BY <1>2, <1>3
  <2>2. o = P * FirstPage(v, j)
    OBVIOUS
  <2> HIDE DEF j, o, n
  <2>3. ReadAt(vendor, o, n) = v.part[j]
    BY <1>7, <2>1, <2>2
  <2> QED
    BY <1>2, <1>5, <1>6, <2>3 DEF j, o, n
<1>9. ASSUME cmd.version = 3 PROVE l.ramdisk = cmd.vendor_ramdisk
  <2> DEFINE j == 1
             o == P * FirstPage(v, 1)
             n == Len(cmd.vendor_ramdisk)
  <2>1. j \in 1..VendorSections /\ n = Len(v.part[j])
    BY <1>2, <1>3, <1>9
  <2>2. o = P * FirstPage(v, j)
    OBVIOUS
  <2> HIDE DEF j, o, n
  <2>3. ReadAt(vendor, o, n) = v.part[j]
    BY <1>7, <2>1, <2>2
  <2> QED
    BY <1>2, <1>5, <1>6, <1>9, <1>13, <2>3 DEF j, o, n, P, v
<1>10. ASSUME cmd.version = 4 PROVE l.bootconfig = Given("bootconfig")
  <2> DEFINE j == 4
             o == P * FirstPage(v, 4)
             n == Len(Given("bootconfig"))
  <2>1. j \in 1..VendorSections /\ n = Len(v.part[j])
    BY <1>2, <1>3, <1>10
  <2>2. o = P * FirstPage(v, j)
    OBVIOUS
  <2> HIDE DEF j, o, n
  <2>3. ReadAt(vendor, o, n) = v.part[j]
    BY <1>7, <2>1, <2>2
  <2> QED
    BY <1>2, <1>5, <1>6, <1>10, <2>3 DEF j, o, n
<1>11. ASSUME cmd.version = 4 PROVE l.ramdisks = Fragments(cmd)
  <2> DEFINE F == Fragments(cmd)
             n == Len(table)
  <2>1. F \in Seq(Fragment) /\ n = Len(F) /\ n \in Nat
    <3>1. table = RamdiskTable(cmd)
      BY <1>1, <1>11
    <3> QED
      BY <1>1, <3>1, FragmentsAre, VendorTable
  <2>2. ASSUME NEW i \in 1..n
        PROVE  [name |-> vendor[tableAt + i][2].name,
                type |-> vendor[tableAt + i][2].type,
                cells |-> ReadAt(vendor, first + vendor[tableAt + i][2].offset,
                                 vendor[tableAt + i][2].size)] = F[i]
    <3>1. PICK e : e = vendor[tableAt + i][2]
      OBVIOUS
    <3>2. e = vendor[cmd.pagesize * FirstPage(VendorLayout, 3) + i][2]
      BY <1>5, <1>11, <3>1 DEF P, v
    <3>3. /\ e.name = F[i].name /\ e.type = F[i].type
          /\ ReadAt(vendor, cmd.pagesize * FirstPage(VendorLayout, 1) + e.offset, e.size) = F[i].cells
      BY <1>11, <2>2, <3>2, FindsFragment
    <3>4. F[i] = [name |-> F[i].name, type |-> F[i].type, cells |-> F[i].cells]
      <4>1. F[i] \in Fragment
        BY <2>1
      <4> HIDE DEF F
      <4> QED
        BY <4>1 DEF Fragment
    <3> HIDE DEF F
    <3> QED
      BY <1>13, <3>1, <3>3, <3>4
  <2>3. l.ramdisks = [i \in 1..n |-> F[i]]
    BY <1>5, <1>6, <1>11, <2>2
  <2>4. F = [i \in 1..n |-> F[i]]
    <3> HIDE DEF F, n
    <3> QED
      BY <2>1
  <2> QED
    BY <2>3, <2>4
<1>12. cmd.version > 3 <=> cmd.version = 4
  BY <1>3
<1> QED
  BY <1>8, <1>9, <1>10, <1>11, <1>12 DEF l

-----------------------------------------------------------------------------
(* mkbootimg: the loader finds every section of a finished boot image, for *)
(* all page sizes, versions, inputs and signatures that fit a page.        *)
THEOREM SectionsAreFound == BuildSpec => []LoaderFindsSections
<1>1. BuildInv => LoaderFindsSections
  BY LoaderFinds
<1> QED
  BY <1>1, BuildInvHolds, PTL

(* The kernel sees the command line that was asked for, for all sizes of   *)
(* the two fields.                                                         *)
THEOREM CmdlineReachesKernel == BuildSpec => []CmdlineWhole
<1>1. BuildInv => CmdlineWhole
  BY CmdlineIsWhole
<1> QED
  BY <1>1, BuildInvHolds, PTL

(* mkbootimg: in a finished vendor_boot image each fragment is where its   *)
(* table entry says, for all page sizes, tables and inputs.                *)
THEOREM FragmentsAreFound == BuildSpec => []LoaderFindsFragments
<1>1. VendorInv => LoaderFindsFragments
  BY VendorFinds
<1> QED
  BY <1>1, VendorInvHolds, PTL

-----------------------------------------------------------------------------
(* Files as sequences of cells of any kind.                                *)

IsFile(f) == \E S : f \in Seq(S)

LEMMA FileType ==
  ASSUME NEW f, IsFile(f)
  PROVE  Len(f) \in Nat /\ (f # << >> <=> Len(f) # 0)
<1>1. PICK S : f \in Seq(S)
  BY DEF IsFile
<1> QED
  BY <1>1, EmptySeq

Joined(f, g, h) ==
  /\ IsFile(h) /\ Len(h) = Len(f) + Len(g)
  /\ \A i \in 1..Len(f) : h[i] = f[i]
  /\ \A i \in 1..Len(g) : h[Len(f) + i] = g[i]
  /\ SubSeq(h, 1, Len(f)) = f
  /\ SubSeq(h, Len(f) + 1, Len(f) + Len(g)) = g

LEMMA JoinFiles ==
  ASSUME NEW f, NEW g, IsFile(f), IsFile(g)
  PROVE  Joined(f, g, f \o g)
<1>1. PICK A : f \in Seq(A)
  BY DEF IsFile
<1>2. PICK B : g \in Seq(B)
  BY DEF IsFile
<1> DEFINE S == A \cup B
           h == f \o g
<1>3. f \in Seq(S) /\ g \in Seq(S) /\ Len(f) \in Nat /\ Len(g) \in Nat
  BY <1>1, <1>2, SeqMonotonic, FileType
<1> HIDE DEF S
<1>4. /\ h \in Seq(S) /\ Len(h) = Len(f) + Len(g)
      /\ \A i \in 1..(Len(f) + Len(g)) : h[i] = IF i <= Len(f) THEN f[i] ELSE g[i - Len(f)]
  BY <1>3, ConcatProperties
<1> HIDE DEF h
<1>5. \A i \in 1..Len(f) : h[i] = f[i]
  BY <1>3, <1>4
<1>6. \A i \in 1..Len(g) : h[Len(f) + i] = g[i]
  <2> TAKE i \in 1..Len(g)
  <2>1. Len(f) + i \in 1..(Len(f) + Len(g)) /\ ~(Len(f) + i <= Len(f)) /\ (Len(f) + i) - Len(f) = i
    BY <1>3
  <2> QED
    BY <2>1, <1>4
<1>7. SubSeq(h, 1, Len(f)) = f
  <2> DEFINE s == SubSeq(h, 1, Len(f))
  <2>1. s \in Seq(S) /\ Len(s) = Len(f) /\ \A i \in 1..Len(f) : s[i] = h[i]
    BY <1>3, <1>4, SMTT(30)
  <2> HIDE DEF s
  <2>2. s = f
    BY <1>3, <1>5, <2>1, SeqEqual
  <2> QED
    BY <2>2 DEF s
<1>8. SubSeq(h, Len(f) + 1, Len(f) + Len(g)) = g
  <2> DEFINE s == SubSeq(h, Len(f) + 1, Len(f) + Len(g))
  <2>1. s \in Seq(S) /\ Len(s) = Len(g) /\ \A i \in 1..Len(g) : s[i] = h[Len(f) + i]
    BY <1>3, <1>4, SMTT(30)
  <2> HIDE DEF s
  <2>2. s = g
    BY <1>3, <1>6, <2>1, SeqEqual
  <2> QED
    BY <2>2 DEF s
<1> QED
  BY <1>4, <1>5, <1>6, <1>7, <1>8 DEF h, IsFile, Joined

LEMMA JoinThree ==
  ASSUME NEW f, NEW g, NEW h, IsFile(f), IsFile(g), IsFile(h)
  PROVE  (f \o g) \o h = f \o (g \o h)
<1>1. PICK A : f \in Seq(A)
  BY DEF IsFile
<1>2. PICK B : g \in Seq(B)
  BY DEF IsFile
<1>3. PICK C : h \in Seq(C)
  BY DEF IsFile
<1> DEFINE S == A \cup B \cup C
<1>4. f \in Seq(S) /\ g \in Seq(S) /\ h \in Seq(S)
  BY <1>1, <1>2, <1>3, SeqMonotonic
<1> HIDE DEF S
<1> QED
  BY <1>4, ConcatAssociative

LEMMA OneCell ==
  ASSUME NEW c
  PROVE  IsFile(<< c >>) /\ Len(<< c >>) = 1 /\ << c >>[1] = c
<1>1. << c >> \in Seq({c})
  OBVIOUS
<1> QED
  BY <1>1 DEF IsFile

LEMMA PadsFile ==
  ASSUME NEW n \in Nat
  PROVE  IsFile(Pads(n)) /\ Len(Pads(n)) = n /\ \A i \in 1..n : Pads(n)[i] = Pad
<1>1. Pad \in {Pad}
  OBVIOUS
<1>2. Pads(n) \in Seq({Pad}) /\ Len(Pads(n)) = n /\ \A i \in 1..n : Pads(n)[i] = Pad
  BY <1>1, PadsAre
<1> QED
  BY <1>2 DEF IsFile

-----------------------------------------------------------------------------
(* Footers.                                                                *)

FooterCell(n) == << "footer", [original_size |-> n] >>

(* g is the file f, its vbmeta blob and a footer, s cells in all.          *)
FooterLaid(f, s, g) ==
  /\ IsFile(g) /\ Len(g) = s /\ s >= Len(f) + 2
  /\ g[s] = FooterCell(Len(f))
  /\ g[Len(f) + 1] = << "vbmeta", "boot", f >>
  /\ \A i \in (Len(f) + 2)..(s - 1) : g[i] = Pad
  /\ SubSeq(g, 1, Len(f)) = f

LEMMA FooterIs ==
  ASSUME NEW f, NEW s, IsFile(f), ~HasFooter(f), s \in Nat, HashFooterFits(f, s)
  PROVE  FooterLaid(f, s, AddHashFooter(f, s))
<1> DEFINE v == << "vbmeta", "boot", f >>
           w == FooterCell(Len(f))
           n == s - Len(f) - 2
           p == Pads(n)
           a == << v >>
           c == << w >>
           x == a \o p
           y == x \o c
           g == f \o y
<1>1. EraseFooter(f) = f
  BY DEF EraseFooter
<1>2. Len(f) \in Nat /\ Len(f) + 2 <= s
  <2>1. MetadataSize \in Nat /\ MetadataSize >= 2 /\ Len(f) + MetadataSize <= s
    BY <1>1, GkiCertifyAssumption DEF HashFooterFits
  <2>2. Len(f) \in Nat
    BY FileType
  <2> QED
    BY <2>1, <2>2
<1>3. n \in Nat
  BY <1>2
<1>4. AddHashFooter(f, s) = ((f \o a) \o p) \o c
  BY <1>1 DEF AddHashFooter, FooterCell
<1>5. IsFile(a) /\ Len(a) = 1 /\ a[1] = v /\ IsFile(c) /\ Len(c) = 1 /\ c[1] = w
  <2> HIDE DEF v, w
  <2> QED
    BY OneCell
<1> HIDE DEF n, v, w, a, c
<1>6. IsFile(p) /\ Len(p) = n /\ \A i \in 1..n : p[i] = Pad
  BY <1>3, PadsFile
<1> HIDE DEF p
<1>7. Joined(a, p, x)
  BY <1>5, <1>6, JoinFiles
<1>8. /\ IsFile(x) /\ Len(x) = n + 1 /\ x[1] = v
      /\ \A i \in 2..(n + 1) : x[i] = Pad
  <2>1. /\ IsFile(x) /\ Len(x) = Len(a) + Len(p)
        /\ \A i \in 1..Len(a) : x[i] = a[i]
        /\ \A i \in 1..Len(p) : x[Len(a) + i] = p[i]
    BY <1>7 DEF Joined
  <2> HIDE DEF x
  <2>2. ASSUME NEW i \in 2..(n + 1) PROVE x[i] = Pad
    <3>1. i - 1 \in 1..n /\ 1 + (i - 1) = i
      BY <1>3
    <3> QED
      BY <1>5, <1>6, <2>1, <3>1
  <2> QED
    BY <1>3, <1>5, <1>6, <2>1, <2>2
<1> HIDE DEF x
<1>9. Joined(x, c, y)
  BY <1>5, <1>8, JoinFiles
<1>10. /\ IsFile(y) /\ Len(y) = n + 2 /\ y[1] = v /\ y[n + 2] = w
       /\ \A i \in 2..(n + 1) : y[i] = Pad
  <2>1. /\ IsFile(y) /\ Len(y) = Len(x) + Len(c)
        /\ \A i \in 1..Len(x) : y[i] = x[i]
        /\ \A i \in 1..Len(c) : y[Len(x) + i] = c[i]
    BY <1>9 DEF Joined
  <2> HIDE DEF y
  <2>2. (n + 1) + 1 = n + 2 /\ 1 \in 1..(n + 1) /\ 1 \in 1..1
    BY <1>3
  <2>3. y[n + 2] = w
    BY <1>5, <1>8, <2>1, <2>2
  <2>4. Len(y) = n + 2 /\ y[1] = v
    BY <1>3, <1>5, <1>8, <2>1, <2>2
  <2>5. ASSUME NEW i \in 2..(n + 1) PROVE y[i] = Pad
    <3>1. i \in 1..(n + 1)
      BY <1>3
    <3> QED
      BY <1>8, <2>1, <3>1
  <2> QED
    BY <2>1, <2>3, <2>4, <2>5
<1>11. AddHashFooter(f, s) = g
  <2>1. IsFile(a) /\ IsFile(p) /\ IsFile(x) /\ IsFile(c)
    BY <1>5, <1>6, <1>8
  <2>2. (f \o a) \o p = f \o (a \o p)
    BY <2>1, JoinThree
  <2>3. (f \o x) \o c = f \o (x \o c)
    BY <2>1, JoinThree
  <2>4. x = a \o p /\ y = x \o c
    BY DEF x, y
  <2> QED
    BY <1>4, <2>2, <2>3, <2>4
<1> HIDE DEF y
<1>12. Joined(f, y, g)
  BY <1>10, JoinFiles
<1>13. /\ IsFile(g) /\ Len(g) = Len(f) + Len(y)
       /\ \A i \in 1..Len(y) : g[Len(f) + i] = y[i]
       /\ SubSeq(g, 1, Len(f)) = f
  BY <1>12 DEF Joined
<1> HIDE DEF g
<1>14. Len(g) = s
  BY <1>2, <1>10, <1>13 DEF n
<1>15. g[s] = w
  <2>1. n + 2 \in 1..(n + 2) /\ Len(f) + (n + 2) = s
    BY <1>2, <1>3 DEF n
  <2> QED
    BY <1>10, <1>13, <2>1
<1>16. g[Len(f) + 1] = v
  <2>1. 1 \in 1..(n + 2)
    BY <1>3
  <2> QED
    BY <1>10, <1>13, <2>1
<1>17. ASSUME NEW i \in (Len(f) + 2)..(s - 1) PROVE g[i] = Pad
  <2> DEFINE j == i - Len(f)
  <2>1. j \in 2..(n + 1) /\ j \in 1..(n + 2) /\ Len(f) + j = i
    BY <1>2, <1>3 DEF n
  <2> HIDE DEF j
  <2> QED
    BY <1>10, <1>13, <2>1
<1> QED
  BY <1>2, <1>11, <1>13, <1>14, <1>15, <1>16, <1>17 DEF FooterLaid, v, w

(* What avbtool makes of a file with a footer.                             *)
LEMMA FootedIs ==
  ASSUME NEW f, NEW s, NEW g, IsFile(f), s \in Nat, FooterLaid(f, s, g)
  PROVE  HasFooter(g) /\ EraseFooter(g) = f /\ InfoImage(g)
<1>1. /\ Len(f) \in Nat /\ IsFile(g) /\ Len(g) = s /\ s >= Len(f) + 2
      /\ g[s] = FooterCell(Len(f)) /\ g[Len(f) + 1] = << "vbmeta", "boot", f >>
      /\ SubSeq(g, 1, Len(f)) = f
  BY FileType DEF FooterLaid
<1>2. g # << >>
  BY <1>1, FileType
<1>3. g[Len(g)][1] = "footer" /\ FooterOf(g).original_size = Len(f)
  BY <1>1 DEF FooterOf, FooterCell
<1>4. HasFooter(g)
  BY <1>2, <1>3 DEF HasFooter
<1>5. EraseFooter(g) = f
  BY <1>1, <1>3, <1>4 DEF EraseFooter
<1>6. InfoImage(g)
  <2>1. Len(f) < Len(g) /\ g[Len(f) + 1][1] = "vbmeta"
    BY <1>1
  <2> QED
    BY <1>3, <1>4, <2>1 DEF InfoImage
<1> QED
  BY <1>4, <1>5, <1>6

(* The last block of a file.                                               *)
LEMMA LastBlock ==
  ASSUME NEW f, IsFile(f), Len(f) > BootSignatureSize
  PROVE  LET t == LastBytes(f)
             a == Len(f) - BootSignatureSize
         IN  /\ IsFile(t) /\ Len(t) = BootSignatureSize
             /\ \A i \in 1..BootSignatureSize : t[i] = f[a + i]
<1> DEFINE B == BootSignatureSize
           a == Len(f) - B
           t == LastBytes(f)
<1>1. B \in Nat \ {0} /\ Len(f) \in Nat
  BY FileType, GkiCertifyAssumption
<1>2. a \in Nat /\ a + B = Len(f)
  BY <1>1
<1>3. t = SubSeq(f, a + 1, a + B)
  BY <1>1, <1>2 DEF LastBytes
<1>4. PICK S : f \in Seq(S)
  BY DEF IsFile
<1> HIDE DEF B, a
<1>5. /\ SubSeq(f, a + 1, a + B) \in Seq(S) /\ Len(SubSeq(f, a + 1, a + B)) = B
      /\ \A i \in 1..B : SubSeq(f, a + 1, a + B)[i] = f[a + i]
  BY <1>1, <1>2, <1>4, SMTT(30)
<1>6. IsFile(t) /\ Len(t) = B /\ \A i \in 1..B : t[i] = f[a + i]
  BY <1>3, <1>5 DEF IsFile
<1> QED
  BY <1>6 DEF B, a

(* A block that ends in the footer of a longer file is no certificate: its *)
(* blob is not where the footer says.                                      *)
LEMMA FooterHides ==
  ASSUME NEW f, NEW s, NEW g, IsFile(f), s \in Nat, FooterLaid(f, s, g)
  PROVE  ~HasCertificate(g)
<1> SUFFICES ASSUME Len(g) > BootSignatureSize, InfoImage(LastBytes(g)) PROVE FALSE
  BY DEF HasCertificate
<1> DEFINE B == BootSignatureSize
           a == Len(g) - B
           t == LastBytes(g)
           m == Len(f)
<1>1. /\ m \in Nat /\ IsFile(g) /\ Len(g) = s /\ s >= m + 2
      /\ g[s] = FooterCell(m) /\ \A i \in (m + 2)..(s - 1) : g[i] = Pad
  BY FileType DEF FooterLaid
<1>2. /\ IsFile(t) /\ Len(t) = B /\ \A i \in 1..B : t[i] = g[a + i]
  BY <1>1, LastBlock
<1>3. B \in Nat \ {0} /\ a \in Nat \ {0} /\ a + B = s
  BY <1>1, GkiCertifyAssumption
<1>4. t # << >>
  BY <1>2, <1>3, FileType
<1> HIDE DEF B, a, m
<1>5. t[B] = FooterCell(m)
  BY <1>1, <1>2, <1>3
<1>6. HasFooter(t) /\ FooterOf(t).original_size = m
  <2> HIDE DEF t
  <2> QED
    BY <1>2, <1>4, <1>5 DEF HasFooter, FooterOf, FooterCell
<1>7. m < B /\ t[m + 1][1] = "vbmeta"
  <2> HIDE DEF t
  <2>1. InfoImage(t)
    BY DEF t
  <2> QED
    BY <1>2, <1>6, <2>1 DEF InfoImage
<1>8. m + 1 \in 1..B /\ a + (m + 1) \in (m + 2)..s
  BY <1>1, <1>3, <1>7
<1>9. t[m + 1] = g[a + (m + 1)]
  BY <1>2, <1>8
<1>10. CASE a + (m + 1) = s
  <2>1. t[m + 1] = FooterCell(m)
    BY <1>1, <1>9, <1>10
  <2> QED
    BY <1>7, <2>1 DEF FooterCell
<1>11. CASE a + (m + 1) # s
  <2>1. a + (m + 1) \in (m + 2)..(s - 1)
    BY <1>1, <1>3, <1>8, <1>11
  <2>2. t[m + 1] = Pad
    BY <1>1, <1>9, <2>1
  <2> QED
    BY <1>7, <2>2, TagsAssumption
<1> QED
  BY <1>10, <1>11

-----------------------------------------------------------------------------
(* The image mkbootimg wrote.                                              *)

(* Nothing in a boot image is a footer, and its only vbmeta cell begins    *)
(* its last page, which is not where a certificate block would begin.      *)
LEMMA BootCells ==
  ASSUME BuildInv, pc = "done", cmd.output
  PROVE  /\ IsFile(boot) /\ Len(boot) \in Nat \ {0} /\ boot[1][1] = "header"
         /\ \A i \in 1..Len(boot) : boot[i][1] # "footer"
         /\ \A i \in 1..Len(boot) :
              boot[i][1] = "vbmeta" => i = Len(boot) - V3PageSize + 1
<1>1. /\ IsLayout(Layout) /\ Layout.page = PageSize /\ Layout.header = << "header", Header >>
      /\ Layout.cell = Cell /\ Sections \in 3..5
  BY Command DEF IsLayout
<1>2. /\ boot[1] = << "header", Header >>
      /\ Len(boot) = PageSize * (FirstPage(Layout, Sections + 1)
                                   + (IF WithSignature THEN 1 ELSE 0))
  BY FinishedSections
<1>3. \A c \in BootCell(Layout) : c[1] \notin {"footer", "vbmeta"}
  BY <1>1, TagsAssumption DEF BootCell
<1> DEFINE P == PageSize
           z == FirstPage(Layout, Sections + 1)
           e == IF WithSignature THEN 1 ELSE 0
<1>4. P \in Nat \ {0} /\ z \in Nat \ {0} /\ e \in 0..1 /\ Len(boot) = P * (z + e)
  <2>1. Sections + 1 \in 1..6
    BY <1>1
  <2>2. z \in Nat \ {0}
    BY <1>1, <2>1, Places
  <2>3. P \in Nat \ {0}
    BY Command
  <2> QED
    BY <1>2, <2>2, <2>3
<1>5. Len(boot) \in Nat \ {0}
  <2> HIDE DEF P, z, e
  <2>1. z + e \in Nat \ {0}
    BY <1>4
  <2> DEFINE w == z + e
  <2>2. w \in Nat \ {0} /\ Len(boot) = P * w
    BY <1>4, <2>1
  <2> HIDE DEF w
  <2> QED
    BY <1>4, <2>2
<1>6. boot[1][1] = "header"
  BY <1>2
<1>7. CASE ~WithSignature
  <2>1. boot \in Seq(BootCell(Layout))
    BY <1>7, FinishedIs DEF Built
  <2>2. \A i \in 1..Len(boot) : boot[i] \in BootCell(Layout)
    BY <2>1
  <2>3. \A i \in 1..Len(boot) : boot[i][1] \notin {"footer", "vbmeta"}
    BY <1>3, <2>2
  <2> QED
    BY <1>5, <1>6, <2>1, <2>3 DEF IsFile
<1>8. CASE WithSignature
  <2>1. PICK b \in Seq(BootCell(Layout)) : Built(Layout, b, Sections) /\ boot = SignedFrom(Layout, b)
    BY <1>8, FinishedIs
  <2>2. P = V3PageSize /\ SignatureSize <= Layout.page
    BY <1>1, <1>8, Command, SizesAre DEF WithSignature, PageSize
  <2>3. SignedImage(Layout, Sections, b, SignedFrom(Layout, b))
    BY <1>1, <2>1, <2>2, SignedIs, Zenon
  <2>4. /\ boot \in Seq(BootCell(Layout) \cup {<< "vbmeta", "boot", b >>})
        /\ \A i \in 1..Len(b) : boot[i] = b[i]
        /\ boot[Len(b) + 1] = << "vbmeta", "boot", b >>
        /\ \A i \in (Len(b) + 2)..Len(boot) : boot[i] = Pad
    BY <2>1, <2>3 DEF SignedImage
  <2>5. Len(b) = P * z /\ e = 1 /\ Len(b) \in Nat
    BY <1>1, <1>8, <2>1 DEF Built
  <2>6. Len(b) = Len(boot) - V3PageSize
    <3> HIDE DEF P, z, e
    <3>1. P * (z + 1) = P * z + P
      BY <1>4
    <3> QED
      BY <1>4, <2>2, <2>5, <3>1
  <2>7. \A i \in 1..Len(b) : b[i] \in BootCell(Layout)
    BY <2>1
  <2>8. Pad[1] \notin {"footer", "vbmeta"}
    BY TagsAssumption
  <2>9. ASSUME NEW i \in 1..Len(boot)
        PROVE  boot[i][1] # "footer" /\ (boot[i][1] = "vbmeta" => i = Len(b) + 1)
    <3>1. CASE i \in 1..Len(b)
      <4>1. boot[i] \in BootCell(Layout)
        BY <2>4, <2>7, <3>1
      <4> QED
        BY <1>3, <4>1
    <3>2. CASE i = Len(b) + 1
      <4>1. boot[i] = << "vbmeta", "boot", b >>
        BY <2>4, <3>2
      <4> QED
        BY <3>2, <4>1
    <3>3. CASE i \in (Len(b) + 2)..Len(boot)
      <4>1. boot[i] = Pad
        BY <2>4, <3>3
      <4> QED
        BY <2>8, <4>1
    <3> QED
      BY <1>5, <2>5, <3>1, <3>2, <3>3
  <2> QED
    BY <1>5, <1>6, <2>4, <2>6, <2>9 DEF IsFile
<1> QED
  BY <1>7, <1>8

(* What certify_bootimg can rely on in a boot image: it has no footer, and *)
(* its last block is not taken for a certificate.                          *)
IsBoot(b) ==
  /\ IsFile(b) /\ Len(b) \in Nat \ {0} /\ b[1][1] = "header"
  /\ \A i \in 1..Len(b) : b[i][1] # "footer"
  /\ ~HasCertificate(b)

LEMMA BootIsBoot ==
  ASSUME BuildInv, pc = "done", cmd.output
  PROVE  IsBoot(boot)
<1>1. /\ IsFile(boot) /\ Len(boot) \in Nat \ {0} /\ boot[1][1] = "header"
      /\ \A i \in 1..Len(boot) : boot[i][1] # "footer"
      /\ \A i \in 1..Len(boot) : boot[i][1] = "vbmeta" => i = Len(boot) - V3PageSize + 1
  BY BootCells
<1>2. ASSUME Len(boot) > BootSignatureSize PROVE ~InfoImage(LastBytes(boot))
  <2> DEFINE B == BootSignatureSize
             a == Len(boot) - B
             f == LastBytes(boot)
  <2>1. /\ B \in Nat \ {0} /\ V3PageSize \in Nat /\ V3PageSize < B
        /\ a \in Nat /\ a + B = Len(boot)
    BY <1>1, <1>2, GkiCertifyAssumption, SizesAre
  <2>2. IsFile(f) /\ Len(f) = B /\ \A i \in 1..B : f[i] = boot[a + i]
    BY <1>1, <1>2, LastBlock
  <2> HIDE DEF B, a, f
  <2>3. a + 1 \in 1..Len(boot) /\ a + B \in 1..Len(boot) /\ a + 1 # Len(boot) - V3PageSize + 1
        /\ 1 \in 1..B /\ B \in 1..B
    BY <1>1, <2>1
  <2>4. f[1][1] # "vbmeta" /\ f[Len(f)][1] # "footer"
    BY <1>1, <2>2, <2>3
  <2>5. ~InfoImage(f)
    BY <2>4 DEF InfoImage, HasFooter
  <2> QED
    BY <2>5 DEF f
<1> QED
  BY <1>1, <1>2 DEF IsBoot, HasCertificate

(* The kernel is inside the image, where the header says.                  *)
LEMMA KernelPlace ==
  ASSUME BuildInv, pc = "done", cmd.output
  PROVE  LET h == boot[1][2] IN
         /\ h.page \in Nat /\ h.kernel \in Nat /\ h.page + h.kernel <= Len(boot)
         /\ ReadAt(boot, h.page, h.kernel) = Given("kernel")
<1> DEFINE h == boot[1][2]
           n == Len(Given("kernel"))
           P == PageSize
<1>1. /\ Sections \in 3..5 /\ boot[1] = << "header", Header >> /\ IsLayout(Layout)
  BY FinishedSections
<1>2. h.page = P /\ h.kernel = FileSize(cmd.file["kernel"])
  BY <1>1 DEF Header
<1>3. h.kernel = n
  BY <1>2 DEF FileSize, Given
<1>4. P \in Nat \ {0} /\ Layout.first = 1
  BY Command
<1>5. FirstPage(Layout, 1) = 1
  BY <1>1, <1>4, Places
<1>6. Nth[1] = "kernel" /\ 1 \in 1..Sections
  BY <1>1, NthNames
<1>7. P = PageSize * FirstPage(Layout, 1)
  BY <1>4, <1>5
<1> HIDE DEF n, P, h
<1>8. LoadsAt(boot, P, n, Given("kernel"))
  <2> DEFINE j == 1
  <2>1. j \in 1..Sections /\ n = Len(Given(Nth[j])) /\ P = PageSize * FirstPage(Layout, j)
        /\ Given(Nth[j]) = Given("kernel")
    BY <1>6, <1>7 DEF n
  <2> HIDE DEF j
  <2>2. LoadsAt(boot, P, n, Given(Nth[j]))
    BY <2>1, SectionPlace, Zenon
  <2> QED
    BY <2>1, <2>2
<1> QED
  BY <1>2, <1>3, <1>8 DEF LoadsAt, h

-----------------------------------------------------------------------------
(* Certified images.                                                       *)

CertificatesOf(b, e) ==
  (<< << "vbmeta", "boot", b >> >> \o Pads(CertificateLength[e] - 1))
  \o (<< << "vbmeta", "generic_kernel", LoadKernel(b) >> >> \o Pads(CertificateLength[e] - 1))

Certified(b, e) ==
  b \o CertificatesOf(b, e) \o Pads(BootSignatureSize - Len(CertificatesOf(b, e)))

CertificatesFit(e) == 2 * CertificateLength[e] <= BootSignatureSize

LEMMA CertificatesAre ==
  ASSUME NEW b, NEW e \in DOMAIN CertificateLength
  PROVE  /\ IsFile(CertificatesOf(b, e))
         /\ CertificateLength[e] \in Nat \ {0}
         /\ Len(CertificatesOf(b, e)) = 2 * CertificateLength[e]
         /\ CertificatesOf(b, e)[1] = << "vbmeta", "boot", b >>
         /\ CertificatesOf(b, e)[CertificateLength[e] + 1] =
              << "vbmeta", "generic_kernel", LoadKernel(b) >>
         /\ \A i \in 1..Len(CertificatesOf(b, e)) : CertificatesOf(b, e)[i][1] # "footer"
<1> DEFINE n == CertificateLength[e]
           p == Pads(n - 1)
           x == << "vbmeta", "boot", b >>
           y == << "vbmeta", "generic_kernel", LoadKernel(b) >>
           cx == << x >> \o p
           cy == << y >> \o p
<1>1. n \in Nat \ {0}
  BY GkiCertifyAssumption
<1>2. CertificatesOf(b, e) = cx \o cy
  BY DEF CertificatesOf
<1>8. x[1] = "vbmeta" /\ y[1] = "vbmeta"
  OBVIOUS
<1> HIDE DEF n, x, y
<1>3. IsFile(p) /\ Len(p) = n - 1 /\ \A i \in 1..(n - 1) : p[i] = Pad
  <2> DEFINE m == n - 1
  <2>1. m \in Nat
    BY <1>1
  <2> HIDE DEF m
  <2>2. IsFile(Pads(m)) /\ Len(Pads(m)) = m /\ \A i \in 1..m : Pads(m)[i] = Pad
    BY <2>1, PadsFile
  <2> QED
    BY <2>2 DEF m
<1> HIDE DEF p
<1>4. ASSUME NEW c, c[1] = "vbmeta"
      PROVE  /\ IsFile(<< c >> \o p) /\ Len(<< c >> \o p) = n
             /\ (<< c >> \o p)[1] = c
             /\ \A i \in 1..n : (<< c >> \o p)[i][1] # "footer"
  <2> DEFINE q == << c >>
             h == q \o p
  <2>1. IsFile(q) /\ Len(q) = 1 /\ q[1] = c
    BY OneCell
  <2> HIDE DEF q
  <2>2. Joined(q, p, h)
    BY <1>3, <2>1, JoinFiles
  <2>3. /\ IsFile(h) /\ Len(h) = n
        /\ \A i \in 1..1 : h[i] = q[i]
        /\ \A i \in 1..(n - 1) : h[1 + i] = p[i]
    BY <1>1, <1>3, <2>1, <2>2 DEF Joined
  <2> HIDE DEF h
  <2>4. h[1] = c
    BY <2>1, <2>3
  <2>5. ASSUME NEW i \in 1..n PROVE h[i][1] # "footer"
    <3>1. CASE i = 1
      BY <1>4, <2>4, <3>1
    <3>2. CASE i # 1
      <4>1. i - 1 \in 1..(n - 1) /\ 1 + (i - 1) = i
        BY <1>1, <3>2
      <4>2. h[i] = Pad
        BY <1>3, <2>3, <4>1
      <4> QED
        BY <4>2, TagsAssumption
    <3> QED
      BY <3>1, <3>2
  <2> QED
    BY <2>3, <2>4, <2>5 DEF q, h
<1>5. /\ IsFile(cx) /\ Len(cx) = n /\ cx[1] = x /\ IsFile(cy) /\ Len(cy) = n /\ cy[1] = y
      /\ \A i \in 1..n : cx[i][1] # "footer" /\ cy[i][1] # "footer"
  BY <1>4, <1>8
<1> HIDE DEF cx, cy
<1>6. Joined(cx, cy, cx \o cy)
  BY <1>5, JoinFiles
<1>7. /\ IsFile(cx \o cy) /\ Len(cx \o cy) = 2 * n
      /\ (cx \o cy)[1] = x /\ (cx \o cy)[n + 1] = y
      /\ \A i \in 1..Len(cx \o cy) : (cx \o cy)[i][1] # "footer"
  <2>1. /\ IsFile(cx \o cy) /\ Len(cx \o cy) = Len(cx) + Len(cy)
        /\ \A i \in 1..Len(cx) : (cx \o cy)[i] = cx[i]
        /\ \A i \in 1..Len(cy) : (cx \o cy)[Len(cx) + i] = cy[i]
    BY <1>6 DEF Joined
  <2> DEFINE h == cx \o cy
  <2> HIDE DEF h
  <2>2. Len(h) = n + n /\ \A i \in 1..n : h[i] = cx[i] /\ h[n + i] = cy[i]
    BY <1>5, <2>1 DEF h
  <2>3. 1 \in 1..n
    BY <1>1
  <2>4. h[1] = x /\ h[n + 1] = y /\ Len(h) = 2 * n
    BY <1>1, <1>5, <2>2, <2>3
  <2>5. ASSUME NEW i \in 1..Len(h) PROVE h[i][1] # "footer"
    <3>1. CASE i <= n
      <4>1. i \in 1..n
        BY <1>1, <3>1
      <4> QED
        BY <1>5, <2>2, <4>1
    <3>2. CASE ~(i <= n)
      <4>1. i - n \in 1..n /\ n + (i - n) = i
        BY <1>1, <2>2, <3>2
      <4> QED
        BY <1>5, <2>2, <4>1
    <3> QED
      BY <3>1, <3>2
  <2> QED
    BY <2>1, <2>4, <2>5 DEF h
<1> QED
  BY <1>1, <1>2, <1>7 DEF n, x, y

(* A certified image is the image and a block that begins with its two     *)
(* certificates.                                                           *)
LEMMA CertifiedIs ==
  ASSUME NEW b, IsFile(b), NEW e \in DOMAIN CertificateLength, CertificatesFit(e)
  PROVE  LET f == Certified(b, e) IN
         /\ IsFile(f) /\ Len(f) = Len(b) + BootSignatureSize
         /\ SubSeq(f, 1, Len(b)) = b
         /\ LastBytes(f)[1] = << "vbmeta", "boot", b >>
         /\ LastBytes(f)[CertificateLength[e] + 1] =
              << "vbmeta", "generic_kernel", LoadKernel(b) >>
         /\ \A i \in 1..Len(b) : f[i] = b[i]
         /\ f[Len(b) + 1][1] = "vbmeta"
         /\ \A i \in (Len(b) + 1)..Len(f) : f[i][1] # "footer"
<1> DEFINE c == CertificatesOf(b, e)
           n == CertificateLength[e]
           p == Pads(BootSignatureSize - Len(c))
           x == << "vbmeta", "boot", b >>
           y == << "vbmeta", "generic_kernel", LoadKernel(b) >>
           g == c \o p
           f == Certified(b, e)
<1>1. /\ BootSignatureSize \in Nat \ {0} /\ n \in Nat \ {0} /\ 2 * n <= BootSignatureSize
      /\ IsFile(c) /\ Len(c) = 2 * n /\ c[1] = x /\ c[n + 1] = y
      /\ \A i \in 1..Len(c) : c[i][1] # "footer"
  BY CertificatesAre, GkiCertifyAssumption DEF CertificatesFit
<1>2. f = b \o c \o p
  BY DEF Certified
<1>10. x[1] = "vbmeta"
  OBVIOUS
<1> HIDE DEF c, n, x, y, f
<1>3. /\ IsFile(p) /\ Len(p) = BootSignatureSize - Len(c)
      /\ \A i \in 1..Len(p) : p[i] = Pad
  <2> DEFINE m == BootSignatureSize - Len(c)
  <2>1. m \in Nat
    BY <1>1
  <2> HIDE DEF m
  <2>2. IsFile(Pads(m)) /\ Len(Pads(m)) = m /\ \A i \in 1..m : Pads(m)[i] = Pad
    BY <2>1, PadsFile
  <2> QED
    BY <2>2 DEF m
<1> HIDE DEF p
<1>4. Joined(c, p, g)
  BY <1>1, <1>3, JoinFiles
<1>5. f = b \o g
  <2>1. IsFile(c) /\ IsFile(p)
    BY <1>1, <1>3
  <2>2. (b \o c) \o p = b \o (c \o p)
    BY <2>1, JoinThree
  <2> QED
    BY <1>2, <2>2
<1>11. /\ IsFile(g) /\ Len(g) = Len(c) + Len(p)
       /\ \A i \in 1..Len(c) : g[i] = c[i]
       /\ \A i \in 1..Len(p) : g[Len(c) + i] = p[i]
  BY <1>4 DEF Joined
<1> HIDE DEF g
<1>6. IsFile(g) /\ Len(g) = BootSignatureSize /\ g[1] = x /\ g[n + 1] = y
  BY <1>1, <1>3, <1>11
<1>12. ASSUME NEW i \in 1..BootSignatureSize PROVE g[i][1] # "footer"
  <2>1. CASE i <= Len(c)
    <3>1. i \in 1..Len(c)
      BY <1>1, <2>1
    <3> QED
      BY <1>1, <1>11, <3>1
  <2>2. CASE ~(i <= Len(c))
    <3>1. i - Len(c) \in 1..Len(p) /\ Len(c) + (i - Len(c)) = i
      BY <1>1, <1>3, <2>2
    <3>2. g[i] = Pad
      BY <1>3, <1>11, <3>1
    <3> QED
      BY <3>2, TagsAssumption
  <2> QED
    BY <2>1, <2>2
<1>7. Joined(b, g, f)
  BY <1>5, <1>6, JoinFiles
<1>8. /\ Len(b) \in Nat /\ Len(f) = Len(b) + BootSignatureSize /\ IsFile(f)
      /\ SubSeq(f, 1, Len(b)) = b
      /\ \A i \in 1..Len(b) : f[i] = b[i]
      /\ \A i \in 1..BootSignatureSize : f[Len(b) + i] = g[i]
  BY <1>6, <1>7, FileType DEF Joined
<1>9. LastBytes(f) = g
  <2>1. Len(f) - BootSignatureSize + 1 = Len(b) + 1 /\ Len(f) = Len(b) + Len(g)
    BY <1>1, <1>6, <1>8
  <2>2. SubSeq(f, Len(b) + 1, Len(b) + Len(g)) = g
    BY <1>7 DEF Joined
  <2> QED
    BY <2>1, <2>2 DEF LastBytes
<1>13. f[Len(b) + 1][1] = "vbmeta"
  <2>1. 1 \in 1..BootSignatureSize
    BY <1>1
  <2>2. f[Len(b) + 1] = g[1]
    BY <1>8, <2>1
  <2> QED
    BY <1>6, <1>10, <2>2
<1>14. ASSUME NEW i \in (Len(b) + 1)..Len(f) PROVE f[i][1] # "footer"
  <2> DEFINE j == i - Len(b)
  <2>1. j \in 1..BootSignatureSize /\ Len(b) + j = i
    BY <1>1, <1>8
  <2> HIDE DEF j
  <2>2. f[i] = g[j]
    BY <1>8, <2>1
  <2> QED
    BY <1>12, <2>1, <2>2
<1>15. CertificateLength[e] = n
  BY DEF n
<1> QED
  BY <1>6, <1>8, <1>9, <1>13, <1>14, <1>15 DEF f, x, y


-----------------------------------------------------------------------------
(* Images without a footer, certified or not.                              *)

(* f is the file b and k blocks behind it, which are told to be            *)
(* certificates by their first cells.                                      *)
Stack(b, k, f) ==
  /\ IsFile(f) /\ Len(f) = Len(b) + k * BootSignatureSize
  /\ \A i \in 1..Len(b) : f[i] = b[i]
  /\ \A i \in 1..Len(f) : f[i][1] # "footer"
  /\ \A j \in 0..(k - 1) : f[Len(b) + j * BootSignatureSize + 1][1] = "vbmeta"

LEMMA Blocks ==
  ASSUME NEW B \in Nat, NEW k \in Nat
  PROVE  /\ k * B \in Nat /\ (k + 1) * B = k * B + B
         /\ \A j \in 0..(k - 1) : j * B \in Nat /\ j * B + B <= k * B
<1>1. k * B \in Nat /\ (k + 1) * B = k * B + B
  OBVIOUS
<1>2. ASSUME NEW j \in 0..(k - 1) PROVE j * B \in Nat /\ j * B + B <= k * B
  <2> DEFINE d == k - 1 - j
  <2>1. j \in Nat /\ d \in Nat /\ k = (j + d) + 1
    OBVIOUS
  <2> HIDE DEF d
  <2>2. j * B \in Nat /\ d * B \in Nat
    BY <2>1
  <2>3. k * B = (j * B + d * B) + B
    BY <2>1
  <2> QED
    BY <2>2, <2>3
<1> QED
  BY <1>1, <1>2

(* Equal files, whatever their cells are taken from.                       *)
LEMMA FilesEqual ==
  ASSUME NEW f, NEW g, IsFile(f), IsFile(g), Len(f) = Len(g),
         \A i \in 1..Len(f) : f[i] = g[i]
  PROVE  f = g
<1>1. PICK S : f \in Seq(S)
  BY DEF IsFile
<1>2. PICK T : g \in Seq(T)
  BY DEF IsFile
<1>3. f \in Seq(S \cup T) /\ g \in Seq(S \cup T)
  BY <1>1, <1>2, SeqMonotonic
<1> QED
  BY <1>3, SeqEqual

LEMMA CutIs ==
  ASSUME NEW f, NEW n, IsFile(f), n \in 0..Len(f)
  PROVE  /\ IsFile(SubSeq(f, 1, n)) /\ Len(SubSeq(f, 1, n)) = n
         /\ \A i \in 1..n : SubSeq(f, 1, n)[i] = f[i]
<1>1. PICK S : f \in Seq(S)
  BY DEF IsFile
<1>2. /\ SubSeq(f, 1, n) \in Seq(S) /\ Len(SubSeq(f, 1, n)) = n
      /\ \A i \in 1..n : SubSeq(f, 1, n)[i] = f[i]
  BY <1>1, SMTT(30)
<1> QED
  BY <1>2 DEF IsFile

LEMMA StackLength ==
  ASSUME NEW b, NEW k, NEW f, IsBoot(b), k \in Nat, Stack(b, k, f)
  PROVE  /\ BootSignatureSize \in Nat \ {0} /\ k * BootSignatureSize \in Nat
         /\ Len(b) \in Nat \ {0} /\ IsFile(f) /\ Len(f) \in Nat \ {0}
         /\ Len(f) = Len(b) + k * BootSignatureSize
<1> DEFINE B == BootSignatureSize
           m == k * B
<1>1. B \in Nat \ {0}
  BY GkiCertifyAssumption
<1>2. Len(b) \in Nat \ {0} /\ IsFile(f) /\ Len(f) = Len(b) + m
  BY DEF IsBoot, Stack
<1> HIDE DEF B
<1>3. m \in Nat
  BY <1>1, Blocks
<1> HIDE DEF m
<1>4. Len(f) \in Nat \ {0}
  BY <1>2, <1>3
<1> QED
  BY <1>1, <1>2, <1>3, <1>4 DEF m, B

(* Such an image has no footer, and is no vbmeta blob.                     *)
LEMMA StackBare ==
  ASSUME NEW b, NEW k, NEW f, IsBoot(b), k \in Nat, Stack(b, k, f)
  PROVE  /\ IsFile(f) /\ Len(f) \in Nat \ {0} /\ f # << >>
         /\ ~HasFooter(f) /\ ~InfoImage(f) /\ EraseFooter(f) = f
<1>1. /\ Len(b) \in Nat \ {0} /\ IsFile(f) /\ Len(f) \in Nat \ {0}
      /\ b[1][1] = "header"
  BY StackLength DEF IsBoot
<1>2. \A i \in 1..Len(b) : f[i] = b[i]
  BY DEF Stack
<1>3. \A i \in 1..Len(f) : f[i][1] # "footer"
  BY DEF Stack
<1>4. f[1][1] = "header"
  <2>1. 1 \in 1..Len(b)
    BY <1>1
  <2> QED
    BY <1>1, <1>2, <2>1
<1>5. f[Len(f)][1] # "footer"
  <2>1. Len(f) \in 1..Len(f)
    BY <1>1
  <2> QED
    BY <1>3, <2>1
<1>6. ~HasFooter(f)
  BY <1>5 DEF HasFooter
<1>7. ~InfoImage(f)
  BY <1>4, <1>6 DEF InfoImage
<1>8. f # << >>
  BY <1>1, FileType
<1> QED
  BY <1>1, <1>6, <1>7, <1>8 DEF EraseFooter

LEMMA StackZero ==
  ASSUME NEW b, IsBoot(b)
  PROVE  /\ Stack(b, 0, b)
         /\ \A f : Stack(b, 0, f) => f = b
<1> DEFINE z == 0 * BootSignatureSize
<1>1. z = 0 /\ IsFile(b) /\ Len(b) \in Nat \ {0} /\ \A i \in 1..Len(b) : b[i][1] # "footer"
  <2>1. BootSignatureSize \in Nat
    BY GkiCertifyAssumption
  <2> QED
    BY <2>1 DEF IsBoot
<1> HIDE DEF z
<1>2. Stack(b, 0, b)
  <2>1. Len(b) = Len(b) + z
    BY <1>1
  <2>2. Len(b) = Len(b) + 0 * BootSignatureSize
    BY <2>1 DEF z
  <2>3. \A j \in 0..(0 - 1) : FALSE
    OBVIOUS
  <2> QED
    BY <1>1, <2>2, <2>3 DEF Stack
<1>3. ASSUME NEW f, Stack(b, 0, f) PROVE f = b
  <2>1. IsFile(f) /\ Len(f) = Len(b) + z /\ \A i \in 1..Len(b) : f[i] = b[i]
    BY <1>3 DEF Stack, z
  <2>2. Len(f) = Len(b)
    BY <1>1, <2>1
  <2> QED
    BY <1>1, <2>1, <2>2, FilesEqual
<1> QED
  BY <1>2, <1>3

(* The last block is taken for a certificate, and cutting it off leaves    *)
(* one block less.                                                         *)
LEMMA StackCut ==
  ASSUME NEW b, NEW k, NEW f, IsBoot(b), k \in Nat, Stack(b, k + 1, f)
  PROVE  HasCertificate(f) /\ Stack(b, k, SubSeq(f, 1, Len(f) - BootSignatureSize))
<1> DEFINE B == BootSignatureSize
           m == Len(b) + k * B
           x == SubSeq(f, 1, Len(f) - B)
           t == LastBytes(f)
<1>1. B \in Nat \ {0} /\ Len(b) \in Nat \ {0}
  BY GkiCertifyAssumption DEF IsBoot
<1>2. /\ IsFile(f) /\ Len(f) = Len(b) + (k + 1) * B
      /\ \A i \in 1..Len(b) : f[i] = b[i]
      /\ \A i \in 1..Len(f) : f[i][1] # "footer"
      /\ \A j \in 0..((k + 1) - 1) : f[Len(b) + j * B + 1][1] = "vbmeta"
  BY DEF Stack
<1>3. k * B \in Nat /\ (k + 1) * B = k * B + B
      /\ \A j \in 0..(k - 1) : j * B \in Nat /\ j * B + B <= k * B
  <2> HIDE DEF B
  <2> QED
    BY <1>1, Blocks
<1>4. m \in Nat \ {0} /\ Len(f) = m + B /\ Len(f) - B = m /\ Len(b) <= m /\ Len(f) > B
  <2> DEFINE w == k * B
             v == (k + 1) * B
  <2>1. w \in Nat /\ v = w + B /\ Len(f) = Len(b) + v
    BY <1>2, <1>3
  <2> HIDE DEF B, w, v
  <2>2. Len(b) + w \in Nat \ {0} /\ Len(f) = (Len(b) + w) + B /\ Len(f) - B = Len(b) + w
        /\ Len(b) <= Len(b) + w /\ Len(f) > B
    BY <1>1, <2>1
  <2> QED
    BY <2>2 DEF w
<1>5. f[m + 1][1] = "vbmeta"
  <2>1. k \in 0..((k + 1) - 1)
    OBVIOUS
  <2> QED
    BY <1>2, <2>1
<1>6. \A j \in 0..(k - 1) : f[Len(b) + j * B + 1][1] = "vbmeta"
  <2>1. \A j \in 0..(k - 1) : j \in 0..((k + 1) - 1)
    OBVIOUS
  <2> QED
    BY <1>2, <2>1
<1>7. \A j \in 0..(k - 1) : Len(b) + j * B + 1 \in 1..m
  <2> TAKE j \in 0..(k - 1)
  <2> DEFINE w == k * B
             v == j * B
  <2>1. w \in Nat /\ v \in Nat /\ v + B <= w
    BY <1>3
  <2> HIDE DEF B, w, v, m
  <2>2. Len(b) + v + 1 \in 1..(Len(b) + w)
    BY <1>1, <2>1
  <2> QED
    BY <2>2 DEF v, w, m
<1>8. HasCertificate(f)
  <2>1. IsFile(t) /\ Len(t) = B /\ \A i \in 1..B : t[i] = f[m + i]
    <3>1. /\ IsFile(t) /\ Len(t) = B
          /\ \A i \in 1..B : t[i] = f[(Len(f) - B) + i]
      BY <1>2, <1>4, LastBlock
    <3>2. Len(f) - B = m
      BY <1>4
    <3> HIDE DEF B, m, t
    <3> QED
      BY <3>1, <3>2
  <2> HIDE DEF B, m, t
  <2>2. 1 \in 1..B /\ B \in 1..B /\ m + B \in 1..Len(f)
    BY <1>1, <1>4
  <2>3. t[1][1] = "vbmeta" /\ t[B][1] # "footer"
    BY <1>2, <1>4, <1>5, <2>1, <2>2
  <2>4. ~HasFooter(t)
    BY <2>1, <2>3 DEF HasFooter
  <2>5. InfoImage(t)
    <3>1. 0 < Len(t) /\ 0 + 1 = 1
      BY <1>1, <2>1
    <3> QED
      BY <2>3, <2>4, <3>1 DEF InfoImage
  <2> QED
    BY <1>4, <2>5 DEF HasCertificate, B, t
<1>9. Stack(b, k, x)
  <2>1. m \in 0..Len(f) /\ x = SubSeq(f, 1, m)
    <3>1. x = SubSeq(f, 1, m)
      BY <1>4
    <3> HIDE DEF m, x, B
    <3> QED
      BY <1>1, <1>4, <3>1
  <2>2. IsFile(x) /\ Len(x) = m /\ \A i \in 1..m : x[i] = f[i]
    <3> HIDE DEF m, x
    <3>1. /\ IsFile(SubSeq(f, 1, m)) /\ Len(SubSeq(f, 1, m)) = m
          /\ \A i \in 1..m : SubSeq(f, 1, m)[i] = f[i]
      BY <1>2, <2>1, CutIs
    <3> QED
      BY <2>1, <3>1
  <2> HIDE DEF x
  <2>3. \A i \in 1..Len(b) : x[i] = b[i]
    <3> HIDE DEF m
    <3>1. \A i \in 1..Len(b) : i \in 1..m
      BY <1>1, <1>4
    <3> QED
      BY <1>2, <2>2, <3>1
  <2>4. \A i \in 1..Len(x) : x[i][1] # "footer"
    <3> HIDE DEF m, B
    <3>1. \A i \in 1..m : i \in 1..Len(f)
      BY <1>1, <1>4
    <3> QED
      BY <1>2, <2>2, <3>1
  <2>5. \A j \in 0..(k - 1) : x[Len(b) + j * B + 1][1] = "vbmeta"
    <3> TAKE j \in 0..(k - 1)
    <3> DEFINE i == Len(b) + j * B + 1
    <3>1. i \in 1..m /\ f[i][1] = "vbmeta"
      BY <1>6, <1>7
    <3> HIDE DEF i, m
    <3>2. x[i] = f[i]
      BY <2>2, <3>1
    <3>3. x[i][1] = "vbmeta"
      BY <3>1, <3>2
    <3> QED
      BY <3>3 DEF i
  <2> QED
    BY <2>2, <2>3, <2>4, <2>5 DEF Stack
<1> QED
  BY <1>8, <1>9

(* A certification adds a block.                                           *)
LEMMA StackUp ==
  ASSUME NEW b, NEW k, NEW x, NEW e \in DOMAIN CertificateLength,
         IsBoot(b), k \in Nat, Stack(b, k, x), CertificatesFit(e)
  PROVE  Stack(b, k + 1, Certified(x, e))
<1> DEFINE B == BootSignatureSize
           f == Certified(x, e)
<1>1. B \in Nat \ {0} /\ Len(b) \in Nat \ {0}
  BY GkiCertifyAssumption DEF IsBoot
<1>2. /\ IsFile(x) /\ Len(x) = Len(b) + k * B
      /\ \A i \in 1..Len(b) : x[i] = b[i]
      /\ \A i \in 1..Len(x) : x[i][1] # "footer"
      /\ \A j \in 0..(k - 1) : x[Len(b) + j * B + 1][1] = "vbmeta"
  BY DEF Stack
<1>3. /\ IsFile(f) /\ Len(f) = Len(x) + B
      /\ \A i \in 1..Len(x) : f[i] = x[i]
      /\ f[Len(x) + 1][1] = "vbmeta"
      /\ \A i \in (Len(x) + 1)..Len(f) : f[i][1] # "footer"
  BY <1>2, CertifiedIs
<1>4. k * B \in Nat /\ (k + 1) * B = k * B + B
      /\ \A j \in 0..(k - 1) : j * B \in Nat /\ j * B + B <= k * B
  <2> HIDE DEF B
  <2> QED
    BY <1>1, Blocks
<1> HIDE DEF f
<1>5. Len(x) \in Nat /\ Len(b) <= Len(x)
  <2> DEFINE w == k * B
  <2>1. w \in Nat /\ Len(x) = Len(b) + w
    BY <1>2, <1>4
  <2> HIDE DEF w, B
  <2> QED
    BY <1>1, <2>1
<1>6. Len(f) = Len(b) + (k + 1) * B
  <2> DEFINE w == k * B
             v == (k + 1) * B
  <2>1. w \in Nat /\ v = w + B /\ Len(x) = Len(b) + w
    BY <1>2, <1>4
  <2> HIDE DEF w, v, B
  <2>2. Len(f) = Len(b) + v
    BY <1>1, <1>3, <2>1
  <2> QED
    BY <2>2 DEF v
<1>7. \A i \in 1..Len(b) : f[i] = b[i]
  <2>1. \A i \in 1..Len(b) : i \in 1..Len(x)
    BY <1>1, <1>5
  <2> QED
    BY <1>2, <1>3, <2>1
<1>8. \A i \in 1..Len(f) : f[i][1] # "footer"
  <2> TAKE i \in 1..Len(f)
  <2> HIDE DEF B
  <2>1. i \in 1..Len(x) \/ i \in (Len(x) + 1)..Len(f)
    BY <1>1, <1>3, <1>5
  <2>2. CASE i \in 1..Len(x)
    <3>1. f[i] = x[i]
      BY <1>3, <2>2
    <3> QED
      BY <1>2, <2>2, <3>1
  <2>3. CASE i \in (Len(x) + 1)..Len(f)
    BY <1>3, <2>3
  <2> QED
    BY <2>1, <2>2, <2>3
<1>9. \A j \in 0..((k + 1) - 1) : f[Len(b) + j * B + 1][1] = "vbmeta"
  <2> TAKE j \in 0..((k + 1) - 1)
  <2>1. CASE j = k
    <3>1. Len(b) + j * B + 1 = Len(x) + 1
      BY <1>2, <2>1
    <3> QED
      BY <1>3, <3>1
  <2>2. CASE j # k
    <3>1. j \in 0..(k - 1)
      BY <2>2
    <3> DEFINE i == Len(b) + j * B + 1
    <3>2. x[i][1] = "vbmeta"
      BY <1>2, <3>1
    <3>3. i \in 1..Len(x)
      <4> DEFINE w == k * B
                 v == j * B
      <4>1. w \in Nat /\ v \in Nat /\ v + B <= w /\ Len(x) = Len(b) + w
        BY <1>2, <1>4, <3>1
      <4> HIDE DEF w, v, B
      <4>2. Len(b) + v + 1 \in 1..Len(x)
        BY <1>1, <4>1
      <4> QED
        BY <4>2 DEF v
    <3> HIDE DEF i
    <3>4. f[i] = x[i]
      BY <1>3, <3>3
    <3>5. f[i][1] = "vbmeta"
      BY <3>2, <3>4
    <3> QED
      BY <3>5 DEF i
  <2> QED
    BY <2>1, <2>2
<1> QED
  BY <1>3, <1>6, <1>7, <1>8, <1>9 DEF Stack, f

(* The kernel is where it was in the image alone.                          *)
LEMMA StackKernel ==
  ASSUME BuildInv, pc = "done", cmd.output, NEW k, NEW f, k \in Nat, Stack(boot, k, f)
  PROVE  LoadKernel(f) = Given("kernel")
<1> DEFINE h == boot[1][2]
           a == h.page
           n == h.kernel
<1>1. /\ a \in Nat /\ n \in Nat /\ a + n <= Len(boot)
      /\ ReadAt(boot, a, n) = Given("kernel")
  BY KernelPlace
<1>2. IsBoot(boot)
  BY BootIsBoot
<1>3. /\ IsFile(boot) /\ Len(boot) \in Nat \ {0} /\ IsFile(f) /\ Len(f) \in Nat
      /\ Len(boot) <= Len(f)
  <2> DEFINE w == k * BootSignatureSize
  <2>1. w \in Nat /\ Len(f) = Len(boot) + w /\ IsFile(f) /\ Len(boot) \in Nat \ {0}
    BY <1>2, StackLength
  <2> HIDE DEF w
  <2> QED
    BY <1>2, <2>1 DEF IsBoot
<1>4. \A i \in 1..Len(boot) : f[i] = boot[i]
  BY DEF Stack
<1>5. f[1] = boot[1]
  <2>1. 1 \in 1..Len(boot)
    BY <1>3
  <2> QED
    BY <1>4, <2>1
<1>6. LoadKernel(f) = ReadAt(f, a, n)
  BY <1>5 DEF LoadKernel
<1> HIDE DEF a, n, h
<1>7. ReadAt(boot, a, n) = SubSeq(boot, a + 1, a + n)
  <2>1. (IF a + n < Len(boot) THEN a + n ELSE Len(boot)) = a + n
    BY <1>1, <1>3
  <2> QED
    BY <2>1 DEF ReadAt
<1>8. ReadAt(f, a, n) = SubSeq(f, a + 1, a + n)
  <2>1. (IF a + n < Len(f) THEN a + n ELSE Len(f)) = a + n
    BY <1>1, <1>3
  <2> QED
    BY <2>1 DEF ReadAt
<1>9. SubSeq(f, a + 1, a + n) = SubSeq(boot, a + 1, a + n)
  <2>1. PICK S : boot \in Seq(S)
    BY <1>3 DEF IsFile
  <2>2. PICK T : f \in Seq(T)
    BY <1>3 DEF IsFile
  <2>3. a + n <= Len(f) /\ \A i \in 1..(a + n) : f[i] = boot[i]
    BY <1>1, <1>3, <1>4
  <2> QED
    BY <1>1, <2>1, <2>2, <2>3, ReadInPrefix
<1> QED
  BY <1>1, <1>6, <1>7, <1>8, <1>9

-----------------------------------------------------------------------------
(* The files a command meets.                                              *)

(* An image with at most n older certificates, for n ignored failures.     *)
Older(b, n, f) == \E k \in 0..n : Stack(b, k, f)

Footed(f, x) ==
  Len(f) \in Nat /\ HashFooterFits(x, Len(f)) /\ f = AddHashFooter(x, Len(f))

(* What a boot image that is stored can be.                                *)
Known(b, n, f) == Older(b, n, f) \/ \E x : Older(b, n, x) /\ Footed(f, x)

IsCertified(b, n, e, f) ==
  CertificatesFit(e) /\ \E x : Older(b, n, x) /\ f = Certified(x, e)

(* What an image has to become: certified, and with a footer.              *)
IsResult(b, n, e, f) == \E x : IsCertified(b, n, e, x) /\ Footed(f, x)

(* And as long as it was, if it came with a footer and its size was found. *)
KeepsSize(i, u, given, f) ==
  Len(f) = IF HasFooter(given) /\ i \notin u THEN Len(given)
           ELSE Len(EraseFooter(f)) + MetadataSize

LEMMA OlderGrows ==
  ASSUME NEW b, NEW n, NEW m, NEW f, n \in Nat, m \in Nat, n <= m, Known(b, n, f)
  PROVE  Known(b, m, f)
<1>1. \A x : Older(b, n, x) => Older(b, m, x)
  <2>1. \A k \in 0..n : k \in 0..m
    OBVIOUS
  <2> QED
    BY <2>1 DEF Older
<1> QED
  BY <1>1 DEF Known

LEMMA OlderIs ==
  ASSUME NEW b, NEW n, NEW f, IsBoot(b), n \in Nat, Older(b, n, f)
  PROVE  /\ IsFile(f) /\ Len(f) \in Nat \ {0} /\ f # << >>
         /\ ~HasFooter(f) /\ ~InfoImage(f) /\ EraseFooter(f) = f
<1>1. PICK k \in 0..n : Stack(b, k, f)
  BY DEF Older
<1>2. k \in Nat
  OBVIOUS
<1> QED
  BY <1>1, <1>2, StackBare

LEMMA FootedOlder ==
  ASSUME NEW b, NEW n, NEW f, NEW x, IsBoot(b), n \in Nat, Older(b, n, x), Footed(f, x)
  PROVE  /\ IsFile(f) /\ Len(f) \in Nat \ {0} /\ f # << >>
         /\ HasFooter(f) /\ InfoImage(f) /\ EraseFooter(f) = x /\ ~HasCertificate(f)
         /\ f[Len(x) + 1] = << "vbmeta", "boot", x >>
<1>1. IsFile(x) /\ ~HasFooter(x) /\ Len(x) \in Nat
  BY OlderIs
<1> DEFINE s == Len(f)
<1>2. s \in Nat /\ HashFooterFits(x, s) /\ f = AddHashFooter(x, s)
  BY DEF Footed
<1> HIDE DEF s
<1>3. FooterLaid(x, s, f)
  <2>1. FooterLaid(x, s, AddHashFooter(x, s))
    BY <1>1, <1>2, FooterIs
  <2> QED
    BY <1>2, <2>1
<1>4. HasFooter(f) /\ EraseFooter(f) = x /\ InfoImage(f)
  BY <1>1, <1>2, <1>3, FootedIs
<1>5. ~HasCertificate(f)
  BY <1>1, <1>2, <1>3, FooterHides
<1>6. IsFile(f) /\ Len(f) = s /\ s >= Len(x) + 2 /\ f[Len(x) + 1] = << "vbmeta", "boot", x >>
  BY <1>3 DEF FooterLaid
<1>7. Len(f) \in Nat \ {0}
  BY <1>1, <1>2, <1>6
<1>8. f # << >>
  BY <1>6, <1>7, FileType
<1> QED
  BY <1>4, <1>5, <1>6, <1>7, <1>8

LEMMA KnownFiles ==
  ASSUME NEW b, NEW n, NEW f, IsBoot(b), n \in Nat, Known(b, n, f)
  PROVE  /\ IsFile(f) /\ Len(f) \in Nat \ {0} /\ f # << >>
         /\ Older(b, n, EraseFooter(f))
         /\ HasFooter(f) <=> InfoImage(f)
<1>1. CASE Older(b, n, f)
  <2>1. /\ IsFile(f) /\ Len(f) \in Nat \ {0} /\ f # << >>
        /\ ~HasFooter(f) /\ ~InfoImage(f) /\ EraseFooter(f) = f
    BY <1>1, OlderIs
  <2> QED
    BY <1>1, <2>1
<1>2. ASSUME NEW x, Older(b, n, x), Footed(f, x)
      PROVE  /\ IsFile(f) /\ Len(f) \in Nat \ {0} /\ f # << >>
             /\ Older(b, n, EraseFooter(f))
             /\ HasFooter(f) <=> InfoImage(f)
  <2>1. /\ IsFile(f) /\ Len(f) \in Nat \ {0} /\ f # << >>
        /\ HasFooter(f) /\ InfoImage(f) /\ EraseFooter(f) = x
    BY <1>2, FootedOlder
  <2> QED
    BY <1>2, <2>1
<1> QED
  BY <1>1, <1>2 DEF Known

(* Erasing the certificate takes one block, if there is one.               *)
LEMMA EraseOlder ==
  ASSUME NEW b, NEW n, NEW f, IsBoot(b), n \in Nat, Older(b, n + 1, f)
  PROVE  Older(b, n, IF HasCertificate(f) THEN SubSeq(f, 1, Len(f) - BootSignatureSize)
                     ELSE f)
<1>1. PICK k \in 0..(n + 1) : Stack(b, k, f)
  BY DEF Older
<1>2. CASE k = 0
  <2>1. f = b /\ ~HasCertificate(f) /\ Stack(b, 0, f)
    BY <1>1, <1>2, StackZero DEF IsBoot
  <2>2. 0 \in 0..n
    OBVIOUS
  <2> QED
    BY <2>1, <2>2 DEF Older
<1>3. CASE k # 0
  <2> DEFINE j == k - 1
  <2>1. j \in 0..n /\ j \in Nat /\ k = j + 1
    BY <1>3
  <2> HIDE DEF j
  <2>2. HasCertificate(f) /\ Stack(b, j, SubSeq(f, 1, Len(f) - BootSignatureSize))
    BY <1>1, <2>1, StackCut
  <2> QED
    BY <2>1, <2>2 DEF Older
<1> QED
  BY <1>2, <1>3

(* A certified image is an older one for the next command.                 *)
LEMMA CertifiedOlder ==
  ASSUME NEW b, NEW n, NEW e \in DOMAIN CertificateLength, NEW f,
         IsBoot(b), n \in Nat, IsCertified(b, n, e, f)
  PROVE  Older(b, n + 1, f)
<1>1. CertificatesFit(e)
  BY DEF IsCertified
<1>2. PICK x : Older(b, n, x) /\ f = Certified(x, e)
  BY DEF IsCertified
<1>3. PICK k \in 0..n : Stack(b, k, x)
  BY <1>2 DEF Older
<1>4. k \in Nat /\ k + 1 \in 0..(n + 1)
  OBVIOUS
<1>5. Stack(b, k + 1, f)
  BY <1>1, <1>2, <1>3, <1>4, StackUp
<1> QED
  BY <1>4, <1>5 DEF Older

LEMMA ResultKnown ==
  ASSUME NEW b, NEW n, NEW e \in DOMAIN CertificateLength, NEW f,
         IsBoot(b), n \in Nat, IsResult(b, n, e, f)
  PROVE  Known(b, n + 1, f)
<1>1. PICK x : IsCertified(b, n, e, x) /\ Footed(f, x)
  BY DEF IsResult
<1>2. Older(b, n + 1, x)
  BY <1>1, CertifiedOlder
<1> QED
  BY <1>1, <1>2 DEF Known

-----------------------------------------------------------------------------
(* The invariant: what an image is before and after each step, by the      *)
(* failures that were ignored for it.                                      *)

InHand == {"erase_footer", "erase_certificate", "add_certificate", "add_footer", "copy_out"}

Counted == ignored \in [Image -> Nat] /\ unsized \subseteq Image

StoreInv ==
  /\ pc = "done" /\ cmd.output /\ DOMAIN store = Image
  /\ \A i \in Image : store[i] = << >> \/ Known(boot, ignored[i] + 1, store[i])

WorkInv ==
  /\ DOMAIN work = Stored /\ waiting \subseteq Stored
  /\ step \in InHand => current \in Stored \ waiting
  /\ \A i \in waiting : i \notin unsized
  /\ \A i \in Stored :
       IF i \in waiting \/ (step \in InHand /\ i = current)
       THEN work[i] = store[i]
       ELSE /\ IsResult(boot, ignored[i], extra, work[i])
            /\ KeepsSize(i, unsized, store[i], work[i])
  /\ step = "output" => waiting = {}

TmpInv ==
  /\ step \in InHand \ {"copy_out"} => current \notin unsized
  /\ step = "erase_footer" => tmp = store[current]
  /\ step = "erase_certificate" =>
       \/ Older(boot, ignored[current] + 1, tmp)
       \/ \E x : Older(boot, ignored[current], x) /\ Footed(tmp, x)
  /\ step = "add_certificate" => Known(boot, ignored[current], tmp)
  /\ step = "add_footer" => IsCertified(boot, ignored[current], extra, tmp)
  /\ step = "copy_out" => /\ IsResult(boot, ignored[current], extra, tmp)
                          /\ KeepsSize(current, unsized, store[current], tmp)

OutputInv ==
  output.state = "complete" =>
    /\ step = "end" /\ DOMAIN output.images = Stored
    /\ \A i \in Stored : /\ IsResult(boot, ignored[i], extra, output.images[i])
                         /\ KeepsSize(i, unsized, store[i], output.images[i])

CertifyInv ==
  /\ extra \in DOMAIN CertificateLength
  /\ step \in {"build", "ready", "next", "output", "end", "failed"} \cup InHand
  /\ Counted
  /\ step \in {"build", "ready"} => unsized = {}
  /\ step # "build" => StoreInv
  /\ step \in {"next", "output"} \cup InHand => WorkInv
  /\ TmpInv
  /\ OutputInv

IInv == BuildInv /\ CertifyInv

-----------------------------------------------------------------------------
(* Each step keeps the invariant.                                          *)

(* What is stored before the first command is a boot image or one packaged.*)
LEMMA PackagedKnown ==
  ASSUME NEW b, IsBoot(b), NEW n, n \in Nat, NEW f \in Packaged(b)
  PROVE  Known(b, n, f)
<1>1. Older(b, n, b)
  <2>1. 0 \in 0..n /\ Stack(b, 0, b)
    BY StackZero
  <2> QED
    BY <2>1 DEF Older
<1>2. CASE f = b
  BY <1>1, <1>2 DEF Known
<1>3. ASSUME NEW s \in PartitionSizes, HashFooterFits(b, s), f = AddHashFooter(b, s)
      PROVE  Known(b, n, f)
  <2>1. s \in Nat
    BY GkiCertifyAssumption
  <2>2. IsFile(b) /\ ~HasFooter(b)
    BY <1>1, OlderIs
  <2>3. FooterLaid(b, s, AddHashFooter(b, s))
    BY <1>3, <2>1, <2>2, FooterIs
  <2>4. Len(f) = s
    BY <1>3, <2>3 DEF FooterLaid
  <2> QED
    BY <1>1, <1>3, <2>1, <2>4 DEF Known, Footed
<1> QED
  BY <1>2, <1>3 DEF Packaged

LEMMA StoreStep ==
  ASSUME IInv, Store, UNCHANGED build
  PROVE  CertifyInv'
<1>1. /\ pc = "done" /\ cmd.output /\ pc' = pc /\ cmd' = cmd /\ boot' = boot
      /\ step = "build" /\ step' = "ready" /\ extra' = extra /\ output' = output
      /\ ignored' = ignored /\ unsized' = unsized /\ CertifyInv
  BY DEF Store, build, IInv
<1>2. IsBoot(boot)
  BY <1>1, BootIsBoot DEF IInv
<1>3. /\ DOMAIN store' = Image
      /\ \A i \in Image : store'[i] = << >> \/ store'[i] \in Packaged(boot)
  BY DEF Store
<1>4. StoreInv'
  <2>1. \A i \in Image : ignored[i] + 1 \in Nat
    BY <1>1 DEF CertifyInv, Counted
  <2>2. \A i \in Image : store'[i] = << >> \/ Known(boot, ignored[i] + 1, store'[i])
    BY <1>2, <1>3, <2>1, PackagedKnown
  <2> QED
    BY <1>1, <1>3, <2>2 DEF StoreInv
<1>5. OutputInv'
  BY <1>1 DEF OutputInv, CertifyInv
<1>6. Counted' /\ unsized' = {}
  BY <1>1 DEF Counted, CertifyInv
<1> QED
  BY <1>1, <1>4, <1>5, <1>6 DEF CertifyInv, TmpInv, InHand

(* The steps between the unpacking and the output leave these alone.       *)
Settled == pc' = pc /\ cmd' = cmd /\ boot' = boot /\ store' = store /\ extra' = extra

Remembered == ignored' = ignored /\ unsized' = unsized

LEMMA SettledStore ==
  ASSUME StoreInv, Settled, Remembered
  PROVE  StoreInv' /\ Stored' = Stored
BY DEF StoreInv, Settled, Remembered, Stored

(* No output is complete before the last step.                             *)
LEMMA NotYet ==
  ASSUME CertifyInv, step # "end", output' = output
  PROVE  output.state # "complete" /\ OutputInv'
BY DEF CertifyInv, OutputInv

LEMMA UnpackStep ==
  ASSUME IInv, Unpack, UNCHANGED build
  PROVE  CertifyInv'
<1>1. /\ Settled /\ Remembered /\ step = "ready" /\ step' = "next" /\ output' = output
      /\ work' = [i \in Stored |-> store[i]] /\ waiting' = Stored /\ CertifyInv
  BY DEF Unpack, build, Settled, Remembered, IInv
<1>2. StoreInv' /\ Stored' = Stored /\ OutputInv' /\ Counted' /\ unsized' = {}
  BY <1>1, SettledStore, NotYet DEF CertifyInv, Counted, Remembered
<1>3. WorkInv'
  BY <1>1, <1>2 DEF WorkInv, InHand, Settled
<1> QED
  BY <1>1, <1>2, <1>3 DEF CertifyInv, TmpInv, InHand, Settled

LEMMA CopyInStep ==
  ASSUME IInv, CopyIn, UNCHANGED build
  PROVE  CertifyInv'
<1>1. /\ Settled /\ Remembered /\ step = "next" /\ step' = "erase_footer"
      /\ output' = output /\ work' = work /\ CertifyInv
      /\ current' \in waiting /\ waiting' = waiting \ {current'} /\ tmp' = work[current']
  BY DEF CopyIn, build, Settled, Remembered, IInv
<1>2. StoreInv' /\ Stored' = Stored /\ OutputInv' /\ WorkInv /\ Counted'
  BY <1>1, SettledStore, NotYet DEF CertifyInv, Counted, Remembered
<1>3. /\ \A i \in Stored :
           IF i \in waiting THEN work[i] = store[i]
           ELSE /\ IsResult(boot, ignored[i], extra, work[i])
                /\ KeepsSize(i, unsized, store[i], work[i])
      /\ waiting \subseteq Stored /\ DOMAIN work = Stored
      /\ \A i \in waiting : i \notin unsized
  BY <1>1, <1>2 DEF WorkInv, InHand
<1>4. WorkInv'
  BY <1>1, <1>2, <1>3 DEF WorkInv, InHand, Settled, Remembered
<1>5. TmpInv'
  BY <1>1, <1>3 DEF TmpInv, InHand, Settled, Remembered
<1> QED
  BY <1>1, <1>2, <1>4, <1>5 DEF CertifyInv, InHand, Settled

(* What a step of one image adds to the history.                           *)
HistoryGrows ==
  /\ ignored' \in [Image -> Nat] /\ unsized' \subseteq Image
  /\ ignored'[current] >= ignored[current]
  /\ \A i \in Image : i # current =>
       ignored'[i] = ignored[i] /\ (i \in unsized' <=> i \in unsized)

LEMMA NothingGrows ==
  ASSUME CertifyInv, Remembered, current \in Image
  PROVE  HistoryGrows
<1>1. ignored \in [Image -> Nat] /\ ignored[current] \in Nat
  BY DEF CertifyInv, Counted
<1> QED
  BY <1>1 DEF CertifyInv, Counted, Remembered, HistoryGrows

LEMMA IgnoredGrows ==
  ASSUME CertifyInv, Ignore, unsized' = unsized, current \in Image
  PROVE  HistoryGrows /\ ignored'[current] = ignored[current] + 1
<1>1. ignored \in [Image -> Nat] /\ ignored[current] \in Nat
  BY DEF CertifyInv, Counted
<1>2. ignored' = [ignored EXCEPT ![current] = ignored[current] + 1]
  BY DEF Ignore
<1>3. ignored' \in [Image -> Nat] /\ ignored'[current] = ignored[current] + 1
  <2> DEFINE n == ignored[current] + 1
  <2>1. n \in Nat
    BY <1>1
  <2> HIDE DEF n
  <2>2. ignored' = [ignored EXCEPT ![current] = n]
    BY <1>2 DEF n
  <2>3. ignored' \in [Image -> Nat] /\ ignored'[current] = n
    BY <1>1, <2>1, <2>2
  <2> QED
    BY <2>3 DEF n
<1>4. \A i \in Image : i # current => ignored'[i] = ignored[i]
  BY <1>1, <1>2
<1>5. ignored'[current] >= ignored[current]
  BY <1>1, <1>3
<1> QED
  BY <1>3, <1>4, <1>5 DEF CertifyInv, Counted, HistoryGrows

(* The image in hand is one that is stored.                                *)
LEMMA InHandIs ==
  ASSUME IInv, step \in InHand
  PROVE  /\ StoreInv /\ WorkInv /\ IsBoot(boot) /\ current \in Image
         /\ ignored[current] \in Nat /\ extra \in DOMAIN CertificateLength
         /\ Known(boot, ignored[current] + 1, store[current])
         /\ work[current] = store[current]
<1>1. StoreInv /\ WorkInv /\ Counted /\ extra \in DOMAIN CertificateLength
  BY DEF IInv, CertifyInv, InHand
<1>2. IsBoot(boot)
  BY <1>1, BootIsBoot DEF StoreInv, IInv
<1>3. current \in Stored /\ work[current] = store[current]
  BY <1>1 DEF WorkInv
<1>4. current \in Image /\ store[current] # << >>
  BY <1>3 DEF Stored
<1>5. Known(boot, ignored[current] + 1, store[current])
  BY <1>1, <1>4 DEF StoreInv
<1>6. ignored[current] \in Nat
  BY <1>1, <1>4 DEF Counted
<1> QED
  BY <1>1, <1>2, <1>3, <1>4, <1>5, <1>6

(* Between two steps of one image its input stays in work.                 *)
LEMMA InHandStep ==
  ASSUME IInv, UNCHANGED << build, Stays, work, output >>, HistoryGrows,
         step \in InHand, step' \in InHand
  PROVE  /\ Settled /\ current' = current
         /\ Counted' /\ StoreInv' /\ WorkInv' /\ OutputInv'
<1>1. /\ Settled /\ output' = output /\ work' = work /\ waiting' = waiting /\ current' = current
      /\ CertifyInv
  BY DEF build, Settled, Stays, IInv
<1>2. /\ StoreInv /\ WorkInv /\ IsBoot(boot) /\ current \in Image /\ ignored[current] \in Nat
      /\ Known(boot, ignored[current] + 1, store[current])
  BY InHandIs
<1>3. Stored' = Stored
  BY <1>1 DEF Settled, Stored
<1>4. Counted'
  BY DEF HistoryGrows, Counted
<1>5. StoreInv'
  <2>1. ASSUME NEW i \in Image
        PROVE  store[i] = << >> \/ Known(boot, ignored'[i] + 1, store[i])
    <3>1. CASE i = current
      <4>1. /\ ignored[current] + 1 \in Nat /\ ignored'[current] + 1 \in Nat
            /\ ignored[current] + 1 <= ignored'[current] + 1
        <5>1. ignored'[current] \in Nat /\ ignored'[current] >= ignored[current]
          BY <1>2 DEF HistoryGrows
        <5> QED
          BY <1>2, <5>1
      <4>2. Known(boot, ignored'[current] + 1, store[current])
        BY <1>2, <4>1, OlderGrows
      <4> QED
        BY <3>1, <4>2
    <3>2. CASE i # current
      BY <1>2, <3>2 DEF HistoryGrows, StoreInv
    <3> QED
      BY <3>1, <3>2
  <2> QED
    BY <1>1, <1>2, <2>1 DEF StoreInv, Settled
<1>6. WorkInv'
  <2>1. /\ DOMAIN work = Stored /\ waiting \subseteq Stored
        /\ current \in Stored /\ current \notin waiting
        /\ \A i \in waiting : i \notin unsized
    BY <1>2 DEF WorkInv
  <2>2. \A i \in waiting : i \notin unsized'
    BY <2>1 DEF HistoryGrows, Stored
  <2>3. ASSUME NEW i \in Stored
        PROVE  IF i \in waiting \/ i = current THEN work[i] = store[i]
               ELSE /\ IsResult(boot, ignored'[i], extra, work[i])
                    /\ KeepsSize(i, unsized', store[i], work[i])
    <3>1. CASE i \in waiting \/ i = current
      BY <1>2, <3>1 DEF WorkInv
    <3>2. CASE ~(i \in waiting \/ i = current)
      <4>1. /\ IsResult(boot, ignored[i], extra, work[i])
            /\ KeepsSize(i, unsized, store[i], work[i])
        BY <1>2, <3>2 DEF WorkInv
      <4>2. i \in Image
        BY DEF Stored
      <4>3. ignored'[i] = ignored[i] /\ (i \in unsized' <=> i \in unsized)
        BY <3>2, <4>2 DEF HistoryGrows
      <4>4. KeepsSize(i, unsized', store[i], work[i])
        BY <4>1, <4>3 DEF KeepsSize
      <4> QED
        BY <3>2, <4>1, <4>3, <4>4
    <3> QED
      BY <3>1, <3>2
  <2>4. step' # "output"
    BY DEF InHand
  <2> QED
    BY <1>1, <1>3, <2>1, <2>2, <2>3, <2>4 DEF WorkInv, Settled
<1>7. OutputInv'
  BY <1>1, NotYet DEF InHand
<1> QED
  BY <1>1, <1>4, <1>5, <1>6, <1>7

LEMMA EraseFooterStep ==
  ASSUME IInv, EraseAvbFooter, UNCHANGED build
  PROVE  CertifyInv'
<1>1. /\ step = "erase_footer" /\ step' = "erase_certificate" /\ unsized' = unsized
      /\ UNCHANGED << build, Stays, work, output >> /\ CertifyInv
  BY DEF EraseAvbFooter, IInv
<1>2. step \in InHand /\ step' \in InHand
  BY <1>1 DEF InHand
<1>3. /\ StoreInv /\ WorkInv /\ IsBoot(boot) /\ current \in Image
      /\ ignored[current] \in Nat /\ extra \in DOMAIN CertificateLength
      /\ Known(boot, ignored[current] + 1, store[current])
  BY <1>2, InHandIs
<1>4. tmp = store[current] /\ current \notin unsized
  BY <1>1 DEF CertifyInv, TmpInv, InHand
<1> DEFINE n == ignored[current]
<1>5. CASE tmp' = EraseFooter(tmp) /\ ignored' = ignored
  <2>1. HistoryGrows
    BY <1>1, <1>3, <1>5, NothingGrows DEF Remembered
  <2>2. Settled /\ current' = current /\ Counted' /\ StoreInv' /\ WorkInv' /\ OutputInv'
    BY <1>1, <1>2, <2>1, InHandStep
  <2>3. Older(boot, n + 1, tmp')
    <3> DEFINE m == n + 1
    <3>1. m \in Nat /\ Known(boot, m, tmp)
      BY <1>3, <1>4
    <3> HIDE DEF m
    <3>2. Older(boot, m, EraseFooter(tmp))
      BY <1>3, <3>1, KnownFiles
    <3> QED
      BY <1>5, <3>2 DEF m
  <2>4. TmpInv'
    BY <1>1, <1>4, <1>5, <2>2, <2>3 DEF TmpInv, Settled
  <2> QED
    BY <1>1, <1>2, <1>3, <2>2, <2>4 DEF CertifyInv, InHand, Settled
<1>6. CASE HasFooter(tmp) /\ tmp' = tmp /\ Ignore
  <2>1. HistoryGrows /\ ignored'[current] = n + 1
    BY <1>1, <1>3, <1>6, IgnoredGrows
  <2>2. Settled /\ current' = current /\ Counted' /\ StoreInv' /\ WorkInv' /\ OutputInv'
    BY <1>1, <1>2, <2>1, InHandStep
  <2>3. \E x : Older(boot, n + 1, x) /\ Footed(tmp, x)
    <3> DEFINE m == n + 1
    <3>1. m \in Nat /\ Known(boot, m, tmp)
      BY <1>3, <1>4
    <3> HIDE DEF m
    <3>2. ~Older(boot, m, tmp)
      BY <1>3, <1>6, <3>1, OlderIs
    <3>3. \E x : Older(boot, m, x) /\ Footed(tmp, x)
      BY <3>1, <3>2 DEF Known
    <3> QED
      BY <3>3 DEF m
  <2>4. TmpInv'
    BY <1>1, <1>4, <1>6, <2>1, <2>2, <2>3 DEF TmpInv, Settled
  <2> QED
    BY <1>1, <1>2, <1>3, <2>2, <2>4 DEF CertifyInv, InHand, Settled
<1> QED
  BY <1>5, <1>6 DEF EraseAvbFooter

LEMMA EraseCertificateStep ==
  ASSUME IInv, EraseCertificate, UNCHANGED build
  PROVE  CertifyInv'
<1>1. /\ step = "erase_certificate" /\ step' = "add_certificate" /\ unsized' = unsized
      /\ UNCHANGED << build, Stays, work, output >> /\ CertifyInv
  BY DEF EraseCertificate, IInv
<1>2. step \in InHand /\ step' \in InHand
  BY <1>1 DEF InHand
<1>3. /\ IsBoot(boot) /\ current \in Image
      /\ ignored[current] \in Nat /\ extra \in DOMAIN CertificateLength
  BY <1>2, InHandIs
<1> DEFINE n == ignored[current]
<1>4. /\ current \notin unsized
      /\ Older(boot, n + 1, tmp) \/ \E x : Older(boot, n, x) /\ Footed(tmp, x)
  BY <1>1 DEF CertifyInv, TmpInv, InHand
<1>5. ASSUME NEW x, Older(boot, n, x), Footed(tmp, x)
      PROVE  ~HasCertificate(tmp) /\ Known(boot, n, tmp)
  <2> HIDE DEF n
  <2>1. n \in Nat
    BY <1>3 DEF n
  <2>2. ~HasCertificate(tmp)
    BY <1>3, <1>5, <2>1, FootedOlder
  <2> QED
    BY <1>5, <2>2 DEF Known
<1>6. CASE /\ tmp' = IF HasCertificate(tmp)
                     THEN SubSeq(tmp, 1, Len(tmp) - BootSignatureSize) ELSE tmp
           /\ ignored' = ignored
  <2>1. HistoryGrows
    BY <1>1, <1>3, <1>6, NothingGrows DEF Remembered
  <2>2. Settled /\ current' = current /\ Counted' /\ StoreInv' /\ WorkInv' /\ OutputInv'
    BY <1>1, <1>2, <2>1, InHandStep
  <2>3. ASSUME Older(boot, n + 1, tmp) PROVE Known(boot, n, tmp')
    <3> HIDE DEF n
    <3>1. n \in Nat
      BY <1>3 DEF n
    <3>2. Older(boot, n, tmp')
      BY <1>3, <1>6, <2>3, <3>1, EraseOlder
    <3> QED
      BY <3>2 DEF Known
  <2>4. ASSUME \E x : Older(boot, n, x) /\ Footed(tmp, x) PROVE Known(boot, n, tmp')
    <3>1. ~HasCertificate(tmp) /\ Known(boot, n, tmp)
      BY <1>5, <2>4
    <3> QED
      BY <1>6, <3>1
  <2>5. Known(boot, n, tmp')
    BY <1>4, <2>3, <2>4
  <2>6. TmpInv'
    BY <1>1, <1>4, <1>6, <2>2, <2>5 DEF TmpInv, Settled
  <2> QED
    BY <1>1, <1>2, <1>3, <2>2, <2>6 DEF CertifyInv, InHand, Settled
<1>7. CASE HasCertificate(tmp) /\ tmp' = tmp /\ Ignore
  <2>1. HistoryGrows /\ ignored'[current] = n + 1
    BY <1>1, <1>3, <1>7, IgnoredGrows
  <2>2. Settled /\ current' = current /\ Counted' /\ StoreInv' /\ WorkInv' /\ OutputInv'
    BY <1>1, <1>2, <2>1, InHandStep
  <2>3. Known(boot, n + 1, tmp)
    BY <1>4, <1>5, <1>7 DEF Known
  <2>4. TmpInv'
    BY <1>1, <1>4, <1>7, <2>1, <2>2, <2>3 DEF TmpInv, Settled
  <2> QED
    BY <1>1, <1>2, <1>3, <2>2, <2>4 DEF CertifyInv, InHand, Settled
<1> QED
  BY <1>6, <1>7 DEF EraseCertificate

LEMMA AddCertificateStep ==
  ASSUME IInv, AddCertificate, UNCHANGED build
  PROVE  CertifyInv'
<1> DEFINE x == EraseFooter(tmp)
           n == ignored[current]
<1>1. /\ step = "add_certificate" /\ step' = "add_footer" /\ Remembered
      /\ Len(Certificates(x)) <= BootSignatureSize
      /\ tmp' = x \o Certificates(x) \o Pads(BootSignatureSize - Len(Certificates(x)))
      /\ UNCHANGED << build, Stays, work, output >> /\ CertifyInv
  BY DEF AddCertificate, IInv, Remembered
<1>2. step \in InHand /\ step' \in InHand
  BY <1>1 DEF InHand
<1>3. /\ IsBoot(boot) /\ current \in Image
      /\ ignored[current] \in Nat /\ extra \in DOMAIN CertificateLength
  BY <1>2, InHandIs
<1>4. HistoryGrows
  BY <1>1, <1>3, NothingGrows
<1>5. Settled /\ current' = current /\ Counted' /\ StoreInv' /\ WorkInv' /\ OutputInv'
  BY <1>1, <1>2, <1>4, InHandStep
<1>6. Known(boot, n, tmp) /\ current \notin unsized
  BY <1>1 DEF CertifyInv, TmpInv, InHand
<1>7. Older(boot, n, x)
  BY <1>3, <1>6, KnownFiles
<1>8. Certificates(x) = CertificatesOf(x, extra)
  BY DEF Certificates, Certificate, CertificatesOf
<1> HIDE DEF x, n
<1>9. CertificatesFit(extra)
  <2>1. Len(CertificatesOf(x, extra)) = 2 * CertificateLength[extra]
    BY <1>3, CertificatesAre
  <2> QED
    BY <1>1, <1>8, <2>1 DEF CertificatesFit
<1>10. tmp' = Certified(x, extra)
  BY <1>1, <1>8 DEF Certified
<1>11. IsCertified(boot, n, extra, tmp')
  BY <1>7, <1>9, <1>10 DEF IsCertified
<1>12. TmpInv'
  BY <1>1, <1>5, <1>6, <1>11 DEF TmpInv, Settled, Remembered, n
<1> QED
  BY <1>1, <1>2, <1>3, <1>5, <1>12 DEF CertifyInv, InHand, Settled

LEMMA AddFooterStep ==
  ASSUME IInv, AddAvbFooter, UNCHANGED build
  PROVE  CertifyInv'
<1>1. PICK failed \in BOOLEAN :
        LET size == FooterSize(IF failed THEN 0 ELSE AvbImageSize(work[current])) IN
        /\ HashFooterFits(tmp, size)
        /\ tmp' = AddHashFooter(tmp, size)
        /\ unsized' = IF failed THEN unsized \cup {current} ELSE unsized
  BY DEF AddAvbFooter
<1>2. /\ step = "add_footer" /\ step' = "copy_out" /\ ignored' = ignored
      /\ UNCHANGED << build, Stays, work, output >> /\ CertifyInv
  BY DEF AddAvbFooter, IInv
<1>3. step \in InHand /\ step' \in InHand
  BY <1>2 DEF InHand
<1> DEFINE n == ignored[current]
           given == store[current]
           size == FooterSize(IF failed THEN 0 ELSE AvbImageSize(given))
<1>4. /\ IsBoot(boot) /\ current \in Image /\ n \in Nat /\ n + 1 \in Nat
      /\ extra \in DOMAIN CertificateLength
      /\ Known(boot, n + 1, given) /\ work[current] = given
  BY <1>3, InHandIs
<1>5. HistoryGrows
  <2>1. ignored'[current] >= ignored[current] /\ ignored' \in [Image -> Nat]
        /\ unsized \subseteq Image
    BY <1>2, <1>4 DEF CertifyInv, Counted
  <2> QED
    BY <1>1, <1>2, <1>4, <2>1 DEF HistoryGrows
<1>6. Settled /\ current' = current /\ Counted' /\ StoreInv' /\ WorkInv' /\ OutputInv'
  BY <1>2, <1>3, <1>5, InHandStep
<1>7. IsCertified(boot, n, extra, tmp) /\ current \notin unsized
  BY <1>2 DEF CertifyInv, TmpInv, InHand
<1>8. HashFooterFits(tmp, size) /\ tmp' = AddHashFooter(tmp, size)
  BY <1>1, <1>4
<1>9. Older(boot, n + 1, tmp)
  <2> HIDE DEF n
  <2> QED
    BY <1>4, <1>7, CertifiedOlder
<1>10. IsFile(tmp) /\ Len(tmp) \in Nat /\ ~HasFooter(tmp)
  <2> DEFINE m == n + 1
  <2>1. m \in Nat /\ Older(boot, m, tmp)
    BY <1>4, <1>9
  <2> HIDE DEF m
  <2> QED
    BY <1>4, <2>1, OlderIs
<1>11. /\ Len(given) \in Nat \ {0} /\ (HasFooter(given) <=> InfoImage(given))
  <2> DEFINE m == n + 1
  <2>1. m \in Nat /\ Known(boot, m, given)
    BY <1>4
  <2> HIDE DEF m, given
  <2> QED
    BY <1>4, <2>1, KnownFiles
<1> HIDE DEF given
<1>12. /\ size \in Nat
       /\ size = IF HasFooter(given) /\ ~failed THEN Len(given) ELSE Len(tmp) + MetadataSize
  <2>1. MetadataSize \in Nat
    BY GkiCertifyAssumption
  <2>2. AvbImageSize(given) = IF HasFooter(given) THEN Len(given) ELSE 0
    BY <1>11 DEF AvbImageSize
  <2>3. \A x : FooterSize(x) = IF x # 0 THEN x ELSE Len(tmp) + MetadataSize
    BY DEF FooterSize
  <2>4. CASE failed
    BY <1>10, <2>1, <2>3, <2>4
  <2>5. CASE ~failed
    BY <1>10, <1>11, <2>1, <2>2, <2>3, <2>5
  <2> QED
    BY <2>4, <2>5
<1> HIDE DEF size
<1>13. FooterLaid(tmp, size, tmp')
  <2>1. FooterLaid(tmp, size, AddHashFooter(tmp, size))
    BY <1>8, <1>10, <1>12, FooterIs
  <2> QED
    BY <1>8, <2>1
<1>14. Len(tmp') = size /\ EraseFooter(tmp') = tmp
  BY <1>10, <1>12, <1>13, FootedIs DEF FooterLaid
<1>15. IsResult(boot, n, extra, tmp')
  BY <1>7, <1>8, <1>12, <1>14 DEF IsResult, Footed
<1>16. current \notin unsized' <=> ~failed
  BY <1>1, <1>7
<1>17. KeepsSize(current, unsized', given, tmp')
  BY <1>12, <1>14, <1>16 DEF KeepsSize
<1>18. TmpInv'
  BY <1>2, <1>6, <1>15, <1>17 DEF TmpInv, Settled, given, InHand
<1> QED
  BY <1>2, <1>3, <1>4, <1>6, <1>18 DEF CertifyInv, InHand, Settled

LEMMA CopyOutStep ==
  ASSUME IInv, CopyOut, UNCHANGED build
  PROVE  CertifyInv'
<1>1. /\ Settled /\ Remembered /\ step = "copy_out" /\ output' = output /\ CertifyInv
      /\ work' = [work EXCEPT ![current] = tmp] /\ waiting' = waiting
      /\ step' = IF waiting # {} THEN "next" ELSE "output"
  BY DEF CopyOut, build, Settled, Remembered, Stays, IInv
<1>2. StoreInv' /\ Stored' = Stored /\ OutputInv' /\ WorkInv /\ Counted'
  BY <1>1, SettledStore, NotYet DEF CertifyInv, InHand, Counted, Remembered
<1>3. /\ IsResult(boot, ignored[current], extra, tmp)
      /\ KeepsSize(current, unsized, store[current], tmp)
  BY <1>1 DEF CertifyInv, TmpInv
<1>4. /\ DOMAIN work = Stored /\ waiting \subseteq Stored /\ current \in Stored \ waiting
      /\ \A i \in waiting : i \notin unsized
      /\ \A i \in Stored :
           IF i \in waiting \/ i = current THEN work[i] = store[i]
           ELSE /\ IsResult(boot, ignored[i], extra, work[i])
                /\ KeepsSize(i, unsized, store[i], work[i])
  BY <1>1, <1>2 DEF WorkInv, InHand
<1>5. /\ DOMAIN work' = Stored
      /\ \A i \in Stored :
           IF i \in waiting THEN work'[i] = store[i]
           ELSE /\ IsResult(boot, ignored[i], extra, work'[i])
                /\ KeepsSize(i, unsized, store[i], work'[i])
  BY <1>1, <1>3, <1>4
<1>6. WorkInv'
  BY <1>1, <1>2, <1>4, <1>5 DEF WorkInv, InHand, Settled, Remembered
<1> QED
  BY <1>1, <1>2, <1>6 DEF CertifyInv, TmpInv, InHand, Settled

LEMMA OutputStep ==
  ASSUME IInv, Output, UNCHANGED build
  PROVE  CertifyInv'
<1>1. /\ Settled /\ Remembered /\ step = "output" /\ step' = "end" /\ CertifyInv
      /\ output' = [state |-> "complete", images |-> work]
  BY DEF Output, build, Settled, Remembered, Stays, IInv
<1>2. StoreInv' /\ Stored' = Stored /\ WorkInv /\ Counted'
  BY <1>1, SettledStore DEF CertifyInv, InHand, Counted, Remembered
<1>3. /\ DOMAIN work = Stored
      /\ \A i \in Stored : /\ IsResult(boot, ignored[i], extra, work[i])
                           /\ KeepsSize(i, unsized, store[i], work[i])
  BY <1>1, <1>2 DEF WorkInv, InHand
<1>4. OutputInv'
  BY <1>1, <1>2, <1>3 DEF OutputInv, Settled, Remembered
<1> QED
  BY <1>1, <1>2, <1>4 DEF CertifyInv, TmpInv, InHand, Settled

LEMMA AgainStep ==
  ASSUME IInv, Again, UNCHANGED build
  PROVE  CertifyInv'
<1>1. /\ pc' = pc /\ cmd' = cmd /\ boot' = boot /\ CertifyInv
      /\ step = "end" /\ output.state = "complete" /\ step' = "ready"
      /\ store' = [i \in Image |-> IF i \in DOMAIN output.images THEN output.images[i] ELSE << >>]
      /\ output' = NoOutput /\ extra' \in DOMAIN CertificateLength
      /\ ignored' = ignored /\ unsized' = {}
  BY DEF Again, build, IInv
<1>2. StoreInv /\ extra \in DOMAIN CertificateLength /\ Counted
  BY <1>1 DEF CertifyInv
<1>3. /\ DOMAIN output.images = Stored
      /\ \A i \in Stored : IsResult(boot, ignored[i], extra, output.images[i])
  BY <1>1 DEF CertifyInv, OutputInv
<1>4. IsBoot(boot)
  BY <1>2, BootIsBoot DEF StoreInv, IInv
<1>5. ASSUME NEW i \in Stored PROVE Known(boot, ignored[i] + 1, output.images[i])
  <2>1. i \in Image /\ ignored[i] \in Nat
    BY <1>2 DEF Stored, Counted
  <2> QED
    BY <1>2, <1>3, <1>4, <2>1, ResultKnown
<1>6. StoreInv'
  BY <1>1, <1>2, <1>3, <1>5 DEF StoreInv
<1>7. OutputInv' /\ Counted'
  BY <1>1, <1>2 DEF OutputInv, NoOutput, Counted
<1> QED
  BY <1>1, <1>6, <1>7 DEF CertifyInv, TmpInv, InHand

LEMMA StopStep ==
  ASSUME IInv, Stops, UNCHANGED build
  PROVE  CertifyInv'
<1>1. /\ Settled /\ Remembered /\ step' = "failed" /\ step \notin {"build", "end"} /\ CertifyInv
      /\ output' = output \/ output' = [NoOutput EXCEPT !.state = "part"]
  BY DEF Stops, build, Settled, Remembered, Stays, IInv
<1>2. StoreInv' /\ Counted'
  BY <1>1, SettledStore DEF CertifyInv, Counted, Remembered
<1>3. OutputInv'
  BY <1>1 DEF CertifyInv, OutputInv, NoOutput
<1> QED
  BY <1>1, <1>2, <1>3 DEF CertifyInv, TmpInv, InHand, Settled

(* mkbootimg ends before its image is stored.                              *)
LEMMA BuildingStep ==
  ASSUME IInv, BuildNext, UNCHANGED certify
  PROVE  CertifyInv'
<1>1. pc # "done"
  BY DEF BuildNext, Start, Write, Finish
<1>2. /\ step = "build" /\ step' = step /\ extra' = extra /\ output' = output
      /\ Remembered
  BY <1>1 DEF IInv, CertifyInv, StoreInv, certify, Remembered
<1> QED
  BY <1>2 DEF IInv, CertifyInv, TmpInv, OutputInv, InHand, Counted, Remembered

LEMMA CertifyStep ==
  ASSUME IInv, [Next]_vars
  PROVE  IInv'
<1>1. [BuildNext]_build
  BY DEF Next, vars
<1>2. BuildInv'
  BY <1>1, BuildStep DEF IInv
<1>3. CASE BuildNext /\ UNCHANGED certify
  BY <1>2, <1>3, BuildingStep DEF IInv
<1>4. CASE CertifyNext /\ UNCHANGED build
  BY <1>2, <1>4, StoreStep, UnpackStep, CopyInStep, EraseFooterStep, EraseCertificateStep,
     AddCertificateStep, AddFooterStep, CopyOutStep, OutputStep, AgainStep, StopStep
  DEF CertifyNext, IInv
<1>5. CASE UNCHANGED vars
  <2>1. /\ Settled /\ Remembered /\ step' = step /\ work' = work /\ waiting' = waiting
        /\ current' = current /\ tmp' = tmp /\ output' = output
    BY <1>5 DEF vars, build, certify, Settled, Remembered
  <2>2. Stored' = Stored
    BY <2>1 DEF Stored, Settled
  <2>3. CertifyInv'
    BY <2>1, <2>2 DEF IInv, CertifyInv, Counted, StoreInv, WorkInv, TmpInv, OutputInv,
                      Settled, Remembered
  <2> QED
    BY <1>2, <2>3 DEF IInv
<1> QED
  BY <1>3, <1>4, <1>5 DEF Next

LEMMA CertifyInvHolds == Spec => []IInv
<1>1. Init => IInv
  BY DEF Init, BuildInit, CertifyInit, IInv, BuildInv, CertifyInv, TmpInv, OutputInv,
         NoOutput, InHand, Counted
<1>2. IInv /\ [Next]_vars => IInv'
  BY CertifyStep
<1> QED
  BY <1>1, <1>2, PTL DEF Spec

-----------------------------------------------------------------------------
(* What comes out.                                                         *)

LEMMA ResultIs ==
  ASSUME BuildInv, pc = "done", cmd.output, extra \in DOMAIN CertificateLength,
         NEW n, NEW f, n \in Nat, IsResult(boot, n, extra, f)
  PROVE  LET file == EraseFooter(f)
             body == SubSeq(file, 1, Len(file) - BootSignatureSize)
             certs == LastBytes(file)
         IN  /\ HasFooter(f) /\ InfoImage(f)
             /\ f[Len(file) + 1] = << "vbmeta", "boot", file >>
             /\ \E older \in 0..n : Len(body) = Len(boot) + older * BootSignatureSize
             /\ SubSeq(body, 1, Len(boot)) = boot
             /\ certs[1] = << "vbmeta", "boot", body >>
             /\ certs[CertificateLength[extra] + 1] =
                  << "vbmeta", "generic_kernel", Given("kernel") >>
<1>1. PICK y : IsCertified(boot, n, extra, y) /\ Footed(f, y)
  BY DEF IsResult
<1>2. CertificatesFit(extra)
  BY <1>1 DEF IsCertified
<1>3. PICK x : Older(boot, n, x) /\ y = Certified(x, extra)
  BY <1>1 DEF IsCertified
<1>4. PICK k \in 0..n : Stack(boot, k, x)
  BY <1>3 DEF Older
<1>5. IsBoot(boot) /\ k \in Nat /\ n + 1 \in Nat
  BY BootIsBoot
<1>6. Older(boot, n + 1, y)
  BY <1>1, <1>5, CertifiedOlder
<1>7. /\ HasFooter(f) /\ InfoImage(f) /\ EraseFooter(f) = y
      /\ f[Len(y) + 1] = << "vbmeta", "boot", y >>
  <2> DEFINE m == n + 1
  <2>1. m \in Nat /\ Older(boot, m, y)
    BY <1>5, <1>6
  <2> HIDE DEF m
  <2> QED
    BY <1>1, <1>5, <2>1, FootedOlder
<1>8. IsFile(x) /\ Len(x) \in Nat
  BY <1>4, <1>5, StackBare
<1>9. /\ IsFile(y) /\ Len(y) = Len(x) + BootSignatureSize /\ SubSeq(y, 1, Len(x)) = x
      /\ LastBytes(y)[1] = << "vbmeta", "boot", x >>
      /\ LastBytes(y)[CertificateLength[extra] + 1] =
            << "vbmeta", "generic_kernel", LoadKernel(x) >>
  BY <1>2, <1>3, <1>8, CertifiedIs
<1>10. LoadKernel(x) = Given("kernel")
  BY <1>4, <1>5, StackKernel
<1>11. SubSeq(y, 1, Len(y) - BootSignatureSize) = x
  <2>1. Len(y) - BootSignatureSize = Len(x)
    BY <1>8, <1>9, GkiCertifyAssumption
  <2> QED
    BY <1>9, <2>1
<1>12. Len(x) = Len(boot) + k * BootSignatureSize
  BY <1>4 DEF Stack
<1>13. SubSeq(x, 1, Len(boot)) = boot
  <2>1. Len(boot) \in 0..Len(x) /\ IsFile(boot)
    <3> DEFINE w == k * BootSignatureSize
    <3>1. w \in Nat /\ Len(x) = Len(boot) + w /\ Len(boot) \in Nat
      BY <1>4, <1>5, StackLength
    <3> HIDE DEF w
    <3> QED
      BY <1>5, <3>1 DEF IsBoot
  <2> DEFINE s == SubSeq(x, 1, Len(boot))
  <2>2. IsFile(s) /\ Len(s) = Len(boot) /\ \A i \in 1..Len(boot) : s[i] = x[i]
    BY <1>8, <2>1, CutIs
  <2> HIDE DEF s
  <2>3. \A i \in 1..Len(boot) : x[i] = boot[i]
    BY <1>4 DEF Stack
  <2>4. s = boot
    BY <2>1, <2>2, <2>3, FilesEqual
  <2> QED
    BY <2>4 DEF s
<1> QED
  BY <1>4, <1>7, <1>9, <1>10, <1>11, <1>12, <1>13

LEMMA Outcome ==
  ASSUME IInv, output.state = "complete"
  PROVE  /\ BuildInv /\ pc = "done" /\ cmd.output /\ extra \in DOMAIN CertificateLength
         /\ DOMAIN output.images = Stored
         /\ \A i \in Stored : /\ ignored[i] \in Nat
                              /\ IsResult(boot, ignored[i], extra, output.images[i])
                              /\ KeepsSize(i, unsized, store[i], output.images[i])
BY DEF IInv, CertifyInv, OutputInv, StoreInv, Counted, Stored

(* certify_bootimg: what is certified is the image mkbootimg wrote, with   *)
(* no more older certificates behind it than failures of avbtool have been *)
(* ignored, and the kernel in it, however often the output is certified    *)
(* again, alone or in an archive, with certificates of any length that     *)
(* fits the block.                                                         *)
THEOREM OnlyTheBuildIsCertified == Spec => []CertifiesTheBuild
<1>1. IInv => CertifiesTheBuild
  <2> SUFFICES ASSUME IInv, output.state = "complete"
               PROVE  DOMAIN output.images = Stored /\ \A i \in Stored :
                        LET file == EraseFooter(output.images[i])
                            body == SubSeq(file, 1, Len(file) - BootSignatureSize)
                            certs == LastBytes(file)
                        IN  /\ HasFooter(output.images[i])
                            /\ \E older \in 0..ignored[i] :
                                 Len(body) = Len(boot) + older * BootSignatureSize
                            /\ SubSeq(body, 1, Len(boot)) = boot
                            /\ certs[1] = << "vbmeta", "boot", body >>
                            /\ certs[CertificateLength[extra] + 1] =
                                 << "vbmeta", "generic_kernel", Given("kernel") >>
    BY DEF CertifiesTheBuild
  <2>1. DOMAIN output.images = Stored
    BY Outcome
  <2>2. ASSUME NEW i \in Stored
        PROVE  LET file == EraseFooter(output.images[i])
                   body == SubSeq(file, 1, Len(file) - BootSignatureSize)
                   certs == LastBytes(file)
               IN  /\ HasFooter(output.images[i])
                   /\ \E older \in 0..ignored[i] :
                        Len(body) = Len(boot) + older * BootSignatureSize
                   /\ SubSeq(body, 1, Len(boot)) = boot
                   /\ certs[1] = << "vbmeta", "boot", body >>
                   /\ certs[CertificateLength[extra] + 1] =
                        << "vbmeta", "generic_kernel", Given("kernel") >>
    <3> DEFINE f == output.images[i]
               n == ignored[i]
    <3>1. /\ BuildInv /\ pc = "done" /\ cmd.output /\ extra \in DOMAIN CertificateLength
          /\ n \in Nat /\ IsResult(boot, n, extra, f)
      BY Outcome
    <3> HIDE DEF f, n
    <3>2. LET file == EraseFooter(f)
              body == SubSeq(file, 1, Len(file) - BootSignatureSize)
              certs == LastBytes(file)
          IN  /\ HasFooter(f)
              /\ \E older \in 0..n : Len(body) = Len(boot) + older * BootSignatureSize
              /\ SubSeq(body, 1, Len(boot)) = boot
              /\ certs[1] = << "vbmeta", "boot", body >>
              /\ certs[CertificateLength[extra] + 1] =
                   << "vbmeta", "generic_kernel", Given("kernel") >>
      BY <3>1, ResultIs
    <3> QED
      BY <3>2 DEF f, n
  <2> QED
    BY <2>1, <2>2
<1> QED
  BY <1>1, CertifyInvHolds, PTL

(* certify_bootimg: the footer that is added covers the image and its      *)
(* certificates, and a partition keeps its size unless avbtool failed when *)
(* it was asked for it.                                                    *)
THEOREM FooterIsOfTheCertified == Spec => []FooterCoversCertificates
<1>1. IInv => FooterCoversCertificates
  <2> SUFFICES ASSUME IInv, output.state = "complete", NEW i \in DOMAIN output.images
               PROVE  LET file == output.images[i]
                          covered == EraseFooter(file)
                      IN  /\ InfoImage(file)
                          /\ file[Len(covered) + 1] = << "vbmeta", "boot", covered >>
                          /\ Len(file) = IF HasFooter(store[i]) /\ i \notin unsized
                                         THEN Len(store[i]) ELSE Len(covered) + MetadataSize
    BY DEF FooterCoversCertificates
  <2>1. i \in Stored
    BY Outcome
  <2> QED
    BY <2>1, Outcome, ResultIs DEF KeepsSize
<1> QED
  BY <1>1, CertifyInvHolds, PTL
=============================================================================
