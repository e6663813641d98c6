-------------------------- MODULE RecoveryBootProofs --------------------------
(***************************************************************************)
(* For all scripts installed besides init's own, all services that may     *)
(* fail, any number of crashes and of switches of the USB mode: types are  *)
(* kept, the USB daemons never start before their functionfs is mounted,   *)
(* a launcher's report is not reset, and the USB gadget ends as what       *)
(* sys.usb.config asks for.                                                *)
(*                                                                         *)
(* In this order: sequences; the actions of the scripts; what each event   *)
(* selects; what each command and each step of a process changes; types;   *)
(* the boot, up to the property triggers, and the first three theorems;    *)
(* the daemons' processes; the order of the switches; the gadget, when an  *)
(* event is taken, between two commands and when a command is executed.    *)
(***************************************************************************)
EXTENDS RecoveryBootInv, FiniteSetTheorems, SequenceTheorems, TLAPS

-----------------------------------------------------------------------------
(* Sequences.                                                              *)

(* Nth counts the elements of a set of numbers in their order.             *)
LEMMA Ranks ==
  ASSUME NEW n \in Nat, NEW S \in SUBSET (1..n)
  PROVE  /\ Cardinality(S) \in Nat
         /\ \A k \in 1..Cardinality(S) : Nth(S, k) \in S
         /\ \A i \in S : \E k \in 1..Cardinality(S) : Nth(S, k) = i
         /\ \A k, l \in 1..Cardinality(S) : k < l => Nth(S, k) < Nth(S, l)
<1> DEFINE upto(i) == {j \in S : j <= i}
           rank(i) == Cardinality(upto(i))
           c == Cardinality(S)
           f == [i \in S |-> rank(i)]
<1>1. IsFiniteSet(S) /\ c \in Nat
  <2>1. IsFiniteSet(1..n)
    BY FS_Interval
  <2>2. IsFiniteSet(S)
    BY <2>1, FS_Subset
  <2> QED
    BY <2>2, FS_CardinalityType
<1>2. ASSUME NEW i \in S
      PROVE  IsFiniteSet(upto(i)) /\ rank(i) \in 1..c
  <2>1. upto(i) \in SUBSET S /\ i \in upto(i)
    OBVIOUS
  <2> HIDE DEF upto
  <2>2. IsFiniteSet(upto(i)) /\ rank(i) <= c
    BY <2>1, <1>1, FS_Subset
  <2>3. rank(i) \in Nat /\ rank(i) # 0
    BY <2>1, <2>2, FS_CardinalityType, FS_EmptySet
  <2> HIDE DEF rank, c
  <2>4. rank(i) \in 1..c
    BY <1>1, <2>2, <2>3
  <2> QED
    BY <2>2, <2>4
<1>3. ASSUME NEW i \in S, NEW j \in S, i < j
      PROVE  rank(i) < rank(j)
  <2> S \subseteq Int
    OBVIOUS
  <2>1. upto(i) \in SUBSET upto(j) /\ j \in upto(j) /\ j \notin upto(i)
    <3>1. \A x \in S : x <= i => x <= j
      BY <1>3
    <3>2. j <= j /\ ~(j <= i)
      BY <1>3
    <3> QED
      BY <3>1, <3>2
  <2>2. rank(i) \in Nat /\ rank(j) \in Nat /\ IsFiniteSet(upto(j))
    <3>1. rank(i) \in 1..c /\ rank(j) \in 1..c /\ IsFiniteSet(upto(j))
      BY <1>2
    <3> HIDE DEF rank, upto, c
    <3> QED
      BY <3>1
  <2> HIDE DEF upto
  <2>3. rank(i) <= rank(j) /\ rank(i) # rank(j)
    BY <2>1, <2>2, FS_Subset
  <2> HIDE DEF rank
  <2> QED
    BY <2>2, <2>3
<1>4. \A i, j \in S : rank(i) = rank(j) => i = j
  <2> SUFFICES ASSUME NEW i \in S, NEW j \in S, i # j PROVE rank(i) # rank(j)
    OBVIOUS
  <2>1. rank(i) \in Int /\ rank(j) \in Int
    <3>1. rank(i) \in 1..c /\ rank(j) \in 1..c
      BY <1>2
    <3> HIDE DEF rank, c
    <3> QED
      BY <3>1
  <2>2. CASE i < j
    <3>1. rank(i) < rank(j)
      BY <2>2, <1>3
    <3> HIDE DEF rank
    <3> QED
      BY <2>1, <3>1
  <2>3. CASE j < i
    <3>1. rank(j) < rank(i)
      BY <2>3, <1>3
    <3> HIDE DEF rank
    <3> QED
      BY <2>1, <3>1
  <2> QED
    BY <2>2, <2>3
<1>5. f \in Surjection(S, 1..c)
  <2>1. \A i \in S : rank(i) \in 1..c
    BY <1>2
  <2> HIDE DEF rank
  <2>2. f \in Injection(S, 1..c)
    BY <2>1, <1>4 DEF Injection, IsInjective
  <2>3. IsFiniteSet(1..c) /\ Cardinality(1..c) = c
    BY <1>1, FS_Interval
  <2> HIDE DEF f
  <2> QED
    BY <2>2, <2>3, FS_Injection
<1>6. ASSUME NEW k \in 1..c
      PROVE  Nth(S, k) \in S /\ rank(Nth(S, k)) = k
  <2>1. PICK i \in S : f[i] = k
    BY <1>5 DEF Surjection
  <2>2. Cardinality({j \in S : j <= i}) = k
    BY <2>1
  <2> QED
    BY <2>2 DEF Nth
<1>7. ASSUME NEW i \in S
      PROVE  \E k \in 1..c : Nth(S, k) = i
  <2>1. rank(i) \in 1..c
    BY <1>2
  <2>2. Nth(S, rank(i)) \in S /\ rank(Nth(S, rank(i))) = rank(i)
    BY <2>1, <1>6
  <2> HIDE DEF rank
  <2> QED
    BY <2>1, <2>2, <1>4
<1>8. ASSUME NEW k \in 1..c, NEW l \in 1..c, k < l
      PROVE  Nth(S, k) < Nth(S, l)
  <2>1. /\ Nth(S, k) \in S /\ rank(Nth(S, k)) = k
        /\ Nth(S, l) \in S /\ rank(Nth(S, l)) = l
    BY <1>6
  <2>2. Nth(S, l) < Nth(S, k) => rank(Nth(S, l)) < rank(Nth(S, k))
    BY <2>1, <1>3
  <2> HIDE DEF rank
  <2>3. Nth(S, k) \in Int /\ Nth(S, l) \in Int
    <3>1. \A x \in S : x \in Int
      OBVIOUS
    <3> QED
      BY <2>1, <3>1
  <2>4. k \in Int /\ l \in Int
    BY <1>1
  <2>5. ~(Nth(S, l) < Nth(S, k)) /\ Nth(S, l) # Nth(S, k)
    BY <1>8, <2>1, <2>2, <2>4
  <2> QED
    BY <2>3, <2>5
<1> QED
  BY <1>1, <1>6, <1>7, <1>8

-----------------------------------------------------------------------------
(* The elements of sequences.                                              *)
LEMMA ElemsOf ==
  ASSUME NEW S, NEW s \in Seq(S)
  PROVE  /\ Elems(s) \subseteq S /\ Len(s) \in Nat
         /\ s # << >> <=> Len(s) # 0
         /\ \A i \in 1..Len(s) : s[i] \in Elems(s)
         /\ \A x \in Elems(s) : \E i \in 1..Len(s) : s[i] = x
BY DEF Elems

(* The elements of two sequences in a row, and of a tail.                  *)
LEMMA ElemsConcat ==
  ASSUME NEW S, NEW s \in Seq(S), NEW t \in Seq(S)
  PROVE  s \o t \in Seq(S) /\ Elems(s \o t) = Elems(s) \cup Elems(t)
<1>1. /\ s \o t \in Seq(S) /\ Len(s \o t) = Len(s) + Len(t)
      /\ \A i \in 1..(Len(s) + Len(t)) : (s \o t)[i] = IF i <= Len(s) THEN s[i] ELSE t[i - Len(s)]
  BY ConcatProperties
<1>2. Len(s) \in Nat /\ Len(t) \in Nat
  OBVIOUS
<1> DEFINE u == s \o t
<1> HIDE DEF u
<1>3. ASSUME NEW x \in Elems(u) PROVE x \in Elems(s) \cup Elems(t)
  <2>1. PICK i \in 1..(Len(s) + Len(t)) : u[i] = x
    BY <1>1, <1>3 DEF Elems, u
  <2>2. CASE i <= Len(s)
    BY <1>1, <1>2, <2>1, <2>2 DEF Elems, u
  <2>3. CASE ~(i <= Len(s))
    <3>1. i - Len(s) \in 1..Len(t) /\ t[i - Len(s)] = x
      BY <1>1, <1>2, <2>1, <2>3 DEF u
    <3> QED
      BY <3>1 DEF Elems
  <2> QED
    BY <2>2, <2>3
<1>4. ASSUME NEW i \in 1..Len(s) PROVE s[i] \in Elems(u)
  <2>1. i \in 1..(Len(s) + Len(t)) /\ i <= Len(s)
    BY <1>2
  <2> QED
    BY <2>1, <1>1 DEF Elems, u
<1>5. ASSUME NEW i \in 1..Len(t) PROVE t[i] \in Elems(u)
  <2>1. Len(s) + i \in 1..(Len(s) + Len(t)) /\ ~(Len(s) + i <= Len(s)) /\ (Len(s) + i) - Len(s) = i
    BY <1>2
  <2>2. u[Len(s) + i] = t[i]
    BY <2>1, <1>1 DEF u
  <2> QED
    BY <2>1, <2>2, <1>1 DEF Elems, u
<1>6. Elems(u) = Elems(s) \cup Elems(t)
  BY <1>3, <1>4, <1>5 DEF Elems
<1> QED
  BY <1>1, <1>6 DEF u

LEMMA ElemsTail ==
  ASSUME NEW S, NEW s \in Seq(S), s # << >>
  PROVE  /\ Head(s) = s[1] /\ Head(s) \in S /\ Tail(s) \in Seq(S)
         /\ Len(Tail(s)) = Len(s) - 1 /\ Len(s) \in Nat \ {0}
         /\ \A i \in 1..(Len(s) - 1) : Tail(s)[i] = s[i + 1]
         /\ Elems(s) = {Head(s)} \cup Elems(Tail(s))
<1>1. /\ Head(s) = s[1] /\ Head(s) \in S /\ Tail(s) \in Seq(S)
      /\ Len(Tail(s)) = Len(s) - 1 /\ Len(s) \in Nat \ {0}
      /\ \A i \in 1..(Len(s) - 1) : Tail(s)[i] = s[i + 1]
  OBVIOUS
<1> DEFINE t == Tail(s)
<1> HIDE DEF t
<1>2. ASSUME NEW i \in 1..Len(s) PROVE s[i] \in {s[1]} \cup Elems(t)
  <2>1. CASE i = 1
    BY <2>1
  <2>2. CASE i # 1
    <3>1. i - 1 \in 1..(Len(s) - 1) /\ (i - 1) + 1 = i
      BY <2>2, <1>1
    <3> QED
      BY <3>1, <1>1 DEF t, Elems
  <2> QED
    BY <2>1, <2>2
<1>3. ASSUME NEW i \in 1..Len(t) PROVE t[i] \in Elems(s)
  <2>1. i + 1 \in 1..Len(s) /\ t[i] = s[i + 1]
    BY <1>1 DEF t
  <2> QED
    BY <2>1 DEF Elems
<1>4. s[1] \in Elems(s)
  BY <1>1 DEF Elems
<1>5. Elems(s) = {s[1]} \cup Elems(t)
  BY <1>2, <1>3, <1>4 DEF Elems
<1> QED
  BY <1>1, <1>5 DEF t

-----------------------------------------------------------------------------
(* The actions of the scripts by name, and what they are.                  *)
EarlyInitRow == OnStage("early-init", << SetProp("configfs", "1") >>)
InitRow == OnStage("init", << Start("selinux-permissive") >>)
LateInitRow ==
  OnStage("late-init", << Trigger("early-fs"), Trigger("fs"), Trigger("post-fs"), Trigger("post-fs-data"),
       Trigger("firmware_mounts_complete"), Trigger("early-boot"), Trigger("boot") >>)
PostFsDataRow == OnStage("post-fs-data", << SetProp("config", "adb") >>)
ResetReadyRow == OnStage("early-boot", << SetProp("connsys", "no") >>)
LoadWlanRow == OnStage("boot", << MountNvdata, Start("load_wlan_driver") >>)
HelperRow ==
  OnProps({<< "load_wlan_driver", "stopped" >>}, << Start("wifi-helper") >>)
AdbRootRow == OnProps({<< "adb.root", "1" >>}, << Restart("adbd") >>)
MakeRow == On("fs", {<< "configfs", "1" >>},
     << MountConfigfs, MakeFunction("adb"), MakeFunction("fastboot") >>)
MountRow ==
  OnStage("fs", << MountFunctionfs("adb"), MountFunctionfs("fastboot") >>)
StartAdbRow == OnProps({<< "config", "adb" >>}, << Start("adbd") >>)
StartFastbootRow ==
  OnProps({<< "config", "fastboot" >>}, << Start("fastbootd") >>)
TouchRow == OnStage("boot", << Start("focaltech-tp") >>)
DroidspacesdRow == OnStage("boot", << Start("droidspacesd") >>)
ContainerRow ==
  OnProps({<< "droidspacesd", "running" >>}, << Start("ubuntu-droidspaces") >>)

RowsOf(script) ==
  CASE script = "init" -> {EarlyInitRow, InitRow, LateInitRow, PostFsDataRow}
    [] script = "wlan" -> {ResetReadyRow, LoadWlanRow, HelperRow}
    [] script = "usb" -> {AdbRootRow, MakeRow, MountRow, StartAdbRow,
                             StartFastbootRow, Decompose, Compose("sideload"), Compose("adb"), Compose("fastboot")}
    [] script = "touch" -> {TouchRow}
    [] script = "droidspaces" -> {DroidspacesdRow, ContainerRow}

(* Lists of commands and of actions, written out.                          *)
LEMMA Elems1 ==
  ASSUME NEW S, NEW a \in S
  PROVE  /\ << a >> \in Seq(S) \ {<< >>} /\ Len(<< a >>) = 1
         /\ Elems(<< a >>) = {a}
BY DEF Elems

LEMMA Elems2 ==
  ASSUME NEW S, NEW a \in S, NEW b \in S
  PROVE  /\ << a, b >> \in Seq(S) \ {<< >>} /\ Len(<< a, b >>) = 2
         /\ Elems(<< a, b >>) = {a, b}
BY DEF Elems

LEMMA Elems3 ==
  ASSUME NEW S, NEW a \in S, NEW b \in S, NEW c \in S
  PROVE  /\ << a, b, c >> \in Seq(S) \ {<< >>} /\ Len(<< a, b, c >>) = 3
         /\ Elems(<< a, b, c >>) = {a, b, c}
BY DEF Elems

LEMMA Elems4 ==
  ASSUME NEW S, NEW a \in S, NEW b \in S, NEW c \in S, NEW d \in S
  PROVE  /\ << a, b, c, d >> \in Seq(S) \ {<< >>} /\ Len(<< a, b, c, d >>) = 4
         /\ Elems(<< a, b, c, d >>) = {a, b, c, d}
BY DEF Elems

LEMMA Elems6 ==
  ASSUME NEW S, NEW a \in S, NEW b \in S, NEW c \in S, NEW d \in S, NEW e \in S, NEW f \in S
  PROVE  /\ << a, b, c, d, e, f >> \in Seq(S) \ {<< >>} /\ Len(<< a, b, c, d, e, f >>) = 6
         /\ Elems(<< a, b, c, d, e, f >>) = {a, b, c, d, e, f}
BY DEF Elems

LEMMA Elems7 ==
  ASSUME NEW S, NEW a \in S, NEW b \in S, NEW c \in S, NEW d \in S, NEW e \in S, NEW f \in S, NEW g \in S
  PROVE  /\ << a, b, c, d, e, f, g >> \in Seq(S) \ {<< >>} /\ Len(<< a, b, c, d, e, f, g >>) = 7
         /\ Elems(<< a, b, c, d, e, f, g >>) = {a, b, c, d, e, f, g}
BY DEF Elems

LEMMA Elems9 ==
  ASSUME NEW S, NEW a \in S, NEW b \in S, NEW c \in S, NEW d \in S, NEW e \in S, NEW f \in S, NEW g \in S, NEW h \in S, NEW i \in S
  PROVE  /\ << a, b, c, d, e, f, g, h, i >> \in Seq(S) \ {<< >>} /\ Len(<< a, b, c, d, e, f, g, h, i >>) = 9
         /\ Elems(<< a, b, c, d, e, f, g, h, i >>) = {a, b, c, d, e, f, g, h, i}
BY DEF Elems

(* The conditions of the actions name properties and their values.         *)
LEMMA PropPairs ==
  /\ << "load_wlan_driver", "stopped" >> \in Names \X Values
  /\ << "adb.root", "1" >> \in Names \X Values
  /\ << "configfs", "1" >> \in Names \X Values
  /\ << "config", "adb" >> \in Names \X Values
  /\ << "config", "fastboot" >> \in Names \X Values
  /\ << "config", "none" >> \in Names \X Values
  /\ << "config", "sideload" >> \in Names \X Values
  /\ << "ffs.ready", "1" >> \in Names \X Values
  /\ << "droidspacesd", "running" >> \in Names \X Values
BY DEF BootStages, Names, Values, Services, Oneshots, InitOneshots, WlanOneshots, TouchOneshots,
         ContainerOneshots, ContainerDaemons, UsbDaemons, Daemons, Modes

(* Each action: its stage, its conditions and its commands.                *)
LEMMA EarlyInitIs ==
  /\ EarlyInitRow \in Rows /\ EarlyInitRow.stage = "early-init"
  /\ EarlyInitRow.props = {}
  /\ EarlyInitRow.cmds = << SetProp("configfs", "1") >>
  /\ Elems(EarlyInitRow.cmds) = {SetProp("configfs", "1")}
<1> DEFINE c == << SetProp("configfs", "1") >>
           p == {}
           st == "early-init"
<1>1. /\ SetProp("configfs", "1") \in Commands
  BY DEF Commands, Verbs, Names, Values, BootStages, Functions, Good, DeviceCommands,
         Services, Oneshots, InitOneshots, WlanOneshots, TouchOneshots,
         ContainerOneshots, ContainerDaemons, UsbDaemons, Daemons, Modes, FunctionOf, Cmd, SetProp, CopyProp, Start,
         Stop, Restart, Trigger, MountConfigfs, MakeFunction, MountFunctionfs, IdProduct,
         Link, Unlink, BindUdc, UnbindUdc, MountNvdata
<1>2. c \in Seq(Commands) \ {<< >>} /\ Elems(c) = {SetProp("configfs", "1")}
  BY <1>1, Elems1
<1>3. p \in SUBSET (Names \X Values)
  BY PropPairs
<1>4. st \in BootStages \cup {""}
  BY DEF BootStages
<1>5. EarlyInitRow = On(st, p, c)
  BY DEF OnStage, OnProps, EarlyInitRow
<1> HIDE DEF c, p, st
<1>6. EarlyInitRow \in Rows /\ EarlyInitRow.stage = st /\ EarlyInitRow.props = p /\ EarlyInitRow.cmds = c
  BY <1>2, <1>3, <1>4, <1>5 DEF On, Rows
<1> QED
  BY <1>2, <1>6 DEF c, p, st

LEMMA InitIs ==
  /\ InitRow \in Rows /\ InitRow.stage = "init"
  /\ InitRow.props = {}
  /\ InitRow.cmds = << Start("selinux-permissive") >>
  /\ Elems(InitRow.cmds) = {Start("selinux-permissive")}
<1> DEFINE c == << Start("selinux-permissive") >>
           p == {}
           st == "init"
<1>1. /\ Start("selinux-permissive") \in Commands
  BY DEF Commands, Verbs, Names, Values, BootStages, Functions, Good, DeviceCommands,
         Services, Oneshots, InitOneshots, WlanOneshots, TouchOneshots,
         ContainerOneshots, ContainerDaemons, UsbDaemons, Daemons, Modes, FunctionOf, Cmd, SetProp, CopyProp, Start,
         Stop, Restart, Trigger, MountConfigfs, MakeFunction, MountFunctionfs, IdProduct,
         Link, Unlink, BindUdc, UnbindUdc, MountNvdata
<1>2. c \in Seq(Commands) \ {<< >>} /\ Elems(c) = {Start("selinux-permissive")}
  BY <1>1, Elems1
<1>3. p \in SUBSET (Names \X Values)
  BY PropPairs
<1>4. st \in BootStages \cup {""}
  BY DEF BootStages
<1>5. InitRow = On(st, p, c)
  BY DEF OnStage, OnProps, InitRow
<1> HIDE DEF c, p, st
<1>6. InitRow \in Rows /\ InitRow.stage = st /\ InitRow.props = p /\ InitRow.cmds = c
  BY <1>2, <1>3, <1>4, <1>5 DEF On, Rows
<1> QED
  BY <1>2, <1>6 DEF c, p, st

LEMMA LateInitIs ==
  /\ LateInitRow \in Rows /\ LateInitRow.stage = "late-init"
  /\ LateInitRow.props = {}
  /\ LateInitRow.cmds = << Trigger("early-fs"), Trigger("fs"), Trigger("post-fs"),
       Trigger("post-fs-data"), Trigger("firmware_mounts_complete"), Trigger("early-boot"), Trigger("boot") >>
  /\ Elems(LateInitRow.cmds) = {Trigger("early-fs"), Trigger("fs"), Trigger("post-fs"),
       Trigger("post-fs-data"), Trigger("firmware_mounts_complete"), Trigger("early-boot"), Trigger("boot")}
<1> DEFINE c == << Trigger("early-fs"), Trigger("fs"), Trigger("post-fs"),
       Trigger("post-fs-data"), Trigger("firmware_mounts_complete"), Trigger("early-boot"), Trigger("boot") >>
           p == {}
           st == "late-init"
<1>1. /\ Trigger("early-fs") \in Commands
      /\ Trigger("fs") \in Commands
      /\ Trigger("post-fs") \in Commands
      /\ Trigger("post-fs-data") \in Commands
      /\ Trigger("firmware_mounts_complete") \in Commands
      /\ Trigger("early-boot") \in Commands
      /\ Trigger("boot") \in Commands
  BY DEF Commands, Verbs, Names, Values, BootStages, Functions, Good, DeviceCommands,
         Services, Oneshots, InitOneshots, WlanOneshots, TouchOneshots,
         ContainerOneshots, ContainerDaemons, UsbDaemons, Daemons, Modes, FunctionOf, Cmd, SetProp, CopyProp, Start,
         Stop, Restart, Trigger, MountConfigfs, MakeFunction, MountFunctionfs, IdProduct,
         Link, Unlink, BindUdc, UnbindUdc, MountNvdata
<1>2. c \in Seq(Commands) \ {<< >>} /\ Elems(c) = {Trigger("early-fs"), Trigger("fs"), Trigger("post-fs"),
       Trigger("post-fs-data"), Trigger("firmware_mounts_complete"), Trigger("early-boot"), Trigger("boot")}
  BY <1>1, SMTT(60) DEF Elems
<1>3. p \in SUBSET (Names \X Values)
  BY PropPairs
<1>4. st \in BootStages \cup {""}
  BY DEF BootStages
<1>5. LateInitRow = On(st, p, c)
  BY DEF OnStage, OnProps, LateInitRow
<1> HIDE DEF c, p, st
<1>6. LateInitRow \in Rows /\ LateInitRow.stage = st /\ LateInitRow.props = p /\ LateInitRow.cmds = c
  BY <1>2, <1>3, <1>4, <1>5 DEF On, Rows
<1> QED
  BY <1>2, <1>6 DEF c, p, st

LEMMA PostFsDataIs ==
  /\ PostFsDataRow \in Rows /\ PostFsDataRow.stage = "post-fs-data"
  /\ PostFsDataRow.props = {}
  /\ PostFsDataRow.cmds = << SetProp("config", "adb") >>
  /\ Elems(PostFsDataRow.cmds) = {SetProp("config", "adb")}
<1> DEFINE c == << SetProp("config", "adb") >>
           p == {}
           st == "post-fs-data"
<1>1. /\ SetProp("config", "adb") \in Commands
  BY DEF Commands, Verbs, Names, Values, BootStages, Functions, Good, DeviceCommands,
         Services, Oneshots, InitOneshots, WlanOneshots, TouchOneshots,
         ContainerOneshots, ContainerDaemons, UsbDaemons, Daemons, Modes, FunctionOf, Cmd, SetProp, CopyProp, Start,
         Stop, Restart, Trigger, MountConfigfs, MakeFunction, MountFunctionfs, IdProduct,
         Link, Unlink, BindUdc, UnbindUdc, MountNvdata
<1>2. c \in Seq(Commands) \ {<< >>} /\ Elems(c) = {SetProp("config", "adb")}
  BY <1>1, Elems1
<1>3. p \in SUBSET (Names \X Values)
  BY PropPairs
<1>4. st \in BootStages \cup {""}
  BY DEF BootStages
<1>5. PostFsDataRow = On(st, p, c)
  BY DEF OnStage, OnProps, PostFsDataRow
<1> HIDE DEF c, p, st
<1>6. PostFsDataRow \in Rows /\ PostFsDataRow.stage = st /\ PostFsDataRow.props = p /\ PostFsDataRow.cmds = c
  BY <1>2, <1>3, <1>4, <1>5 DEF On, Rows
<1> QED
  BY <1>2, <1>6 DEF c, p, st

LEMMA ResetReadyIs ==
  /\ ResetReadyRow \in Rows /\ ResetReadyRow.stage = "early-boot"
  /\ ResetReadyRow.props = {}
  /\ ResetReadyRow.cmds = << SetProp("connsys", "no") >>
  /\ Elems(ResetReadyRow.cmds) = {SetProp("connsys", "no")}
<1> DEFINE c == << SetProp("connsys", "no") >>
           p == {}
           st == "early-boot"
<1>1. /\ SetProp("connsys", "no") \in Commands
  BY DEF Commands, Verbs, Names, Values, BootStages, Functions, Good, DeviceCommands,
         Services, Oneshots, InitOneshots, WlanOneshots, TouchOneshots,
         ContainerOneshots, ContainerDaemons, UsbDaemons, Daemons, Modes, FunctionOf, Cmd, SetProp, CopyProp, Start,
         Stop, Restart, Trigger, MountConfigfs, MakeFunction, MountFunctionfs, IdProduct,
         Link, Unlink, BindUdc, UnbindUdc, MountNvdata
<1>2. c \in Seq(Commands) \ {<< >>} /\ Elems(c) = {SetProp("connsys", "no")}
  BY <1>1, Elems1
<1>3. p \in SUBSET (Names \X Values)
  BY PropPairs
<1>4. st \in BootStages \cup {""}
  BY DEF BootStages
<1>5. ResetReadyRow = On(st, p, c)
  BY DEF OnStage, OnProps, ResetReadyRow
<1> HIDE DEF c, p, st
<1>6. ResetReadyRow \in Rows /\ ResetReadyRow.stage = st /\ ResetReadyRow.props = p /\ ResetReadyRow.cmds = c
  BY <1>2, <1>3, <1>4, <1>5 DEF On, Rows
<1> QED
  BY <1>2, <1>6 DEF c, p, st

LEMMA LoadWlanIs ==
  /\ LoadWlanRow \in Rows /\ LoadWlanRow.stage = "boot"
  /\ LoadWlanRow.props = {}
  /\ LoadWlanRow.cmds = << MountNvdata, Start("load_wlan_driver") >>
  /\ Elems(LoadWlanRow.cmds) = {MountNvdata, Start("load_wlan_driver")}
<1> DEFINE c == << MountNvdata, Start("load_wlan_driver") >>
           p == {}
           st == "boot"
<1>1. /\ MountNvdata \in Commands
      /\ Start("load_wlan_driver") \in Commands
  BY DEF Commands, Verbs, Names, Values, BootStages, Functions, Good, DeviceCommands,
         Services, Oneshots, InitOneshots, WlanOneshots, TouchOneshots,
         ContainerOneshots, ContainerDaemons, UsbDaemons, Daemons, Modes, FunctionOf, Cmd, SetProp, CopyProp, Start,
         Stop, Restart, Trigger, MountConfigfs, MakeFunction, MountFunctionfs, IdProduct,
         Link, Unlink, BindUdc, UnbindUdc, MountNvdata
<1>2. c \in Seq(Commands) \ {<< >>} /\ Elems(c) = {MountNvdata, Start("load_wlan_driver")}
  BY <1>1, Elems2
<1>3. p \in SUBSET (Names \X Values)
  BY PropPairs
<1>4. st \in BootStages \cup {""}
  BY DEF BootStages
<1>5. LoadWlanRow = On(st, p, c)
  BY DEF OnStage, OnProps, LoadWlanRow
<1> HIDE DEF c, p, st
<1>6. LoadWlanRow \in Rows /\ LoadWlanRow.stage = st /\ LoadWlanRow.props = p /\ LoadWlanRow.cmds = c
  BY <1>2, <1>3, <1>4, <1>5 DEF On, Rows
<1> QED
  BY <1>2, <1>6 DEF c, p, st

LEMMA HelperIs ==
  /\ HelperRow \in Rows /\ HelperRow.stage = ""
  /\ HelperRow.props = {<< "load_wlan_driver", "stopped" >>}
  /\ HelperRow.cmds = << Start("wifi-helper") >>
  /\ Elems(HelperRow.cmds) = {Start("wifi-helper")}
<1> DEFINE c == << Start("wifi-helper") >>
           p == {<< "load_wlan_driver", "stopped" >>}
           st == ""
<1>1. /\ Start("wifi-helper") \in Commands
  BY DEF Commands, Verbs, Names, Values, BootStages, Functions, Good, DeviceCommands,
         Services, Oneshots, InitOneshots, WlanOneshots, TouchOneshots,
         ContainerOneshots, ContainerDaemons, UsbDaemons, Daemons, Modes, FunctionOf, Cmd, SetProp, CopyProp, Start,
         Stop, Restart, Trigger, MountConfigfs, MakeFunction, MountFunctionfs, IdProduct,
         Link, Unlink, BindUdc, UnbindUdc, MountNvdata
<1>2. c \in Seq(Commands) \ {<< >>} /\ Elems(c) = {Start("wifi-helper")}
  BY <1>1, Elems1
<1>3. p \in SUBSET (Names \X Values)
  BY PropPairs
<1>4. st \in BootStages \cup {""}
  BY DEF BootStages
<1>5. HelperRow = On(st, p, c)
  BY DEF OnStage, OnProps, HelperRow
<1> HIDE DEF c, p, st
<1>6. HelperRow \in Rows /\ HelperRow.stage = st /\ HelperRow.props = p /\ HelperRow.cmds = c
  BY <1>2, <1>3, <1>4, <1>5 DEF On, Rows
<1> QED
  BY <1>2, <1>6 DEF c, p, st

LEMMA AdbRootIs ==
  /\ AdbRootRow \in Rows /\ AdbRootRow.stage = ""
  /\ AdbRootRow.props = {<< "adb.root", "1" >>}
  /\ AdbRootRow.cmds = << Restart("adbd") >>
  /\ Elems(AdbRootRow.cmds) = {Restart("adbd")}
<1> DEFINE c == << Restart("adbd") >>
           p == {<< "adb.root", "1" >>}
           st == ""
<1>1. /\ Restart("adbd") \in Commands
  BY DEF Commands, Verbs, Names, Values, BootStages, Functions, Good, DeviceCommands,
         Services, Oneshots, InitOneshots, WlanOneshots, TouchOneshots,
         ContainerOneshots, ContainerDaemons, UsbDaemons, Daemons, Modes, FunctionOf, Cmd, SetProp, CopyProp, Start,
         Stop, Restart, Trigger, MountConfigfs, MakeFunction, MountFunctionfs, IdProduct,
         Link, Unlink, BindUdc, UnbindUdc, MountNvdata
<1>2. c \in Seq(Commands) \ {<< >>} /\ Elems(c) = {Restart("adbd")}
  BY <1>1, Elems1
<1>3. p \in SUBSET (Names \X Values)
  BY PropPairs
<1>4. st \in BootStages \cup {""}
  BY DEF BootStages
<1>5. AdbRootRow = On(st, p, c)
  BY DEF OnStage, OnProps, AdbRootRow
<1> HIDE DEF c, p, st
<1>6. AdbRootRow \in Rows /\ AdbRootRow.stage = st /\ AdbRootRow.props = p /\ AdbRootRow.cmds = c
  BY <1>2, <1>3, <1>4, <1>5 DEF On, Rows
<1> QED
  BY <1>2, <1>6 DEF c, p, st

LEMMA MakeIs ==
  /\ MakeRow \in Rows /\ MakeRow.stage = "fs"
  /\ MakeRow.props = {<< "configfs", "1" >>}
  /\ MakeRow.cmds = << MountConfigfs,
       MakeFunction("adb"), MakeFunction("fastboot") >>
  /\ Elems(MakeRow.cmds) = {MountConfigfs,
       MakeFunction("adb"), MakeFunction("fastboot")}
<1> DEFINE c == << MountConfigfs,
       MakeFunction("adb"), MakeFunction("fastboot") >>
           p == {<< "configfs", "1" >>}
           st == "fs"
<1>1. /\ MountConfigfs \in Commands
      /\ MakeFunction("adb") \in Commands
      /\ MakeFunction("fastboot") \in Commands
  BY DEF Commands, Verbs, Names, Values, BootStages, Functions, Good, DeviceCommands,
         Services, Oneshots, InitOneshots, WlanOneshots, TouchOneshots,
         ContainerOneshots, ContainerDaemons, UsbDaemons, Daemons, Modes, FunctionOf, Cmd, SetProp, CopyProp, Start,
         Stop, Restart, Trigger, MountConfigfs, MakeFunction, MountFunctionfs, IdProduct,
         Link, Unlink, BindUdc, UnbindUdc, MountNvdata
<1>2. c \in Seq(Commands) \ {<< >>} /\ Elems(c) = {MountConfigfs,
       MakeFunction("adb"), MakeFunction("fastboot")}
  BY <1>1, Elems3
<1>3. p \in SUBSET (Names \X Values)
  BY PropPairs
<1>4. st \in BootStages \cup {""}
  BY DEF BootStages
<1>5. MakeRow = On(st, p, c)
  BY DEF OnStage, OnProps, MakeRow
<1> HIDE DEF c, p, st
<1>6. MakeRow \in Rows /\ MakeRow.stage = st /\ MakeRow.props = p /\ MakeRow.cmds = c
  BY <1>2, <1>3, <1>4, <1>5 DEF On, Rows
<1> QED
  BY <1>2, <1>6 DEF c, p, st

LEMMA MountIs ==
  /\ MountRow \in Rows /\ MountRow.stage = "fs"
  /\ MountRow.props = {}
  /\ MountRow.cmds = << MountFunctionfs("adb"), MountFunctionfs("fastboot") >>
  /\ Elems(MountRow.cmds) = {MountFunctionfs("adb"), MountFunctionfs("fastboot")}
<1> DEFINE c == << MountFunctionfs("adb"), MountFunctionfs("fastboot") >>
           p == {}
           st == "fs"
<1>1. /\ MountFunctionfs("adb") \in Commands
      /\ MountFunctionfs("fastboot") \in Commands
  BY DEF Commands, Verbs, Names, Values, BootStages, Functions, Good, DeviceCommands,
         Services, Oneshots, InitOneshots, WlanOneshots, TouchOneshots,
         ContainerOneshots, ContainerDaemons, UsbDaemons, Daemons, Modes, FunctionOf, Cmd, SetProp, CopyProp, Start,
         Stop, Restart, Trigger, MountConfigfs, MakeFunction, MountFunctionfs, IdProduct,
         Link, Unlink, BindUdc, UnbindUdc, MountNvdata
<1>2. c \in Seq(Commands) \ {<< >>} /\ Elems(c) = {MountFunctionfs("adb"), MountFunctionfs("fastboot")}
  BY <1>1, Elems2
<1>3. p \in SUBSET (Names \X Values)
  BY PropPairs
<1>4. st \in BootStages \cup {""}
  BY DEF BootStages
<1>5. MountRow = On(st, p, c)
  BY DEF OnStage, OnProps, MountRow
<1> HIDE DEF c, p, st
<1>6. MountRow \in Rows /\ MountRow.stage = st /\ MountRow.props = p /\ MountRow.cmds = c
  BY <1>2, <1>3, <1>4, <1>5 DEF On, Rows
<1> QED
  BY <1>2, <1>6 DEF c, p, st

LEMMA StartAdbIs ==
  /\ StartAdbRow \in Rows /\ StartAdbRow.stage = ""
  /\ StartAdbRow.props = {<< "config", "adb" >>}
  /\ StartAdbRow.cmds = << Start("adbd") >>
  /\ Elems(StartAdbRow.cmds) = {Start("adbd")}
<1> DEFINE c == << Start("adbd") >>
           p == {<< "config", "adb" >>}
           st == ""
<1>1. /\ Start("adbd") \in Commands
  BY DEF Commands, Verbs, Names, Values, BootStages, Functions, Good, DeviceCommands,
         Services, Oneshots, InitOneshots, WlanOneshots, TouchOneshots,
         ContainerOneshots, ContainerDaemons, UsbDaemons, Daemons, Modes, FunctionOf, Cmd, SetProp, CopyProp, Start,
         Stop, Restart, Trigger, MountConfigfs, MakeFunction, MountFunctionfs, IdProduct,
         Link, Unlink, BindUdc, UnbindUdc, MountNvdata
<1>2. c \in Seq(Commands) \ {<< >>} /\ Elems(c) = {Start("adbd")}
  BY <1>1, Elems1
<1>3. p \in SUBSET (Names \X Values)
  BY PropPairs
<1>4. st \in BootStages \cup {""}
  BY DEF BootStages
<1>5. StartAdbRow = On(st, p, c)
  BY DEF OnStage, OnProps, StartAdbRow
<1> HIDE DEF c, p, st
<1>6. StartAdbRow \in Rows /\ StartAdbRow.stage = st /\ StartAdbRow.props = p /\ StartAdbRow.cmds = c
  BY <1>2, <1>3, <1>4, <1>5 DEF On, Rows
<1> QED
  BY <1>2, <1>6 DEF c, p, st

LEMMA StartFastbootIs ==
  /\ StartFastbootRow \in Rows /\ StartFastbootRow.stage = ""
  /\ StartFastbootRow.props = {<< "config", "fastboot" >>}
  /\ StartFastbootRow.cmds = << Start("fastbootd") >>
  /\ Elems(StartFastbootRow.cmds) = {Start("fastbootd")}
<1> DEFINE c == << Start("fastbootd") >>
           p == {<< "config", "fastboot" >>}
           st == ""
<1>1. /\ Start("fastbootd") \in Commands
  BY DEF Commands, Verbs, Names, Values, BootStages, Functions, Good, DeviceCommands,
         Services, Oneshots, InitOneshots, WlanOneshots, TouchOneshots,
         ContainerOneshots, ContainerDaemons, UsbDaemons, Daemons, Modes, FunctionOf, Cmd, SetProp, CopyProp, Start,
         Stop, Restart, Trigger, MountConfigfs, MakeFunction, MountFunctionfs, IdProduct,
         Link, Unlink, BindUdc, UnbindUdc, MountNvdata
<1>2. c \in Seq(Commands) \ {<< >>} /\ Elems(c) = {Start("fastbootd")}
  BY <1>1, Elems1
<1>3. p \in SUBSET (Names \X Values)
  BY PropPairs
<1>4. st \in BootStages \cup {""}
  BY DEF BootStages
<1>5. StartFastbootRow = On(st, p, c)
  BY DEF OnStage, OnProps, StartFastbootRow
<1> HIDE DEF c, p, st
<1>6. StartFastbootRow \in Rows /\ StartFastbootRow.stage = st /\ StartFastbootRow.props = p /\ StartFastbootRow.cmds = c
  BY <1>2, <1>3, <1>4, <1>5 DEF On, Rows
<1> QED
  BY <1>2, <1>6 DEF c, p, st

LEMMA DecomposeIs ==
  /\ Decompose \in Rows /\ Decompose.stage = ""
  /\ Decompose.props = {<< "config", "none" >>, << "configfs", "1" >>}
  /\ Decompose.cmds = << UnbindUdc, Stop("adbd"), Stop("fastbootd"),
       SetProp("ffs.ready", "0"), Unlink, CopyProp("state", "config") >>
  /\ Elems(Decompose.cmds) = {UnbindUdc, Stop("adbd"), Stop("fastbootd"),
       SetProp("ffs.ready", "0"), Unlink, CopyProp("state", "config")}
<1> DEFINE c == << UnbindUdc, Stop("adbd"), Stop("fastbootd"),
       SetProp("ffs.ready", "0"), Unlink, CopyProp("state", "config") >>
           p == {<< "config", "none" >>, << "configfs", "1" >>}
           st == ""
<1>1. /\ UnbindUdc \in Commands
      /\ Stop("adbd") \in Commands
      /\ Stop("fastbootd") \in Commands
      /\ SetProp("ffs.ready", "0") \in Commands
      /\ Unlink \in Commands
      /\ CopyProp("state", "config") \in Commands
  BY DEF Commands, Verbs, Names, Values, BootStages, Functions, Good, DeviceCommands,
         Services, Oneshots, InitOneshots, WlanOneshots, TouchOneshots,
         ContainerOneshots, ContainerDaemons, UsbDaemons, Daemons, Modes, FunctionOf, Cmd, SetProp, CopyProp, Start,
         Stop, Restart, Trigger, MountConfigfs, MakeFunction, MountFunctionfs, IdProduct,
         Link, Unlink, BindUdc, UnbindUdc, MountNvdata
<1>2. c \in Seq(Commands) \ {<< >>} /\ Elems(c) = {UnbindUdc, Stop("adbd"), Stop("fastbootd"),
       SetProp("ffs.ready", "0"), Unlink, CopyProp("state", "config")}
  BY <1>1, Elems6
<1>3. p \in SUBSET (Names \X Values)
  BY PropPairs
<1>4. st \in BootStages \cup {""}
  BY DEF BootStages
<1>5. Decompose = On(st, p, c)
  BY DEF OnStage, OnProps, Decompose
<1> HIDE DEF c, p, st
<1>6. Decompose \in Rows /\ Decompose.stage = st /\ Decompose.props = p /\ Decompose.cmds = c
  BY <1>2, <1>3, <1>4, <1>5 DEF On, Rows
<1> QED
  BY <1>2, <1>6 DEF c, p, st

LEMMA ComposeSideloadIs ==
  /\ Compose("sideload") \in Rows /\ Compose("sideload").stage = ""
  /\ Compose("sideload").props = {<< "config", "sideload" >>, << "ffs.ready", "1" >>, << "configfs", "1" >>}
  /\ Compose("sideload").cmds = << IdProduct("sideload"), Link("sideload"),
       BindUdc, CopyProp("state", "config") >>
  /\ Elems(Compose("sideload").cmds) = {IdProduct("sideload"), Link("sideload"),
       BindUdc, CopyProp("state", "config")}
<1> DEFINE c == << IdProduct("sideload"), Link("sideload"),
       BindUdc, CopyProp("state", "config") >>
           p == {<< "config", "sideload" >>, << "ffs.ready", "1" >>, << "configfs", "1" >>}
           st == ""
<1>1. /\ IdProduct("sideload") \in Commands
      /\ Link("sideload") \in Commands
      /\ BindUdc \in Commands
      /\ CopyProp("state", "config") \in Commands
  BY DEF Commands, Verbs, Names, Values, BootStages, Functions, Good, DeviceCommands,
         Services, Oneshots, InitOneshots, WlanOneshots, TouchOneshots,
         ContainerOneshots, ContainerDaemons, UsbDaemons, Daemons, Modes, FunctionOf, Cmd, SetProp, CopyProp, Start,
         Stop, Restart, Trigger, MountConfigfs, MakeFunction, MountFunctionfs, IdProduct,
         Link, Unlink, BindUdc, UnbindUdc, MountNvdata
<1>2. c \in Seq(Commands) \ {<< >>} /\ Elems(c) = {IdProduct("sideload"), Link("sideload"),
       BindUdc, CopyProp("state", "config")}
  BY <1>1, Elems4
<1>3. p \in SUBSET (Names \X Values)
  BY PropPairs
<1>4. st \in BootStages \cup {""}
  BY DEF BootStages
<1>5. Compose("sideload") = On(st, p, c)
  BY DEF OnStage, OnProps, Compose
<1> DEFINE r == Compose("sideload")
<1> HIDE DEF c, p, st, r
<1>5a. r = On(st, p, c)
  BY <1>5 DEF r
<1>6. r \in Rows /\ r.stage = st /\ r.props = p /\ r.cmds = c
  BY <1>2, <1>3, <1>4, <1>5a DEF On, Rows
<1> QED
  BY <1>2, <1>6 DEF c, p, st, r

LEMMA ComposeAdbIs ==
  /\ Compose("adb") \in Rows /\ Compose("adb").stage = ""
  /\ Compose("adb").props = {<< "config", "adb" >>, << "ffs.ready", "1" >>, << "configfs", "1" >>}
  /\ Compose("adb").cmds = << IdProduct("adb"), Link("adb"),
       BindUdc, CopyProp("state", "config") >>
  /\ Elems(Compose("adb").cmds) = {IdProduct("adb"), Link("adb"),
       BindUdc, CopyProp("state", "config")}
<1> DEFINE c == << IdProduct("adb"), Link("adb"),
       BindUdc, CopyProp("state", "config") >>
           p == {<< "config", "adb" >>, << "ffs.ready", "1" >>, << "configfs", "1" >>}
           st == ""
<1>1. /\ IdProduct("adb") \in Commands
      /\ Link("adb") \in Commands
      /\ BindUdc \in Commands
      /\ CopyProp("state", "config") \in Commands
  BY DEF Commands, Verbs, Names, Values, BootStages, Functions, Good, DeviceCommands,
         Services, Oneshots, InitOneshots, WlanOneshots, TouchOneshots,
         ContainerOneshots, ContainerDaemons, UsbDaemons, Daemons, Modes, FunctionOf, Cmd, SetProp, CopyProp, Start,
         Stop, Restart, Trigger, MountConfigfs, MakeFunction, MountFunctionfs, IdProduct,
         Link, Unlink, BindUdc, UnbindUdc, MountNvdata
<1>2. c \in Seq(Commands) \ {<< >>} /\ Elems(c) = {IdProduct("adb"), Link("adb"),
       BindUdc, CopyProp("state", "config")}
  BY <1>1, Elems4
<1>3. p \in SUBSET (Names \X Values)
  BY PropPairs
<1>4. st \in BootStages \cup {""}
  BY DEF BootStages
<1>5. Compose("adb") = On(st, p, c)
  BY DEF OnStage, OnProps, Compose
<1> DEFINE r == Compose("adb")
<1> HIDE DEF c, p, st, r
<1>5a. r = On(st, p, c)
  BY <1>5 DEF r
<1>6. r \in Rows /\ r.stage = st /\ r.props = p /\ r.cmds = c
  BY <1>2, <1>3, <1>4, <1>5a DEF On, Rows
<1> QED
  BY <1>2, <1>6 DEF c, p, st, r

LEMMA ComposeFastbootIs ==
  /\ Compose("fastboot") \in Rows /\ Compose("fastboot").stage = ""
  /\ Compose("fastboot").props = {<< "config", "fastboot" >>, << "ffs.ready", "1" >>, << "configfs", "1" >>}
  /\ Compose("fastboot").cmds = << IdProduct("fastboot"), Link("fastboot"),
       BindUdc, CopyProp("state", "config") >>
  /\ Elems(Compose("fastboot").cmds) = {IdProduct("fastboot"), Link("fastboot"),
       BindUdc, CopyProp("state", "config")}
<1> DEFINE c == << IdProduct("fastboot"), Link("fastboot"),
       BindUdc, CopyProp("state", "config") >>
           p == {<< "config", "fastboot" >>, << "ffs.ready", "1" >>, << "configfs", "1" >>}
           st == ""
<1>1. /\ IdProduct("fastboot") \in Commands
      /\ Link("fastboot") \in Commands
      /\ BindUdc \in Commands
      /\ CopyProp("state", "config") \in Commands
  BY DEF Commands, Verbs, Names, Values, BootStages, Functions, Good, DeviceCommands,
         Services, Oneshots, InitOneshots, WlanOneshots, TouchOneshots,
         ContainerOneshots, ContainerDaemons, UsbDaemons, Daemons, Modes, FunctionOf, Cmd, SetProp, CopyProp, Start,
         Stop, Restart, Trigger, MountConfigfs, MakeFunction, MountFunctionfs, IdProduct,
         Link, Unlink, BindUdc, UnbindUdc, MountNvdata
<1>2. c \in Seq(Commands) \ {<< >>} /\ Elems(c) = {IdProduct("fastboot"), Link("fastboot"),
       BindUdc, CopyProp("state", "config")}
  BY <1>1, Elems4
<1>3. p \in SUBSET (Names \X Values)
  BY PropPairs
<1>4. st \in BootStages \cup {""}
  BY DEF BootStages
<1>5. Compose("fastboot") = On(st, p, c)
  BY DEF OnStage, OnProps, Compose
<1> DEFINE r == Compose("fastboot")
<1> HIDE DEF c, p, st, r
<1>5a. r = On(st, p, c)
  BY <1>5 DEF r
<1>6. r \in Rows /\ r.stage = st /\ r.props = p /\ r.cmds = c
  BY <1>2, <1>3, <1>4, <1>5a DEF On, Rows
<1> QED
  BY <1>2, <1>6 DEF c, p, st, r

LEMMA TouchIs ==
  /\ TouchRow \in Rows /\ TouchRow.stage = "boot"
  /\ TouchRow.props = {}
  /\ TouchRow.cmds = << Start("focaltech-tp") >>
  /\ Elems(TouchRow.cmds) = {Start("focaltech-tp")}
<1> DEFINE c == << Start("focaltech-tp") >>
           p == {}
           st == "boot"
<1>1. /\ Start("focaltech-tp") \in Commands
  BY DEF Commands, Verbs, Names, Values, BootStages, Functions, Good, DeviceCommands,
         Services, Oneshots, InitOneshots, WlanOneshots, TouchOneshots,
         ContainerOneshots, ContainerDaemons, UsbDaemons, Daemons, Modes, FunctionOf, Cmd, SetProp, CopyProp, Start,
         Stop, Restart, Trigger, MountConfigfs, MakeFunction, MountFunctionfs, IdProduct,
         Link, Unlink, BindUdc, UnbindUdc, MountNvdata
<1>2. c \in Seq(Commands) \ {<< >>} /\ Elems(c) = {Start("focaltech-tp")}
  BY <1>1, Elems1
<1>3. p \in SUBSET (Names \X Values)
  BY PropPairs
<1>4. st \in BootStages \cup {""}
  BY DEF BootStages
<1>5. TouchRow = On(st, p, c)
  BY DEF OnStage, OnProps, TouchRow
<1> HIDE DEF c, p, st
<1>6. TouchRow \in Rows /\ TouchRow.stage = st /\ TouchRow.props = p /\ TouchRow.cmds = c
  BY <1>2, <1>3, <1>4, <1>5 DEF On, Rows
<1> QED
  BY <1>2, <1>6 DEF c, p, st

LEMMA DroidspacesdIs ==
  /\ DroidspacesdRow \in Rows /\ DroidspacesdRow.stage = "boot"
  /\ DroidspacesdRow.props = {}
  /\ DroidspacesdRow.cmds = << Start("droidspacesd") >>
  /\ Elems(DroidspacesdRow.cmds) = {Start("droidspacesd")}
<1> DEFINE c == << Start("droidspacesd") >>
           p == {}
           st == "boot"
<1>1. /\ Start("droidspacesd") \in Commands
  BY DEF Commands, Verbs, Names, Values, BootStages, Functions, Good, DeviceCommands,
         Services, Oneshots, InitOneshots, WlanOneshots, TouchOneshots,
         ContainerOneshots, ContainerDaemons, UsbDaemons, Daemons, Modes, FunctionOf, Cmd, SetProp, CopyProp, Start,
         Stop, Restart, Trigger, MountConfigfs, MakeFunction, MountFunctionfs, IdProduct,
         Link, Unlink, BindUdc, UnbindUdc, MountNvdata
<1>2. c \in Seq(Commands) \ {<< >>} /\ Elems(c) = {Start("droidspacesd")}
  BY <1>1, Elems1
<1>3. p \in SUBSET (Names \X Values)
  BY PropPairs
<1>4. st \in BootStages \cup {""}
  BY DEF BootStages
<1>5. DroidspacesdRow = On(st, p, c)
  BY DEF OnStage, OnProps, DroidspacesdRow
<1> HIDE DEF c, p, st
<1>6. DroidspacesdRow \in Rows /\ DroidspacesdRow.stage = st /\ DroidspacesdRow.props = p /\ DroidspacesdRow.cmds = c
  BY <1>2, <1>3, <1>4, <1>5 DEF On, Rows
<1> QED
  BY <1>2, <1>6 DEF c, p, st

LEMMA ContainerIs ==
  /\ ContainerRow \in Rows /\ ContainerRow.stage = ""
  /\ ContainerRow.props = {<< "droidspacesd", "running" >>}
  /\ ContainerRow.cmds = << Start("ubuntu-droidspaces") >>
  /\ Elems(ContainerRow.cmds) = {Start("ubuntu-droidspaces")}
<1> DEFINE c == << Start("ubuntu-droidspaces") >>
           p == {<< "droidspacesd", "running" >>}
           st == ""
<1>1. /\ Start("ubuntu-droidspaces") \in Commands
  BY DEF Commands, Verbs, Names, Values, BootStages, Functions, Good, DeviceCommands,
         Services, Oneshots, InitOneshots, WlanOneshots, TouchOneshots,
         ContainerOneshots, ContainerDaemons, UsbDaemons, Daemons, Modes, FunctionOf, Cmd, SetProp, CopyProp, Start,
         Stop, Restart, Trigger, MountConfigfs, MakeFunction, MountFunctionfs, IdProduct,
         Link, Unlink, BindUdc, UnbindUdc, MountNvdata
<1>2. c \in Seq(Commands) \ {<< >>} /\ Elems(c) = {Start("ubuntu-droidspaces")}
  BY <1>1, Elems1
<1>3. p \in SUBSET (Names \X Values)
  BY PropPairs
<1>4. st \in BootStages \cup {""}
  BY DEF BootStages
<1>5. ContainerRow = On(st, p, c)
  BY DEF OnStage, OnProps, ContainerRow
<1> HIDE DEF c, p, st
<1>6. ContainerRow \in Rows /\ ContainerRow.stage = st /\ ContainerRow.props = p /\ ContainerRow.cmds = c
  BY <1>2, <1>3, <1>4, <1>5 DEF On, Rows
<1> QED
  BY <1>2, <1>6 DEF c, p, st

(* Each script, and all of them, as a set of actions.                      *)
LEMMA ScriptElems ==
  /\ InitRc \in Seq(Rows) /\ Len(InitRc) = 4 /\ Elems(InitRc) = RowsOf("init")
  /\ WlanRc \in Seq(Rows) /\ Len(WlanRc) = 3 /\ Elems(WlanRc) = RowsOf("wlan")
  /\ UsbRc \in Seq(Rows) /\ Len(UsbRc) = 9 /\ Elems(UsbRc) = RowsOf("usb")
  /\ TouchRc \in Seq(Rows) /\ Len(TouchRc) = 1 /\ Elems(TouchRc) = RowsOf("touch")
  /\ DroidspacesRc \in Seq(Rows) /\ Len(DroidspacesRc) = 2 /\ Elems(DroidspacesRc) = RowsOf("droidspaces")
<1>1. InitRc \in Seq(Rows) /\ Len(InitRc) = 4 /\ Elems(InitRc) = RowsOf("init")
  <2>1. InitRc = << EarlyInitRow, InitRow, LateInitRow, PostFsDataRow >>
    BY DEF InitRc, EarlyInitRow, InitRow, LateInitRow, PostFsDataRow
  <2>2. /\ EarlyInitRow \in Rows
        /\ InitRow \in Rows
        /\ LateInitRow \in Rows
        /\ PostFsDataRow \in Rows
    BY EarlyInitIs, InitIs, LateInitIs, PostFsDataIs
  <2>3. RowsOf("init") = {EarlyInitRow, InitRow, LateInitRow, PostFsDataRow}
    BY DEF RowsOf
  <2> QED
    BY <2>1, <2>2, <2>3, Elems4
<1>2. WlanRc \in Seq(Rows) /\ Len(WlanRc) = 3 /\ Elems(WlanRc) = RowsOf("wlan")
  <2>1. WlanRc = << ResetReadyRow, LoadWlanRow, HelperRow >>
    BY DEF WlanRc, ResetReadyRow, LoadWlanRow, HelperRow
  <2>2. /\ ResetReadyRow \in Rows
        /\ LoadWlanRow \in Rows
        /\ HelperRow \in Rows
    BY ResetReadyIs, LoadWlanIs, HelperIs
  <2>3. RowsOf("wlan") = {ResetReadyRow, LoadWlanRow, HelperRow}
    BY DEF RowsOf
  <2> QED
    BY <2>1, <2>2, <2>3, Elems3
<1>3. UsbRc \in Seq(Rows) /\ Len(UsbRc) = 9 /\ Elems(UsbRc) = RowsOf("usb")
  <2>1. UsbRc = << AdbRootRow, MakeRow, MountRow, StartAdbRow, StartFastbootRow, Decompose, Compose("sideload"), Compose("adb"), Compose("fastboot") >>
    BY DEF UsbRc, AdbRootRow, MakeRow, MountRow, StartAdbRow, StartFastbootRow
  <2>2. /\ AdbRootRow \in Rows
        /\ MakeRow \in Rows
        /\ MountRow \in Rows
        /\ StartAdbRow \in Rows
        /\ StartFastbootRow \in Rows
        /\ Decompose \in Rows
        /\ Compose("sideload") \in Rows
        /\ Compose("adb") \in Rows
        /\ Compose("fastboot") \in Rows
    BY AdbRootIs, MakeIs, MountIs, StartAdbIs, StartFastbootIs, DecomposeIs, ComposeSideloadIs, ComposeAdbIs, ComposeFastbootIs
  <2>3. RowsOf("usb") = {AdbRootRow, MakeRow, MountRow, StartAdbRow, StartFastbootRow, Decompose, Compose("sideload"), Compose("adb"), Compose("fastboot")}
    BY DEF RowsOf
  <2> QED
    BY <2>1, <2>2, <2>3, SMTT(60) DEF Elems
<1>4. TouchRc \in Seq(Rows) /\ Len(TouchRc) = 1 /\ Elems(TouchRc) = RowsOf("touch")
  <2>1. TouchRc = << TouchRow >>
    BY DEF TouchRc, TouchRow
  <2>2. /\ TouchRow \in Rows
    BY TouchIs
  <2>3. RowsOf("touch") = {TouchRow}
    BY DEF RowsOf
  <2> QED
    BY <2>1, <2>2, <2>3, Elems1
<1>5. DroidspacesRc \in Seq(Rows) /\ Len(DroidspacesRc) = 2 /\ Elems(DroidspacesRc) = RowsOf("droidspaces")
  <2>1. DroidspacesRc = << DroidspacesdRow, ContainerRow >>
    BY DEF DroidspacesRc, DroidspacesdRow, ContainerRow
  <2>2. /\ DroidspacesdRow \in Rows
        /\ ContainerRow \in Rows
    BY DroidspacesdIs, ContainerIs
  <2>3. RowsOf("droidspaces") = {DroidspacesdRow, ContainerRow}
    BY DEF RowsOf
  <2> QED
    BY <2>1, <2>2, <2>3, Elems2
<1> QED
  BY <1>1, <1>2, <1>3, <1>4, <1>5

Scripts == {"init"} \cup Installed

(* All actions of the scripts that are installed.                          *)
LEMMA RcElems ==
  /\ Rc \in Seq(Rows)
  /\ Elems(Rc) = UNION {RowsOf(s) : s \in Scripts}
<1> DEFINE Part(name, s) == Script(name, s) \in Seq(Rows)
                             /\ Elems(Script(name, s)) = IF name \in Installed THEN Elems(s) ELSE {}
<1>1. ASSUME NEW name, NEW s \in Seq(Rows) PROVE Part(name, s)
  <2>1. Elems(<< >>) = {} /\ << >> \in Seq(Rows)
    BY DEF Elems
  <2> QED
    BY <2>1 DEF Script
<1>2. Part("wlan", WlanRc) /\ Part("usb", UsbRc) /\ Part("touch", TouchRc)
      /\ Part("droidspaces", DroidspacesRc)
  BY <1>1, ScriptElems
<1> DEFINE w == Script("wlan", WlanRc)
           u == Script("usb", UsbRc)
           t == Script("touch", TouchRc)
           d == Script("droidspaces", DroidspacesRc)
<1>3. Rc = (((InitRc \o w) \o u) \o t) \o d
  BY DEF Rc
<1>4. {w, u, t, d, InitRc} \subseteq Seq(Rows)
  BY <1>2, ScriptElems
<1> HIDE DEF w, u, t, d
<1>5. InitRc \o w \in Seq(Rows) /\ Elems(InitRc \o w) = Elems(InitRc) \cup Elems(w)
  BY <1>4, ElemsConcat
<1> DEFINE iw == InitRc \o w
<1>5a. iw \in Seq(Rows)
  BY <1>5
<1> HIDE DEF iw
<1>6. iw \o u \in Seq(Rows) /\ Elems(iw \o u) = Elems(iw) \cup Elems(u)
  BY <1>4, <1>5a, ElemsConcat
<1> DEFINE iu == iw \o u
<1>6a. iu \in Seq(Rows)
  BY <1>6
<1> HIDE DEF iu
<1>7. iu \o t \in Seq(Rows) /\ Elems(iu \o t) = Elems(iu) \cup Elems(t)
  BY <1>4, <1>6a, ElemsConcat
<1> DEFINE it == iu \o t
<1>7a. it \in Seq(Rows)
  BY <1>7
<1> HIDE DEF it
<1>8. it \o d \in Seq(Rows) /\ Elems(it \o d) = Elems(it) \cup Elems(d)
  BY <1>4, <1>7a, ElemsConcat
<1>9. /\ Elems(Rc) = Elems(InitRc) \cup Elems(w) \cup Elems(u) \cup Elems(t) \cup Elems(d)
      /\ Rc \in Seq(Rows)
  BY <1>3, <1>5, <1>6, <1>7, <1>8 DEF iw, iu, it
<1>10. /\ Elems(w) = IF "wlan" \in Installed THEN RowsOf("wlan") ELSE {}
       /\ Elems(u) = IF "usb" \in Installed THEN RowsOf("usb") ELSE {}
       /\ Elems(t) = IF "touch" \in Installed THEN RowsOf("touch") ELSE {}
       /\ Elems(d) = IF "droidspaces" \in Installed THEN RowsOf("droidspaces") ELSE {}
       /\ Elems(InitRc) = RowsOf("init")
  BY <1>2, ScriptElems DEF w, u, t, d
<1> HIDE DEF Part
<1>11. Installed \subseteq {"wlan", "usb", "touch", "droidspaces"}
  BY InstalledAssumption
<1>12. UNION {RowsOf(s) : s \in Scripts} =
         (UNION {RowsOf(s) : s \in Installed}) \cup RowsOf("init")
  BY DEF Scripts
<1> QED
  BY <1>9, <1>10, <1>11, <1>12

-----------------------------------------------------------------------------
(* The actions that an event selects.                                      *)
LEMMA SelectedElems ==
  ASSUME NEW e, e.kind # "builtin"
  PROVE  /\ Selected(e) \in Seq(Rows)
         /\ Elems(Selected(e)) = {r \in Elems(Rc) : Selects(e, r, prop)}
         /\ \A k, l \in 1..Len(Selected(e)) : k < l =>
              \E i, j \in 1..Len(Rc) : /\ i < j /\ Selected(e)[k] = Rc[i]
                                      /\ Selected(e)[l] = Rc[j]
<1> DEFINE chosen == {i \in DOMAIN Rc : Selects(e, Rc[i], prop)}
           s == Selected(e)
           c == Cardinality(chosen)
<1>1. Rc \in Seq(Rows) /\ Len(Rc) \in Nat /\ DOMAIN Rc = 1..Len(Rc)
  BY RcElems
<1>2. s = [k \in 1..c |-> Rc[Nth(chosen, k)]]
  BY DEF Selected
<1>3. chosen \in SUBSET (1..Len(Rc))
  BY <1>1
<1>4. \A i \in chosen : i \in 1..Len(Rc) /\ Selects(e, Rc[i], prop)
  BY <1>1
<1>5. \A i \in 1..Len(Rc) : Selects(e, Rc[i], prop) => i \in chosen
  BY <1>1
<1> HIDE DEF chosen, s
<1>6. /\ c \in Nat
      /\ \A k \in 1..c : Nth(chosen, k) \in chosen
      /\ \A i \in chosen : \E k \in 1..c : Nth(chosen, k) = i
      /\ \A k, l \in 1..c : k < l => Nth(chosen, k) < Nth(chosen, l)
  BY <1>1, <1>3, Ranks
<1> HIDE DEF c
<1>7. \A k \in 1..c : Nth(chosen, k) \in 1..Len(Rc) /\ Rc[Nth(chosen, k)] \in Rows
  BY <1>1, <1>4, <1>6
<1>8. s \in Seq(Rows) /\ Len(s) = c /\ \A k \in 1..c : s[k] = Rc[Nth(chosen, k)]
  BY <1>2, <1>6, <1>7
<1>9. Elems(s) = {r \in Elems(Rc) : Selects(e, r, prop)}
  <2>1. ASSUME NEW k \in 1..c PROVE s[k] \in {r \in Elems(Rc) : Selects(e, r, prop)}
    BY <1>4, <1>6, <1>7, <1>8 DEF Elems
  <2>2. ASSUME NEW i \in 1..Len(Rc), Selects(e, Rc[i], prop) PROVE Rc[i] \in Elems(s)
    <3>1. PICK k \in 1..c : Nth(chosen, k) = i
      BY <1>5, <1>6, <2>2
    <3> QED
      BY <3>1, <1>8 DEF Elems
  <2> QED
    BY <2>1, <2>2, <1>8 DEF Elems
<1>10. ASSUME NEW k \in 1..c, NEW l \in 1..c, k < l
       PROVE  \E i, j \in 1..Len(Rc) : i < j /\ s[k] = Rc[i] /\ s[l] = Rc[j]
  <2>1. Nth(chosen, k) < Nth(chosen, l)
    BY <1>6, <1>10
  <2> QED
    BY <2>1, <1>7, <1>8
<1> QED
  BY <1>8, <1>9, <1>10 DEF s

-----------------------------------------------------------------------------
(* One command is done.                                                    *)
Advanced(t) ==
  IF Len(Head(t).cmds) = 1 THEN Tail(t)
  ELSE << [Head(t) EXCEPT !.cmds = Tail(@)] >> \o Tail(t)

Current(t) == Head(Head(t).cmds)

(* An action that waits has commands.                                      *)
LEMMA RowCmds ==
  ASSUME NEW t \in Seq(Rows), NEW k \in 1..Len(t)
  PROVE  t[k] \in Rows /\ t[k].cmds \in Seq(Commands) /\ t[k].cmds # << >>
<1>1. t[k] \in Rows
  OBVIOUS
<1> QED
  BY <1>1 DEF Rows

(* What is left are commands, each at its place.                           *)
LEMMA LeftIn ==
  ASSUME NEW t \in Seq(Rows)
  PROVE  /\ \A c : c \in LeftOf(t) <=> \E k \in 1..Len(t) : \E i \in 1..Len(t[k].cmds) : t[k].cmds[i] = c
         /\ LeftOf(t) \subseteq Commands
<1>1. \A c : c \in LeftOf(t) <=> \E k \in 1..Len(t) : \E i \in 1..Len(t[k].cmds) : t[k].cmds[i] = c
  BY DEF LeftOf, Elems
<1>2. \A k \in 1..Len(t) : \A i \in 1..Len(t[k].cmds) : t[k].cmds[i] \in Commands
  BY RowCmds
<1> QED
  BY <1>1, <1>2

(* The two shapes of what is left: an action is done, or one command of it.*)
LEMMA Advancing ==
  ASSUME NEW t \in Seq(Rows), t # << >>
  PROVE  /\ Advanced(t) \in Seq(Rows) /\ Len(t) \in Nat \ {0}
         /\ t[1].cmds \in Seq(Commands) /\ Len(t[1].cmds) \in Nat \ {0}
         /\ Current(t) = t[1].cmds[1]
         /\ \/ /\ Len(t[1].cmds) = 1 /\ Len(Advanced(t)) = Len(t) - 1
               /\ \A k \in 1..(Len(t) - 1) : Advanced(t)[k] = t[k + 1]
            \/ /\ Len(t[1].cmds) > 1 /\ Len(Advanced(t)) = Len(t)
               /\ Len(Advanced(t)[1].cmds) = Len(t[1].cmds) - 1
               /\ Advanced(t)[1].cmds = Tail(t[1].cmds)
               /\ \A i \in 1..(Len(t[1].cmds) - 1) : Advanced(t)[1].cmds[i] = t[1].cmds[i + 1]
               /\ \A k \in 2..Len(t) : Advanced(t)[k] = t[k]
<1>1. /\ Head(t) = t[1] /\ t[1] \in Rows /\ Tail(t) \in Seq(Rows)
      /\ Len(Tail(t)) = Len(t) - 1 /\ Len(t) \in Nat \ {0}
      /\ \A i \in 1..(Len(t) - 1) : Tail(t)[i] = t[i + 1]
  BY ElemsTail
<1> DEFINE r == t[1]
           c == r.cmds
           q == [r EXCEPT !.cmds = Tail(@)]
<1>2. c \in Seq(Commands) /\ c # << >>
  BY <1>1 DEF Rows
<1>3. /\ Head(c) = c[1] /\ Tail(c) \in Seq(Commands) /\ Len(Tail(c)) = Len(c) - 1
      /\ Len(c) \in Nat \ {0} /\ \A i \in 1..(Len(c) - 1) : Tail(c)[i] = c[i + 1]
  <2> HIDE DEF c
  <2> QED
    BY <1>2, ElemsTail
<1>4. Current(t) = c[1]
  BY <1>1, <1>3 DEF Current
<1>5. Advanced(t) = IF Len(c) = 1 THEN Tail(t) ELSE << q >> \o Tail(t)
  BY <1>1 DEF Advanced
<1>6. CASE Len(c) = 1
  BY <1>1, <1>2, <1>3, <1>4, <1>5, <1>6
<1>7. CASE Len(c) # 1
  <2>1. q.cmds = Tail(c) /\ q \in Rows
    <3>1. Tail(c) # << >>
      <4> DEFINE w == Tail(c)
      <4> HIDE DEF c
      <4>1. w \in Seq(Commands) /\ Len(w) = Len(c) - 1 /\ Len(c) \in Nat \ {0}
        BY <1>3
      <4> HIDE DEF w
      <4>2. Len(w) # 0
        BY <4>1, <1>7
      <4>3. w # << >>
        BY <4>1, <4>2, ElemsOf
      <4> QED
        BY <4>3 DEF w
    <3>2. Tail(c) \in Seq(Commands) \ {<< >>}
      BY <3>1, <1>3
    <3> QED
      BY <1>1, <3>2 DEF Rows
  <2> HIDE DEF q, c
  <2> DEFINE u == Tail(t)
  <2>2. u \in Seq(Rows) /\ Len(u) = Len(t) - 1
    BY <1>1
  <2> HIDE DEF u
  <2> DEFINE a == << q >> \o u
  <2>3. /\ a \in Seq(Rows) /\ Len(a) = 1 + Len(u)
        /\ \A k \in 1..(1 + Len(u)) : a[k] = IF k = 1 THEN q ELSE u[k - 1]
    BY <2>1, <2>2
  <2>4. Advanced(t) = a
    BY <1>5, <1>7 DEF u
  <2> HIDE DEF a
  <2>5. Len(a) = Len(t) /\ a[1] = q
    BY <1>1, <2>2, <2>3
  <2>6. \A k \in 2..Len(t) : a[k] = t[k]
    <3> TAKE k \in 2..Len(t)
    <3>1. k \in 1..(1 + Len(u)) /\ k # 1 /\ k - 1 \in 1..(Len(t) - 1) /\ (k - 1) + 1 = k
      BY <1>1, <2>2
    <3>2. a[k] = u[k - 1]
      BY <2>3, <3>1
    <3> QED
      BY <1>1, <3>1, <3>2 DEF u
  <2>7. a \in Seq(Rows)
    BY <2>3
  <2>8. Len(c) > 1
    BY <1>3, <1>7
  <2>9. c = t[1].cmds
    BY DEF c
  <2> QED
    BY <1>1, <1>2, <1>3, <1>4, <2>1, <2>4, <2>5, <2>6, <2>7, <2>8, <2>9
<1> QED
  BY <1>6, <1>7

(* A command that is executed is what was left but is not any more, unless *)
(* it comes again.                                                         *)
LEMMA AdvancedLeft ==
  ASSUME NEW t \in Seq(Rows), t # << >>
  PROVE  /\ Advanced(t) \in Seq(Rows)
         /\ LeftOf(t) = LeftOf(Advanced(t)) \cup {Current(t)}
         /\ Current(t) \in Commands
<1> DEFINE a == Advanced(t)
           n == Len(t)
           m == Len(t[1].cmds)
<1>1. /\ a \in Seq(Rows) /\ n \in Nat \ {0} /\ m \in Nat \ {0}
      /\ Current(t) = t[1].cmds[1]
      /\ \/ /\ m = 1 /\ Len(a) = n - 1
            /\ \A k \in 1..(n - 1) : a[k] = t[k + 1]
         \/ /\ m > 1 /\ Len(a) = n /\ Len(a[1].cmds) = m - 1
            /\ \A i \in 1..(m - 1) : a[1].cmds[i] = t[1].cmds[i + 1]
            /\ \A k \in 2..n : a[k] = t[k]
  BY Advancing
<1> HIDE DEF a
<1>2. \A c : c \in LeftOf(t) <=> \E k \in 1..n : \E i \in 1..Len(t[k].cmds) : t[k].cmds[i] = c
  BY LeftIn
<1>3. \A c : c \in LeftOf(a) <=> \E k \in 1..Len(a) : \E i \in 1..Len(a[k].cmds) : a[k].cmds[i] = c
  BY <1>1, LeftIn
<1>4. Current(t) \in LeftOf(t)
  <2>1. 1 \in 1..n /\ 1 \in 1..m
    BY <1>1
  <2> QED
    BY <1>1, <1>2, <2>1
<1> HIDE DEF n, m
<1>5. ASSUME NEW c \in LeftOf(t), c # Current(t) PROVE c \in LeftOf(a)
  <2>1. PICK k \in 1..n : \E i \in 1..Len(t[k].cmds) : t[k].cmds[i] = c
    BY <1>2, <1>5
  <2>2. PICK i \in 1..Len(t[k].cmds) : t[k].cmds[i] = c
    BY <2>1
  <2>3. CASE k # 1 /\ m = 1
    <3>1. k - 1 \in 1..Len(a) /\ a[k - 1] = t[k]
      BY <1>1, <2>3
    <3> QED
      BY <3>1, <2>2, <1>3
  <2>4. CASE k # 1 /\ m > 1
    <3>1. k \in 1..Len(a) /\ a[k] = t[k]
      BY <1>1, <2>4
    <3> QED
      BY <3>1, <2>2, <1>3
  <2>5. CASE k = 1
    <3>1. i \in 1..m /\ i # 1 /\ m > 1
      BY <1>1, <2>2, <2>5, <1>5 DEF m
    <3>2. i - 1 \in 1..(m - 1) /\ (i - 1) + 1 = i /\ 1 \in 1..n
      BY <1>1, <3>1
    <3>3. a[1].cmds[i - 1] = c /\ 1 \in 1..Len(a) /\ i - 1 \in 1..Len(a[1].cmds)
      BY <1>1, <2>2, <2>5, <3>1, <3>2
    <3> QED
      BY <3>3, <1>3
  <2> QED
    BY <2>3, <2>4, <2>5, <1>1
<1>6. ASSUME NEW c \in LeftOf(a) PROVE c \in LeftOf(t)
  <2>1. PICK k \in 1..Len(a) : \E i \in 1..Len(a[k].cmds) : a[k].cmds[i] = c
    BY <1>3, <1>6
  <2>2. PICK i \in 1..Len(a[k].cmds) : a[k].cmds[i] = c
    BY <2>1
  <2>3. CASE m = 1
    <3>1. k + 1 \in 1..n /\ a[k] = t[k + 1]
      BY <1>1, <2>3
    <3> QED
      BY <3>1, <2>2, <1>2
  <2>4. CASE k # 1 /\ m > 1
    <3>1. k \in 1..n /\ a[k] = t[k]
      BY <1>1, <2>4
    <3> QED
      BY <3>1, <2>2, <1>2
  <2>5. CASE k = 1 /\ m > 1
    <3>1. i + 1 \in 1..m /\ t[1].cmds[i + 1] = c /\ 1 \in 1..n
      BY <1>1, <2>2, <2>5
    <3> QED
      BY <3>1, <1>2 DEF m
  <2> QED
    BY <2>3, <2>4, <2>5, <1>1
<1>7. LeftOf(t) \subseteq Commands
  BY LeftIn
<1>8. LeftOf(t) = LeftOf(a) \cup {Current(t)}
  BY <1>4, <1>5, <1>6
<1> QED
  BY <1>1, <1>4, <1>7, <1>8 DEF a

(* The command that is done is led by nothing; the others keep their       *)
(* leaders, except this one.                                               *)
LEMMA AdvancedUnled ==
  ASSUME NEW t \in Seq(Rows), t # << >>, NEW a, NEW b
  PROVE  /\ a # Current(t) /\ Unled(Advanced(t), a, b) => Unled(t, a, b)
         /\ Unled(t, a, Current(t))
<1> DEFINE u == Advanced(t)
           n == Len(t)
           m == Len(t[1].cmds)
<1>1. /\ u \in Seq(Rows) /\ n \in Nat \ {0} /\ m \in Nat \ {0}
      /\ Current(t) = t[1].cmds[1]
      /\ \/ /\ m = 1 /\ Len(u) = n - 1
            /\ \A k \in 1..(n - 1) : u[k] = t[k + 1]
         \/ /\ m > 1 /\ Len(u) = n /\ Len(u[1].cmds) = m - 1
            /\ \A i \in 1..(m - 1) : u[1].cmds[i] = t[1].cmds[i + 1]
            /\ \A k \in 2..n : u[k] = t[k]
  BY Advancing
<1>2. Unled(t, a, Current(t))
  <2>1. /\ 1 \in 1..n /\ 1 \in 1..m /\ 1..(1 - 1) = {}
    BY <1>1
  <2> QED
    BY <1>1, <2>1 DEF Unled
<1> HIDE DEF u, n, m
<1>3. ASSUME a # Current(t), Unled(u, a, b) PROVE Unled(t, a, b)
  <2>1. PICK k \in 1..Len(u) : \E i \in 1..Len(u[k].cmds) :
          /\ u[k].cmds[i] = b
          /\ \A j \in 1..(i - 1) : u[k].cmds[j] # a
          /\ \A l \in 1..(k - 1) : \A j \in 1..Len(u[l].cmds) : u[l].cmds[j] # a
    BY <1>3 DEF Unled
  <2>2. PICK i \in 1..Len(u[k].cmds) :
          /\ u[k].cmds[i] = b
          /\ \A j \in 1..(i - 1) : u[k].cmds[j] # a
          /\ \A l \in 1..(k - 1) : \A j \in 1..Len(u[l].cmds) : u[l].cmds[j] # a
    BY <2>1
  <2>3. CASE m = 1
    <3>1. k + 1 \in 1..n /\ u[k] = t[k + 1]
      BY <1>1, <2>3
    <3>2. ASSUME NEW l \in 1..((k + 1) - 1) PROVE \A j \in 1..Len(t[l].cmds) : t[l].cmds[j] # a
      <4>1. CASE l = 1
        BY <4>1, <2>3, <1>1, <1>3 DEF m
      <4>2. CASE l # 1
        <5>1. l - 1 \in 1..(k - 1) /\ u[l - 1] = t[l]
          BY <4>2, <1>1, <2>3
        <5> QED
          BY <5>1, <2>2
      <4> QED
        BY <4>1, <4>2
    <3> QED
      BY <2>2, <3>1, <3>2 DEF Unled, n
  <2>4. CASE m > 1 /\ k = 1
    <3>0. i \in 1..(m - 1) /\ u[1].cmds[i] = b /\ \A j \in 1..(i - 1) : u[1].cmds[j] # a
      BY <1>1, <2>2, <2>4
    <3>1. /\ i + 1 \in 1..m /\ t[1].cmds[i + 1] = b /\ 1 \in 1..n
      BY <1>1, <3>0
    <3>2. ASSUME NEW j \in 1..((i + 1) - 1) PROVE t[1].cmds[j] # a
      <4>1. CASE j = 1
        BY <4>1, <1>1, <1>3
      <4>2. CASE j # 1
        <5>1. /\ j - 1 \in 1..(i - 1) /\ j - 1 \in 1..(m - 1) /\ (j - 1) + 1 = j
          BY <4>2, <1>1, <3>0
        <5>2. u[1].cmds[j - 1] = t[1].cmds[j]
          BY <5>1, <1>1, <2>4
        <5> QED
          BY <5>1, <5>2, <3>0
      <4> QED
        BY <4>1, <4>2
    <3>3. \A l \in 1..(1 - 1) : \A j \in 1..Len(t[l].cmds) : t[l].cmds[j] # a
      OBVIOUS
    <3> QED
      BY <3>1, <3>2, <3>3 DEF Unled, n, m
  <2>5. CASE m > 1 /\ k # 1
    <3>0. k \in 2..n
      BY <1>1, <2>5
    <3>1. k \in 1..n /\ u[k] = t[k]
      BY <1>1, <2>5, <3>0
    <3>2. ASSUME NEW l \in 1..(k - 1) PROVE \A j \in 1..Len(t[l].cmds) : t[l].cmds[j] # a
      <4>1. CASE l = 1
        <5>1. \A j \in 1..(m - 1) : t[1].cmds[j + 1] # a
          <6>1. 1 \in 1..(k - 1)
            BY <3>0, <1>1
          <6>2. \A j \in 1..(m - 1) : u[1].cmds[j] # a
            BY <6>1, <1>1, <2>2, <2>5
          <6>3. \A j \in 1..(m - 1) : u[1].cmds[j] = t[1].cmds[j + 1]
            BY <1>1, <2>5
          <6> QED
            BY <6>2, <6>3
        <5>2. ASSUME NEW j \in 1..m PROVE t[1].cmds[j] # a
          <6>1. CASE j = 1
            BY <6>1, <1>1, <1>3
          <6>2. CASE j # 1
            <7>1. j - 1 \in 1..(m - 1) /\ (j - 1) + 1 = j
              BY <6>2, <1>1
            <7> QED
              BY <7>1, <5>1
          <6> QED
            BY <6>1, <6>2
        <5> QED
          BY <5>2, <4>1 DEF m
      <4>2. CASE l # 1
        <5>0. l \in 2..n
          BY <4>2, <3>0, <1>1
        <5>1. l \in 2..n /\ u[l] = t[l]
          BY <5>0, <1>1, <2>5
        <5> QED
          BY <5>1, <2>2
      <4> QED
        BY <4>1, <4>2
    <3> QED
      BY <2>2, <3>1, <3>2 DEF Unled, n
  <2> QED
    BY <2>3, <2>4, <2>5, <1>1
<1> QED
  BY <1>2, <1>3 DEF u

-----------------------------------------------------------------------------
(* The rows that wait for a stage, and those that do not.                  *)
StageRows == {EarlyInitRow, InitRow, LateInitRow, PostFsDataRow, ResetReadyRow,
              LoadWlanRow, TouchRow, DroidspacesdRow}

(* The actions of the gadget on properties.                                *)
UsbRows == {AdbRootRow, StartAdbRow, StartFastbootRow, Decompose, Compose("sideload"),
            Compose("adb"), Compose("fastboot")}

(* The stage and the commands of the actions, by kind.                     *)
LEMMA RowStages ==
  /\ EarlyInitRow.stage = "early-init" /\ InitRow.stage = "init"
  /\ LateInitRow.stage = "late-init" /\ PostFsDataRow.stage = "post-fs-data"
  /\ ResetReadyRow.stage = "early-boot" /\ LoadWlanRow.stage = "boot"
  /\ TouchRow.stage = "boot" /\ DroidspacesdRow.stage = "boot"
  /\ MakeRow.stage = "fs" /\ MountRow.stage = "fs"
  /\ \A r \in UsbRows \cup {HelperRow, ContainerRow} : r.stage = ""
<1>1. \A r \in UsbRows : r.stage = ""
  <2>1. /\ AdbRootRow.stage = "" /\ StartAdbRow.stage = "" /\ StartFastbootRow.stage = ""
        /\ Decompose.stage = ""
    BY AdbRootIs, StartAdbIs, StartFastbootIs, DecomposeIs
  <2>2. Compose("sideload").stage = "" /\ Compose("adb").stage = "" /\ Compose("fastboot").stage = ""
    BY ComposeSideloadIs, ComposeAdbIs, ComposeFastbootIs
  <2> QED
    BY <2>1, <2>2, Zenon DEF UsbRows
<1>2. HelperRow.stage = "" /\ ContainerRow.stage = ""
  BY HelperIs, ContainerIs
<1>3. /\ EarlyInitRow.stage = "early-init" /\ InitRow.stage = "init"
      /\ LateInitRow.stage = "late-init" /\ PostFsDataRow.stage = "post-fs-data"
      /\ ResetReadyRow.stage = "early-boot" /\ LoadWlanRow.stage = "boot"
      /\ TouchRow.stage = "boot" /\ DroidspacesdRow.stage = "boot"
      /\ MakeRow.stage = "fs" /\ MountRow.stage = "fs"
  BY EarlyInitIs, InitIs, LateInitIs, PostFsDataIs, ResetReadyIs, LoadWlanIs, MakeIs, MountIs,
     TouchIs, DroidspacesdIs
<1> QED
  BY <1>1, <1>2, <1>3

LEMMA RowElems ==
  /\ Elems(EarlyInitRow.cmds) = {SetProp("configfs", "1")}
  /\ Elems(InitRow.cmds) = {Start("selinux-permissive")}
  /\ LateInitRow.cmds = Triggers
  /\ Elems(LateInitRow.cmds) = {Triggers[i] : i \in 1..7}
  /\ Elems(PostFsDataRow.cmds) = {SetProp("config", "adb")}
  /\ Elems(ResetReadyRow.cmds) = {SetProp("connsys", "no")}
  /\ Elems(LoadWlanRow.cmds) = {MountNvdata, Start("load_wlan_driver")}
  /\ Elems(TouchRow.cmds) = {Start("focaltech-tp")}
  /\ Elems(DroidspacesdRow.cmds) = {Start("droidspacesd")}
  /\ Elems(MakeRow.cmds) = {MountConfigfs, MakeFunction("adb"), MakeFunction("fastboot")}
  /\ Elems(MountRow.cmds) = {MountFunctionfs("adb"), MountFunctionfs("fastboot")}
  /\ Elems(HelperRow.cmds) = {Start("wifi-helper")}
  /\ Elems(ContainerRow.cmds) = {Start("ubuntu-droidspaces")}
  /\ Elems(AdbRootRow.cmds) = {Restart("adbd")}
  /\ Elems(StartAdbRow.cmds) = {Start("adbd")}
  /\ Elems(StartFastbootRow.cmds) = {Start("fastbootd")}
  /\ Elems(Decompose.cmds) = DecomposeCommands
  /\ \A m \in Modes \ {"none"} : Elems(Compose(m).cmds) = ComposeCommands(m)
<1>1. LateInitRow.cmds = Triggers /\ Elems(Triggers) = {Triggers[i] : i \in 1..7}
  <2>1. Triggers = << Trigger("early-fs"), Trigger("fs"), Trigger("post-fs"), Trigger("post-fs-data"),
                      Trigger("firmware_mounts_complete"), Trigger("early-boot"), Trigger("boot") >>
    <3> DEFINE s == << Trigger("early-fs"), Trigger("fs"), Trigger("post-fs"), Trigger("post-fs-data"),
                      Trigger("firmware_mounts_complete"), Trigger("early-boot"), Trigger("boot") >>
    <3>1. s \in [1..7 -> {s[i] : i \in 1..7}]
      OBVIOUS
    <3>2. ASSUME NEW i \in 1..7 PROVE Triggers[i] = s[i]
      <4>1. Triggers[i] = Trigger(Stages[i + 4])
        BY DEF Triggers
      <4>2. \/ i = 1 \/ i = 2 \/ i = 3 \/ i = 4 \/ i = 5 \/ i = 6 \/ i = 7
        OBVIOUS
      <4>3. /\ Stages[5] = "early-fs" /\ Stages[6] = "fs" /\ Stages[7] = "post-fs"
            /\ Stages[8] = "post-fs-data" /\ Stages[9] = "firmware_mounts_complete"
            /\ Stages[10] = "early-boot" /\ Stages[11] = "boot"
        BY DEF Stages
      <4> QED
        BY <4>1, <4>2, <4>3
    <3> QED
      BY <3>1, <3>2 DEF Triggers
  <2>2. Len(Triggers) = 7
    BY <2>1
  <2> QED
    BY <2>1, <2>2, LateInitIs DEF Elems
<1>2. Elems(Decompose.cmds) = DecomposeCommands
  BY DecomposeIs DEF DecomposeCommands
<1>3. \A m \in Modes \ {"none"} : Elems(Compose(m).cmds) = ComposeCommands(m)
  BY ComposeSideloadIs, ComposeAdbIs, ComposeFastbootIs DEF Modes, ComposeCommands
<1> QED
  BY <1>1, <1>2, <1>3, EarlyInitIs, InitIs, PostFsDataIs, ResetReadyIs, LoadWlanIs, HelperIs,
     AdbRootIs, MakeIs, MountIs, StartAdbIs, StartFastbootIs, TouchIs, DroidspacesdIs, ContainerIs

(* Which actions there are depends on the scripts that are installed.      *)
LEMMA RowsThere ==
  /\ \A r \in Elems(Rc) : r.stage # "" => r \in StageRows \/ (Usb /\ r \in {MakeRow, MountRow})
  /\ \A r \in Elems(Rc) : r.stage = "" =>
       r \in {HelperRow, ContainerRow} \/ (Usb /\ r \in UsbRows)
  /\ {EarlyInitRow, LateInitRow, PostFsDataRow} \subseteq Elems(Rc)
  /\ Usb => UsbRows \cup {MakeRow, MountRow} \subseteq Elems(Rc)
<1>1. Elems(Rc) = UNION {RowsOf(s) : s \in Scripts}
  BY RcElems
<1>2. ASSUME NEW r \in Elems(Rc)
      PROVE  \/ r \in StageRows \cup {HelperRow, ContainerRow}
             \/ Usb /\ r \in UsbRows \cup {MakeRow, MountRow}
  <2>1. PICK s \in Scripts : r \in RowsOf(s)
    BY <1>1, <1>2
  <2>2. s \in {"init", "wlan", "usb", "touch", "droidspaces"} /\ (s = "usb" => Usb)
    BY InstalledAssumption DEF Scripts, Usb
  <2>3. CASE s \in {"init", "wlan", "touch", "droidspaces"}
    BY <2>1, <2>3 DEF RowsOf, StageRows
  <2>4. CASE s = "usb"
    BY <2>1, <2>2, <2>4 DEF RowsOf, UsbRows
  <2> QED
    BY <2>2, <2>3, <2>4
<1>3. \A r \in StageRows \cup {MakeRow, MountRow} : r.stage # ""
  BY RowStages DEF StageRows
<1>4. \A r \in UsbRows \cup {HelperRow, ContainerRow} : r.stage = ""
  BY RowStages
<1>5. {EarlyInitRow, LateInitRow, PostFsDataRow} \subseteq Elems(Rc)
  <2>1. "init" \in Scripts /\ {EarlyInitRow, LateInitRow, PostFsDataRow} \subseteq RowsOf("init")
    BY DEF Scripts, RowsOf
  <2> QED
    BY <2>1, <1>1
<1>6. Usb => UsbRows \cup {MakeRow, MountRow} \subseteq Elems(Rc)
  <2>1. UsbRows \cup {MakeRow, MountRow} \subseteq RowsOf("usb")
    BY DEF RowsOf, UsbRows
  <2> QED
    BY <2>1, <1>1 DEF Scripts, Usb
<1> QED
  BY <1>2, <1>3, <1>4, <1>5, <1>6

-----------------------------------------------------------------------------
(* Where a row is in a sequence of three parts.                            *)
LEMMA InTheMiddle ==
  ASSUME NEW S, NEW a \in Seq(S), NEW b \in Seq(S), NEW c \in Seq(S),
         NEW x, x \notin Elems(a), x \notin Elems(c),
         NEW i \in 1..Len((a \o b) \o c), ((a \o b) \o c)[i] = x
  PROVE  /\ Len(a) \in Nat /\ i - Len(a) \in 1..Len(b)
         /\ b[i - Len(a)] = x
<1> DEFINE ab == a \o b
           n == Len(a)
           m == Len(b)
           l == Len(c)
<1>1. ab \in Seq(S) /\ Len(ab) = n + m /\ \A j \in 1..(n + m) : ab[j] = IF j <= n THEN a[j] ELSE b[j - n]
  BY ConcatProperties
<1>2. n \in Nat /\ m \in Nat /\ l \in Nat
  OBVIOUS
<1> HIDE DEF ab
<1>3. Len(ab \o c) = Len(ab) + l /\ \A j \in 1..(Len(ab) + l) : (ab \o c)[j] = IF j <= Len(ab) THEN ab[j] ELSE c[j - Len(ab)]
  BY <1>1, ConcatProperties
<1>4. i \in 1..(n + m + l) /\ x = IF i <= n + m THEN ab[i] ELSE c[i - (n + m)]
  BY <1>1, <1>2, <1>3 DEF ab
<1>5. \A j \in 1..n : a[j] # x
  BY DEF Elems
<1>6. \A j \in 1..l : c[j] # x
  BY DEF Elems
<1> HIDE DEF n, m, l
<1>7. i <= n + m
  <2> SUFFICES ASSUME ~(i <= n + m) PROVE FALSE
    OBVIOUS
  <2>1. i - (n + m) \in 1..l /\ x = c[i - (n + m)]
    BY <1>2, <1>4
  <2> QED
    BY <2>1, <1>6
<1>8. i \in 1..(n + m) /\ x = ab[i]
  BY <1>2, <1>4, <1>7
<1>9. ~(i <= n) /\ x = b[i - n]
  BY <1>1, <1>2, <1>5, <1>8
<1>10. i - n \in 1..m
  BY <1>2, <1>8, <1>9
<1> QED
  BY <1>2, <1>9, <1>10 DEF n, m

(* Concatenation is associative.                                           *)
LEMMA Regroup ==
  ASSUME NEW a \in Seq(Rows), NEW b \in Seq(Rows), NEW c \in Seq(Rows)
  PROVE  (a \o b) \o c = a \o (b \o c)
<1> DEFINE S == Rows
<1>1. a \in Seq(S) /\ b \in Seq(S) /\ c \in Seq(S)
  OBVIOUS
<1> HIDE DEF S
<1> QED
  BY <1>1, ConcatAssociative

(* The scripts are read in a fixed order: init's, wlan's, usb's, and the   *)
(* others.                                                                 *)
LEMMA RcParts ==
  /\ \E rest \in Seq(Rows) :
       /\ Rc = InitRc \o rest
       /\ Elems(rest) \subseteq RowsOf("wlan") \cup RowsOf("usb") \cup RowsOf("touch")
                                  \cup RowsOf("droidspaces")
  /\ Usb => \E a, c \in Seq(Rows) :
       /\ Rc = (a \o UsbRc) \o c
       /\ Elems(a) \subseteq RowsOf("init") \cup RowsOf("wlan")
       /\ Elems(c) \subseteq RowsOf("touch") \cup RowsOf("droidspaces")
<1> DEFINE i == InitRc
           w == Script("wlan", WlanRc)
           u == Script("usb", UsbRc)
           t == Script("touch", TouchRc)
           d == Script("droidspaces", DroidspacesRc)
<1>1. /\ i \in Seq(Rows) /\ Elems(i) = RowsOf("init")
      /\ w \in Seq(Rows) /\ Elems(w) \subseteq RowsOf("wlan")
      /\ u \in Seq(Rows) /\ Elems(u) \subseteq RowsOf("usb")
      /\ t \in Seq(Rows) /\ Elems(t) \subseteq RowsOf("touch")
      /\ d \in Seq(Rows) /\ Elems(d) \subseteq RowsOf("droidspaces")
  <2>1. Elems(<< >>) = {} /\ << >> \in Seq(Rows)
    BY DEF Elems
  <2> QED
    BY <2>1, ScriptElems DEF Script
<1>2. Usb => u = UsbRc
  BY DEF Script, Usb
<1>3. Rc = (((i \o w) \o u) \o t) \o d
  BY DEF Rc
<1> HIDE DEF i, w, u, t, d
<1>4. /\ t \o d \in Seq(Rows) /\ Elems(t \o d) = Elems(t) \cup Elems(d)
      /\ i \o w \in Seq(Rows) /\ Elems(i \o w) = Elems(i) \cup Elems(w)
  BY <1>1, ElemsConcat
<1> DEFINE td == t \o d
           iw == i \o w
<1>5. (iw \o u) \in Seq(Rows)
  BY <1>1, <1>4, ElemsConcat
<1>6. Rc = (iw \o u) \o td
  <2> DEFINE iwu == iw \o u
  <2>1. iwu \in Seq(Rows) /\ Rc = (iwu \o t) \o d
    BY <1>3, <1>5
  <2> HIDE DEF iwu
  <2>2. (iwu \o t) \o d = iwu \o (t \o d)
    BY <1>1, <2>1, Regroup
  <2> QED
    BY <2>1, <2>2, Zenon DEF iwu
<1>7. iw \in Seq(Rows) /\ td \in Seq(Rows) /\ Elems(iw) = Elems(i) \cup Elems(w)
      /\ Elems(td) = Elems(t) \cup Elems(d)
  BY <1>4
<1> HIDE DEF td, iw
<1>8. u \o td \in Seq(Rows) /\ Elems(u \o td) = Elems(u) \cup Elems(td)
  BY <1>1, <1>7, ElemsConcat
<1>9. Rc = iw \o (u \o td)
  <2>1. (iw \o u) \o td = iw \o (u \o td)
    <3>1. iw \in Seq(Rows) /\ u \in Seq(Rows) /\ td \in Seq(Rows)
      BY <1>1, <1>7
    <3> QED
      BY <3>1, Regroup, Zenon
  <2> QED
    BY <1>6, <2>1, Zenon
<1> DEFINE utd == u \o td
<1>10. utd \in Seq(Rows) /\ Elems(utd) = Elems(u) \cup Elems(td) /\ Rc = iw \o utd
  BY <1>8, <1>9
<1> HIDE DEF utd
<1>11. w \o utd \in Seq(Rows) /\ Elems(w \o utd) = Elems(w) \cup Elems(utd)
  BY <1>1, <1>10, ElemsConcat
<1>12. Rc = i \o (w \o utd)
  <2>1. (i \o w) \o utd = i \o (w \o utd)
    <3>1. i \in Seq(Rows) /\ w \in Seq(Rows) /\ utd \in Seq(Rows)
      BY <1>1, <1>10
    <3> QED
      BY <3>1, Regroup, Zenon
  <2>2. Rc = (i \o w) \o utd
    BY <1>10, Zenon DEF iw
  <2> QED
    BY <2>1, <2>2, Zenon
<1>13. \E rest \in Seq(Rows) : Rc = InitRc \o rest /\ Elems(rest) = Elems(w) \cup Elems(utd)
  BY <1>11, <1>12, Zenon DEF i
<1>14. Usb => \E a, c \in Seq(Rows) :
         Rc = (a \o UsbRc) \o c /\ Elems(a) = Elems(i) \cup Elems(w) /\ Elems(c) = Elems(t) \cup Elems(d)
  BY <1>2, <1>6, <1>7, Zenon
<1>15. Elems(w) \cup Elems(utd) \subseteq RowsOf("wlan") \cup RowsOf("usb") \cup RowsOf("touch")
                                  \cup RowsOf("droidspaces")
  BY <1>1, <1>7, <1>10
<1> QED
  BY <1>1, <1>13, <1>14, <1>15

(* late-init is named by one action.                                       *)
LEMMA LateInitOnce ==
  \A i, j \in 1..Len(Rc) : Rc[i] = LateInitRow /\ Rc[j] = LateInitRow => i = j
<1>1. PICK rest \in Seq(Rows) :
        /\ Rc = InitRc \o rest
        /\ Elems(rest) \subseteq RowsOf("wlan") \cup RowsOf("usb") \cup RowsOf("touch")
                                  \cup RowsOf("droidspaces")
  BY RcParts
<1>2. InitRc \in Seq(Rows) /\ Len(InitRc) = 4
  BY ScriptElems
<1>3. ASSUME NEW r \in Elems(rest) PROVE r.stage # "late-init"
  <2>1. r \in RowsOf("wlan") \cup RowsOf("usb") \cup RowsOf("touch") \cup RowsOf("droidspaces")
    BY <1>1
  <2>2. \A x \in UsbRows : x.stage = ""
    BY RowStages
  <2> QED
    BY <2>1, <2>2, RowStages DEF RowsOf, UsbRows
<1>4. LateInitRow \notin Elems(rest)
  BY <1>3, RowStages
<1>5. /\ InitRc[1].stage = "early-init" /\ InitRc[2].stage = "init"
      /\ InitRc[3].stage = "late-init" /\ InitRc[4].stage = "post-fs-data"
  <2>1. InitRc = << EarlyInitRow, InitRow, LateInitRow, PostFsDataRow >>
    BY DEF InitRc, EarlyInitRow, InitRow, LateInitRow, PostFsDataRow
  <2> QED
    BY <2>1, RowStages
<1>6. ASSUME NEW i \in 1..Len(Rc), Rc[i] = LateInitRow PROVE i = 3
  <2>1. << >> \in Seq(Rows) /\ Len(<< >>) = 0 /\ << >> \o InitRc = InitRc
    BY <1>2, ConcatEmptySeq
  <2>2. LateInitRow \notin Elems(<< >>)
    BY DEF Elems
  <2>3. (<< >> \o InitRc) \o rest = Rc
    BY <1>1, <2>1
  <2>4. i - Len(<< >>) \in 1..Len(InitRc) /\ InitRc[i - Len(<< >>)] = LateInitRow
    <3>1. i \in 1..Len((<< >> \o InitRc) \o rest) /\ ((<< >> \o InitRc) \o rest)[i] = LateInitRow
      BY <2>3, <1>6
    <3> DEFINE e == << >>
               x == LateInitRow
               c == InitRc
    <3>2. e \in Seq(Rows) /\ c \in Seq(Rows) /\ x \notin Elems(e)
          /\ i \in 1..Len((e \o c) \o rest) /\ ((e \o c) \o rest)[i] = x
      BY <1>2, <2>1, <2>2, <3>1
    <3> HIDE DEF e, x, c
    <3>3. i - Len(e) \in 1..Len(c) /\ c[i - Len(e)] = x
      BY <1>4, <3>2, InTheMiddle DEF x
    <3> QED
      BY <3>3 DEF e, x, c
  <2>5. i \in 1..4 /\ InitRc[i].stage = "late-init"
    <3>1. i \in Nat
      BY RcElems
    <3>2. i - Len(<< >>) = i
      BY <2>1, <3>1
    <3>3. LateInitRow.stage = "late-init"
      BY RowStages
    <3> QED
      BY <2>4, <3>2, <1>2, <3>3
  <2> QED
    BY <2>5, <1>5
<1> QED
  BY <1>6

(* The functions are made before they are mounted.                         *)
LEMMA MakeIsFirst ==
  \A i, j \in 1..Len(Rc) : Rc[i] = MakeRow /\ Rc[j] = MountRow => i < j
<1>1. ASSUME Usb PROVE \A i, j \in 1..Len(Rc) : Rc[i] = MakeRow /\ Rc[j] = MountRow => i < j
  <2>1. PICK a \in Seq(Rows), c \in Seq(Rows) :
          /\ Rc = (a \o UsbRc) \o c
          /\ Elems(a) \subseteq RowsOf("init") \cup RowsOf("wlan")
          /\ Elems(c) \subseteq RowsOf("touch") \cup RowsOf("droidspaces")
    BY <1>1, RcParts
  <2>2. UsbRc \in Seq(Rows) /\ Len(UsbRc) = 9
    BY ScriptElems
  <2>3. \A r \in Elems(a) \cup Elems(c) : r.stage # "fs"
    BY <2>1, RowStages DEF RowsOf
  <2>4. MakeRow \notin Elems(a) \cup Elems(c) /\ MountRow \notin Elems(a) \cup Elems(c)
    BY <2>3, RowStages
  <2>5. /\ UsbRc[1].stage = "" /\ UsbRc[2] = MakeRow /\ UsbRc[3] = MountRow
        /\ \A k \in 4..9 : UsbRc[k].stage = ""
    <3>1. UsbRc = << AdbRootRow, MakeRow, MountRow, StartAdbRow, StartFastbootRow, Decompose,
                     Compose("sideload"), Compose("adb"), Compose("fastboot") >>
      BY DEF UsbRc, AdbRootRow, MakeRow, MountRow, StartAdbRow, StartFastbootRow
    <3>2. /\ UsbRc[1] = AdbRootRow /\ UsbRc[2] = MakeRow /\ UsbRc[3] = MountRow
          /\ UsbRc[4] = StartAdbRow /\ UsbRc[5] = StartFastbootRow /\ UsbRc[6] = Decompose
          /\ UsbRc[7] = Compose("sideload") /\ UsbRc[8] = Compose("adb")
          /\ UsbRc[9] = Compose("fastboot")
      BY <3>1
    <3>3. \A r \in UsbRows : r.stage = ""
      BY RowStages
    <3>4. \A k \in 4..9 : k = 4 \/ k = 5 \/ k = 6 \/ k = 7 \/ k = 8 \/ k = 9
      OBVIOUS
    <3> QED
      BY <3>2, <3>3, <3>4 DEF UsbRows
  <2>6. MakeRow # MountRow /\ MakeRow.stage = "fs" /\ MountRow.stage = "fs"
    <3>1. MakeRow.props # {} /\ MountRow.props = {}
      BY MakeIs, MountIs
    <3> QED
      BY <3>1, RowStages
  <2>7. ASSUME NEW x \in {MakeRow, MountRow}, NEW i \in 1..Len(Rc), Rc[i] = x
        PROVE  Len(a) \in Nat /\ i - Len(a) = IF x = MakeRow THEN 2 ELSE 3
    <3>1. x \notin Elems(a) /\ x \notin Elems(c)
      BY <2>4, <2>7
    <3>2. Len(a) \in Nat /\ i - Len(a) \in 1..Len(UsbRc) /\ UsbRc[i - Len(a)] = x
      <4> DEFINE b == UsbRc
      <4>1. b \in Seq(Rows) /\ i \in 1..Len((a \o b) \o c) /\ ((a \o b) \o c)[i] = x
        BY <2>1, <2>2, <2>7
      <4> HIDE DEF b
      <4>2. Len(a) \in Nat /\ i - Len(a) \in 1..Len(b) /\ b[i - Len(a)] = x
        BY <3>1, <4>1, InTheMiddle
      <4> QED
        BY <4>2 DEF b
    <3> DEFINE k == i - Len(a)
    <3> HIDE DEF k
    <3>3. k \in 1..9 /\ UsbRc[k] = x /\ UsbRc[k].stage = "fs"
      BY <3>2, <2>2, <2>6, <2>7 DEF k
    <3>4. k = 2 \/ k = 3
      <4>1. k = 1 \/ k = 2 \/ k = 3 \/ k \in 4..9
        BY <3>3
      <4> QED
        BY <3>3, <4>1, <2>5
    <3> QED
      BY <3>2, <3>3, <3>4, <2>5, <2>6 DEF k
  <2>8. ASSUME NEW i \in 1..Len(Rc), NEW j \in 1..Len(Rc), Rc[i] = MakeRow, Rc[j] = MountRow
        PROVE  i < j
    <3>1. Len(a) \in Nat /\ i - Len(a) = 2 /\ j - Len(a) = 3
      BY <2>6, <2>7, <2>8
    <3>2. i \in Int /\ j \in Int
      BY RcElems
    <3> QED
      BY <3>1, <3>2
  <2> QED
    BY <2>8
<1>2. ASSUME ~Usb PROVE MakeRow \notin Elems(Rc)
  <2>1. MakeRow \notin StageRows /\ MakeRow.stage # ""
    BY RowStages DEF StageRows
  <2> QED
    BY <2>1, <1>2, RowsThere
<1> QED
  BY <1>1, <1>2, RcElems DEF Elems

(* The verbs and arguments of the commands.                                *)
LEMMA Fields ==
  /\ \A x, y : SetProp(x, y).do = "setprop" /\ SetProp(x, y).arg = x /\ SetProp(x, y).val = y
  /\ \A x, y : CopyProp(x, y).do = "copyprop" /\ CopyProp(x, y).arg = x /\ CopyProp(x, y).val = y
  /\ \A x : Start(x).do = "start" /\ Start(x).arg = x
  /\ \A x : Stop(x).do = "stop" /\ Stop(x).arg = x
  /\ \A x : Restart(x).do = "restart" /\ Restart(x).arg = x
  /\ \A x : Trigger(x).do = "trigger" /\ Trigger(x).arg = x
  /\ \A x : MakeFunction(x).do = "mkfunction" /\ MakeFunction(x).arg = x
  /\ \A x : MountFunctionfs(x).do = "mount_ffs" /\ MountFunctionfs(x).arg = x
  /\ \A x : IdProduct(x).do = "id_product" /\ IdProduct(x).arg = x
  /\ \A x : Link(x).do = "symlink_f1" /\ Link(x).arg = FunctionOf(x)
  /\ Unlink.do = "rm_f1"
  /\ BindUdc.do = "write_udc" /\ BindUdc.arg = "controller"
  /\ UnbindUdc.do = "write_udc" /\ UnbindUdc.arg = "none"
  /\ MountConfigfs.do = "mount_configfs" /\ MountNvdata.do = "mount_nvdata"
  /\ QueuePropertyTriggers.do = "queue_property_triggers"
  /\ EnablePropertyTrigger.do = "enable_property_trigger"
BY DEF Cmd, SetProp, CopyProp, Start, Stop, Restart, Trigger, MakeFunction, MountFunctionfs,
       IdProduct, Link, Unlink, BindUdc, UnbindUdc, MountConfigfs, MountNvdata,
       QueuePropertyTriggers, EnablePropertyTrigger

LEMMA RowProps ==
  /\ EarlyInitRow.props = {} /\ LateInitRow.props = {} /\ PostFsDataRow.props = {}
  /\ MakeRow.props = {<< "configfs", "1" >>} /\ MountRow.props = {}
  /\ HelperRow.props = {<< "load_wlan_driver", "stopped" >>}
  /\ ContainerRow.props = {<< "droidspacesd", "running" >>}
  /\ AdbRootRow.props = {<< "adb.root", "1" >>}
  /\ StartAdbRow.props = {<< "config", "adb" >>}
  /\ StartFastbootRow.props = {<< "config", "fastboot" >>}
  /\ Decompose.props = {<< "config", "none" >>, << "configfs", "1" >>}
  /\ \A m \in Modes \ {"none"} :
       Compose(m).props = {<< "config", m >>, << "ffs.ready", "1" >>, << "configfs", "1" >>}
<1>1. \A m \in Modes \ {"none"} :
       Compose(m).props = {<< "config", m >>, << "ffs.ready", "1" >>, << "configfs", "1" >>}
  BY ComposeSideloadIs, ComposeAdbIs, ComposeFastbootIs DEF Modes
<1> QED
  BY <1>1, EarlyInitIs, LateInitIs, PostFsDataIs, MakeIs, MountIs, HelperIs, ContainerIs,
     AdbRootIs, StartAdbIs, StartFastbootIs, DecomposeIs

(* The stages of the boot.                                                 *)
LEMMA StagesAre ==
  /\ Stages[1] = "early-init" /\ Stages[2] = "init" /\ Stages[3] = "late-init"
  /\ Stages[5] = "early-fs" /\ Stages[6] = "fs" /\ Stages[7] = "post-fs"
  /\ Stages[8] = "post-fs-data" /\ Stages[9] = "firmware_mounts_complete"
  /\ Stages[10] = "early-boot" /\ Stages[11] = "boot"
BY DEF Stages

(* A stage selects its actions whose conditions hold.                      *)
LEMMA StageSelected ==
  ASSUME NEW st, st # ""
  PROVE  /\ Selected(StageEvent(st)) \in Seq(Rows)
         /\ Elems(Selected(StageEvent(st))) =
              {r \in Elems(Rc) : r.stage = st /\ Holds(r.props, prop)}
         /\ \A r \in Elems(Selected(StageEvent(st))) : r \in Elems(Rc) /\ r.stage = st /\
              (r \in StageRows \/ (Usb /\ r \in {MakeRow, MountRow}))
<1> DEFINE e == StageEvent(st)
<1>1. e.kind = "stage" /\ e.name = st
  BY DEF StageEvent, Event
<1> HIDE DEF e
<1>2. \A r : Selects(e, r, prop) <=> r.stage = st /\ Holds(r.props, prop)
  BY <1>1 DEF Selects
<1>3. /\ Selected(e) \in Seq(Rows)
      /\ Elems(Selected(e)) = {r \in Elems(Rc) : Selects(e, r, prop)}
  BY <1>1, SelectedElems
<1>4. Elems(Selected(e)) = {r \in Elems(Rc) : r.stage = st /\ Holds(r.props, prop)}
  BY <1>2, <1>3
<1>5. \A r \in Elems(Selected(e)) : r \in Elems(Rc) /\ r.stage = st /\
              (r \in StageRows \/ (Usb /\ r \in {MakeRow, MountRow}))
  BY <1>4, RowsThere
<1> QED
  BY <1>3, <1>4, <1>5 DEF e

(* The commands of each stage.                                             *)
LEMMA CommandsOnAre ==
  /\ CommandsOn(0) = {} /\ CommandsOn(5) = {} /\ CommandsOn(7) = {} /\ CommandsOn(9) = {}
  /\ CommandsOn(13) = {}
  /\ CommandsOn(1) = {SetProp("configfs", "1")}
  /\ CommandsOn(2) = {Start("selinux-permissive")}
  /\ CommandsOn(3) = {Triggers[i] : i \in 1..7}
  /\ CommandsOn(4) = {QueuePropertyTriggers}
  /\ CommandsOn(6) = {MountConfigfs, MakeFunction("adb"), MakeFunction("fastboot"),
                      MountFunctionfs("adb"), MountFunctionfs("fastboot")}
  /\ CommandsOn(8) = {SetProp("config", "adb")}
  /\ CommandsOn(10) = {SetProp("connsys", "no")}
  /\ CommandsOn(11) = {MountNvdata, Start("load_wlan_driver"), Start("focaltech-tp"),
                       Start("droidspacesd")}
  /\ CommandsOn(12) = {EnablePropertyTrigger}
<1>1. CommandsOn(6) = {MountConfigfs, MakeFunction("adb"), MakeFunction("fastboot"),
                      MountFunctionfs("adb"), MountFunctionfs("fastboot")}
  BY DEF CommandsOn
<1>2. CommandsOn(3) = {Triggers[i] : i \in 1..7}
  BY DEF CommandsOn
<1> QED
  BY <1>1, <1>2 DEF CommandsOn

LEMMA HoldsNothing == Holds({}, prop)
BY DEF Holds

(* What a stage of the boot selects are the commands of the stage.         *)
LEMMA BootSelected ==
  ASSUME NEW cur \in 1..11, cur # 4, NEW t, t = Selected(StageEvent(Stages[cur]))
  PROVE  /\ t \in Seq(Rows)
         /\ LeftOf(t) \subseteq CommandsOn(cur)
         /\ cur = 1 => SetProp("configfs", "1") \in LeftOf(t)
         /\ cur = 3 => Len(t) = 1 /\ t[1].cmds = Triggers
         /\ cur = 8 => SetProp("config", "adb") \in LeftOf(t)
         /\ cur = 6 /\ Usb => \A f \in {"adb", "fastboot"} : MountFunctionfs(f) \in LeftOf(t)
<1> DEFINE st == Stages[cur]
<1>1. /\ cur \in {1, 2, 3, 5, 6, 7, 8, 9, 10, 11} /\ st # ""
      /\ cur = 1 <=> st = "early-init"
      /\ cur = 2 <=> st = "init"
      /\ cur = 3 <=> st = "late-init"
      /\ cur = 6 <=> st = "fs"
      /\ cur = 8 <=> st = "post-fs-data"
      /\ cur = 10 <=> st = "early-boot"
      /\ cur = 11 <=> st = "boot"
  <2>1. \/ cur = 1 \/ cur = 2 \/ cur = 3 \/ cur = 5 \/ cur = 6 \/ cur = 7 \/ cur = 8
        \/ cur = 9 \/ cur = 10 \/ cur = 11
    OBVIOUS
  <2> QED
    BY <2>1, StagesAre
<1> HIDE DEF st
<1>2. /\ t \in Seq(Rows)
      /\ Elems(t) = {r \in Elems(Rc) : r.stage = st /\ Holds(r.props, prop)}
      /\ \A r \in Elems(t) : r \in Elems(Rc) /\ r.stage = st /\
              (r \in StageRows \/ (Usb /\ r \in {MakeRow, MountRow}))
  BY <1>1, StageSelected DEF st
<1>3. \A c : c \in LeftOf(t) <=> \E r \in Elems(t) : c \in Elems(r.cmds)
  BY DEF LeftOf
<1>4. ASSUME NEW c \in LeftOf(t) PROVE c \in CommandsOn(cur)
  <2>1. PICK r \in Elems(t) : c \in Elems(r.cmds)
    BY <1>3, <1>4
  <2>2. r.stage = st /\ r \in StageRows \cup {MakeRow, MountRow}
    BY <1>2
  <2>3. CASE r = EarlyInitRow
    BY <2>1, <2>2, <2>3, <1>1, RowStages, RowElems, CommandsOnAre
  <2>4. CASE r = InitRow
    BY <2>1, <2>2, <2>4, <1>1, RowStages, RowElems, CommandsOnAre
  <2>5. CASE r = LateInitRow
    BY <2>1, <2>2, <2>5, <1>1, RowStages, RowElems, CommandsOnAre
  <2>6. CASE r = PostFsDataRow
    BY <2>1, <2>2, <2>6, <1>1, RowStages, RowElems, CommandsOnAre
  <2>7. CASE r = ResetReadyRow
    BY <2>1, <2>2, <2>7, <1>1, RowStages, RowElems, CommandsOnAre
  <2>8. CASE r \in {LoadWlanRow, TouchRow, DroidspacesdRow}
    BY <2>1, <2>2, <2>8, <1>1, RowStages, RowElems, CommandsOnAre
  <2>9. CASE r \in {MakeRow, MountRow}
    BY <2>1, <2>2, <2>9, <1>1, RowStages, RowElems, CommandsOnAre
  <2> QED
    BY <2>2, <2>3, <2>4, <2>5, <2>6, <2>7, <2>8, <2>9 DEF StageRows
<1>5. ASSUME cur = 1 PROVE SetProp("configfs", "1") \in LeftOf(t)
  <2>1. EarlyInitRow \in Elems(t)
    BY <1>1, <1>2, <1>5, RowsThere, RowStages, RowProps, HoldsNothing
  <2> QED
    BY <2>1, <1>3, RowElems
<1>6. ASSUME cur = 8 PROVE SetProp("config", "adb") \in LeftOf(t)
  <2>1. PostFsDataRow \in Elems(t)
    BY <1>1, <1>2, <1>6, RowsThere, RowStages, RowProps, HoldsNothing
  <2> QED
    BY <2>1, <1>3, RowElems
<1>7. ASSUME cur = 6, Usb PROVE \A f \in {"adb", "fastboot"} : MountFunctionfs(f) \in LeftOf(t)
  <2>1. MountRow \in Elems(t)
    BY <1>1, <1>2, <1>7, RowsThere, RowStages, RowProps, HoldsNothing
  <2> QED
    BY <2>1, <1>3, RowElems
<1>8. ASSUME cur = 3 PROVE Len(t) = 1 /\ t[1].cmds = Triggers
  <2>1. LateInitRow \in Elems(t)
    BY <1>1, <1>2, <1>8, RowsThere, RowStages, RowProps, HoldsNothing
  <2>2. \A r \in Elems(t) : r = LateInitRow
    BY <1>1, <1>2, <1>8, RowStages DEF StageRows
  <2>3. \A k \in 1..Len(t) : t[k] = LateInitRow
    BY <2>2 DEF Elems
  <2>4. Len(t) \in Nat /\ Len(t) # 0
    BY <1>2, <2>1, ElemsOf
  <2>5. ASSUME Len(t) > 1 PROVE FALSE
    <3>1. StageEvent(st).kind # "builtin" /\ 1 \in 1..Len(t) /\ 2 \in 1..Len(t)
      <4>1. StageEvent(st).kind # "builtin"
        BY DEF StageEvent, Event
      <4> DEFINE n == Len(t)
      <4> HIDE DEF n
      <4>2. 1 \in 1..n /\ 2 \in 1..n
        BY <2>4, <2>5 DEF n
      <4> QED
        BY <4>1, <4>2 DEF n
    <3>2. \E i, j \in 1..Len(Rc) : i < j /\ t[1] = Rc[i] /\ t[2] = Rc[j]
      <4> DEFINE e == StageEvent(st)
      <4>1. t = Selected(e) /\ e.kind # "builtin"
        BY <3>1 DEF st
      <4> HIDE DEF e
      <4>2. \A k, l \in 1..Len(Selected(e)) : k < l =>
              \E i, j \in 1..Len(Rc) : i < j /\ Selected(e)[k] = Rc[i] /\ Selected(e)[l] = Rc[j]
        BY <4>1, SelectedElems
      <4> QED
        BY <3>1, <4>1, <4>2
    <3>3. PICK i \in 1..Len(Rc), j \in 1..Len(Rc) : i < j /\ t[1] = Rc[i] /\ t[2] = Rc[j]
      BY <3>2
    <3>4. i = j
      BY <2>3, <3>1, <3>3, LateInitOnce
    <3>5. i \in Int
      OBVIOUS
    <3> QED
      BY <3>3, <3>4, <3>5
  <2>6. Len(t) = 1
    <3> DEFINE n == Len(t)
    <3>1. n \in Nat /\ n # 0 /\ ~(n > 1)
      BY <2>4, <2>5
    <3> HIDE DEF n
    <3>2. n = 1
      BY <3>1
    <3> QED
      BY <3>2 DEF n
  <2> QED
    BY <2>3, <2>6, RowElems
<1> QED
  BY <1>2, <1>4, <1>5, <1>6, <1>7, <1>8

(* A command is led when an earlier one of its action leads it.            *)
LEMMA FsOrder ==
  ASSUME prop["configfs"] = "1", Usb, NEW t, t = Selected(StageEvent("fs")),
         NEW f \in {"adb", "fastboot"}
  PROVE  ~Unled(t, MakeFunction(f), MountFunctionfs(f)) /\ ~Unled(t, MountConfigfs, MakeFunction(f))
<1>1. /\ t \in Seq(Rows)
      /\ Elems(t) = {r \in Elems(Rc) : r.stage = "fs" /\ Holds(r.props, prop)}
      /\ \A r \in Elems(t) : r \in Elems(Rc) /\ r.stage = "fs" /\
              (r \in StageRows \/ (Usb /\ r \in {MakeRow, MountRow}))
  BY StageSelected
<1>2. \A r \in Elems(t) : r \in {MakeRow, MountRow}
  BY <1>1, RowStages DEF StageRows
<1>3. MakeRow \in Elems(t)
  <2>1. Holds(MakeRow.props, prop)
    BY RowProps DEF Holds
  <2> QED
    BY <2>1, <1>1, RowsThere, RowStages
<1>4. PICK m \in 1..Len(t) : t[m] = MakeRow
  BY <1>3 DEF Elems
<1>5. ASSUME NEW k \in 1..Len(t) PROVE t[k] \in {MakeRow, MountRow}
  BY <1>2 DEF Elems
<1>6. /\ MakeRow.cmds = << MountConfigfs, MakeFunction("adb"), MakeFunction("fastboot") >>
      /\ MountRow.cmds = << MountFunctionfs("adb"), MountFunctionfs("fastboot") >>
  BY MakeIs, MountIs
<1>7. ASSUME Unled(t, MountConfigfs, MakeFunction(f)) PROVE FALSE
  <2>1. PICK k \in 1..Len(t) : \E i \in 1..Len(t[k].cmds) :
          /\ t[k].cmds[i] = MakeFunction(f)
          /\ \A j \in 1..(i - 1) : t[k].cmds[j] # MountConfigfs
    BY <1>7 DEF Unled
  <2>2. PICK i \in 1..Len(t[k].cmds) :
          /\ t[k].cmds[i] = MakeFunction(f)
          /\ \A j \in 1..(i - 1) : t[k].cmds[j] # MountConfigfs
    BY <2>1
  <2>3. CASE t[k] = MakeRow
    <3> DEFINE c == << MountConfigfs, MakeFunction("adb"), MakeFunction("fastboot") >>
    <3>1. Len(c) = 3 /\ c[1] = MountConfigfs
      OBVIOUS
    <3>2. t[k].cmds = c
      BY <2>3, <1>6
    <3> HIDE DEF c
    <3>3. i \in 1..3 /\ c[i] = MakeFunction(f) /\ \A j \in 1..(i - 1) : c[j] # MountConfigfs
      BY <2>2, <3>1, <3>2
    <3>4. i # 1
      BY <3>1, <3>3, Fields
    <3> QED
      BY <3>1, <3>3, <3>4
  <2>4. CASE t[k] = MountRow
    <3>1. MakeFunction(f) \in Elems(MountRow.cmds)
      BY <2>2, <2>4 DEF Elems
    <3> QED
      BY <3>1, RowElems, Fields
  <2> QED
    BY <1>5, <2>3, <2>4
<1>8. ASSUME Unled(t, MakeFunction(f), MountFunctionfs(f)) PROVE FALSE
  <2>1. PICK k \in 1..Len(t) : \E i \in 1..Len(t[k].cmds) :
          /\ t[k].cmds[i] = MountFunctionfs(f)
          /\ \A l \in 1..(k - 1) : \A j \in 1..Len(t[l].cmds) : t[l].cmds[j] # MakeFunction(f)
    BY <1>8 DEF Unled
  <2>2. PICK i \in 1..Len(t[k].cmds) :
          /\ t[k].cmds[i] = MountFunctionfs(f)
          /\ \A l \in 1..(k - 1) : \A j \in 1..Len(t[l].cmds) : t[l].cmds[j] # MakeFunction(f)
    BY <2>1
  <2>3. t[k] = MountRow
    <3>1. MountFunctionfs(f) \in Elems(t[k].cmds)
      BY <2>2 DEF Elems
    <3>2. MountFunctionfs(f) \notin Elems(MakeRow.cmds)
      BY RowElems, Fields
    <3> QED
      BY <3>1, <3>2, <1>5
  <2>4. MakeFunction(f) \in Elems(MakeRow.cmds)
    BY RowElems
  <2>5. PICK j \in 1..Len(t[m].cmds) : t[m].cmds[j] = MakeFunction(f)
    BY <2>4, <1>4 DEF Elems
  <2>6. ~(m < k)
    <3>1. m < k => m \in 1..(k - 1)
      BY <1>1
    <3> QED
      BY <2>2, <2>5, <3>1
  <2>7. m # k
    <3>1. MountFunctionfs(f) \notin Elems(MakeRow.cmds)
      BY RowElems, Fields
    <3>2. MountFunctionfs(f) \in Elems(MountRow.cmds)
      BY RowElems
    <3> QED
      BY <3>1, <3>2, <1>4, <2>3
  <2>8. k < m
    BY <1>1, <2>6, <2>7
  <2>9. StageEvent("fs").kind # "builtin"
    BY DEF StageEvent, Event
  <2>10. PICK x \in 1..Len(Rc), y \in 1..Len(Rc) : x < y /\ t[k] = Rc[x] /\ t[m] = Rc[y]
    BY <2>8, <2>9, SelectedElems
  <2>11. y < x
    BY <2>10, <2>3, <1>4, MakeIsFirst
  <2> QED
    BY <2>10, <2>11
<1> QED
  BY <1>7, <1>8

(* What init itself queued is one command.                                 *)
LEMMA BuiltinSelected ==
  ASSUME NEW c \in {QueuePropertyTriggers, EnablePropertyTrigger}, NEW t, t = Selected(Builtin(c))
  PROVE  /\ t \in Seq(Rows) /\ Len(t) = 1 /\ Len(t[1].cmds) = 1 /\ LeftOf(t) = {c}
<1>1. /\ Builtin(c).kind = "builtin" /\ Cmd(Builtin(c).name, "", "") = c
  <2>1. Builtin(c).kind = "builtin" /\ Builtin(c).name = c.do
    BY DEF Builtin, Event
  <2>2. Cmd("queue_property_triggers", "", "") = QueuePropertyTriggers
    BY DEF QueuePropertyTriggers
  <2>3. Cmd("enable_property_trigger", "", "") = EnablePropertyTrigger
    BY DEF EnablePropertyTrigger
  <2> DEFINE x == Builtin(c).name
  <2>4. (c = QueuePropertyTriggers /\ x = "queue_property_triggers")
          \/ (c = EnablePropertyTrigger /\ x = "enable_property_trigger")
    BY <2>1, Fields
  <2> HIDE DEF x
  <2>5. Cmd(x, "", "") = c
    BY <2>2, <2>3, <2>4, Zenon
  <2> QED
    BY <2>1, <2>5 DEF x
<1> DEFINE r == OnStage("", << c >>)
<1>2. t = << r >>
  BY <1>1 DEF Selected
<1>3. c \in Commands
  <2>1. QueuePropertyTriggers \in Commands
    BY DEF Commands, Verbs, Names, Good, Cmd, QueuePropertyTriggers
  <2>2. EnablePropertyTrigger \in Commands
    BY DEF Commands, Verbs, Names, Good, Cmd, EnablePropertyTrigger
  <2> QED
    BY <2>1, <2>2
<1>4. << c >> \in Seq(Commands) \ {<< >>} /\ Len(<< c >>) = 1 /\ Elems(<< c >>) = {c}
  BY <1>3, Elems1
<1>5. r \in Rows /\ r.cmds = << c >>
  BY <1>4 DEF OnStage, On, Rows
<1> HIDE DEF r
<1>6. t \in Seq(Rows) /\ Len(t) = 1 /\ t[1] = r /\ Elems(t) = {r}
  BY <1>2, <1>5, Elems1
<1> QED
  BY <1>4, <1>5, <1>6 DEF LeftOf

(* What a property change or the event of all properties selects.          *)
LEMMA PropSelected ==
  ASSUME NEW e, e.kind = "prop", NEW t, t = Selected(e)
  PROVE  /\ t \in Seq(Rows)
         /\ \A r \in Elems(t) :
              /\ r \in {HelperRow, ContainerRow} \/ (Usb /\ r \in UsbRows)
              /\ << e.name, e.value >> \in r.props
              /\ \A q \in r.props : q[1] # e.name => prop[q[1]] = q[2]
         /\ \A r \in UsbRows :
              Usb /\ << e.name, e.value >> \in r.props
                /\ (\A q \in r.props : q[1] # e.name => prop[q[1]] = q[2]) => r \in Elems(t)
<1>1. /\ t \in Seq(Rows)
      /\ Elems(t) = {r \in Elems(Rc) : Selects(e, r, prop)}
  BY SelectedElems
<1>2. \A r : Selects(e, r, prop) <=>
              /\ r.stage = "" /\ << e.name, e.value >> \in r.props
              /\ \A q \in r.props : q[1] # e.name => prop[q[1]] = q[2]
  BY DEF Selects, Holds
<1> QED
  BY <1>1, <1>2, RowsThere, RowStages

(* At the end of the boot every action whose conditions hold is selected.  *)
LEMMA EverySelected ==
  ASSUME NEW e, e.kind = "all", NEW t, t = Selected(e)
  PROVE  /\ t \in Seq(Rows)
         /\ \A r \in Elems(t) :
              /\ r \in {HelperRow, ContainerRow} \/ (Usb /\ r \in UsbRows)
              /\ \A q \in r.props : prop[q[1]] = q[2]
         /\ \A r \in UsbRows :
              Usb /\ (\A q \in r.props : prop[q[1]] = q[2]) => r \in Elems(t)
<1>1. /\ t \in Seq(Rows)
      /\ Elems(t) = {r \in Elems(Rc) : Selects(e, r, prop)}
  BY SelectedElems
<1>2. \A r : Selects(e, r, prop) <=> r.stage = "" /\ \A q \in r.props : prop[q[1]] = q[2]
  BY DEF Selects, Holds
<1> QED
  BY <1>1, <1>2, RowsThere, RowStages

(* The actions by what they name and what they do.                         *)
LEMMA RowKinds ==
  ASSUME NEW r \in {HelperRow, ContainerRow} \cup UsbRows
  PROVE  \/ /\ r.props = {<< "load_wlan_driver", "stopped" >>}
            /\ Elems(r.cmds) = {Start("wifi-helper")}
         \/ /\ r.props = {<< "droidspacesd", "running" >>}
            /\ Elems(r.cmds) = {Start("ubuntu-droidspaces")}
         \/ /\ r.props = {<< "adb.root", "1" >>} /\ Elems(r.cmds) = {Restart("adbd")}
         \/ /\ r.props = {<< "config", "adb" >>} /\ Elems(r.cmds) = {Start("adbd")}
         \/ /\ r.props = {<< "config", "fastboot" >>} /\ Elems(r.cmds) = {Start("fastbootd")}
         \/ /\ r.props = {<< "config", "none" >>, << "configfs", "1" >>}
            /\ Elems(r.cmds) = DecomposeCommands
         \/ \E m \in Modes \ {"none"} :
              /\ r = Compose(m)
              /\ r.props = {<< "config", m >>, << "ffs.ready", "1" >>, << "configfs", "1" >>}
              /\ Elems(r.cmds) = ComposeCommands(m)
<1>1. CASE r \in {HelperRow, ContainerRow, AdbRootRow, StartAdbRow, StartFastbootRow, Decompose}
  BY <1>1, RowProps, RowElems
<1>2. CASE r \in {Compose("sideload"), Compose("adb"), Compose("fastboot")}
  <2>1. \E m \in Modes \ {"none"} : r = Compose(m)
    BY <1>2 DEF Modes
  <2> QED
    BY <2>1, RowProps, RowElems
<1> QED
  BY <1>1, <1>2 DEF UsbRows

(* The gadget is bound after its function was linked.                      *)
LEMMA LinkIsFirst ==
  ASSUME NEW t \in Seq(Rows), NEW m \in Modes \ {"none"},
         \A r \in Elems(t) : BindUdc \in Elems(r.cmds) => r = Compose(m)
  PROVE  ~Unled(t, Link(m), BindUdc)
<1> SUFFICES ASSUME Unled(t, Link(m), BindUdc) PROVE FALSE
  OBVIOUS
<1>1. PICK k \in 1..Len(t) : \E i \in 1..Len(t[k].cmds) :
        /\ t[k].cmds[i] = BindUdc
        /\ \A j \in 1..(i - 1) : t[k].cmds[j] # Link(m)
  BY DEF Unled
<1>2. PICK i \in 1..Len(t[k].cmds) :
        /\ t[k].cmds[i] = BindUdc
        /\ \A j \in 1..(i - 1) : t[k].cmds[j] # Link(m)
  BY <1>1
<1>3. t[k] = Compose(m)
  <2>1. t[k] \in Elems(t) /\ BindUdc \in Elems(t[k].cmds)
    BY <1>2 DEF Elems
  <2> QED
    BY <2>1
<1> DEFINE c == << IdProduct(m), Link(m), BindUdc, CopyProp("state", "config") >>
<1>4. Compose(m).cmds = c
  BY ComposeSideloadIs, ComposeAdbIs, ComposeFastbootIs DEF Modes
<1>5. Len(c) = 4 /\ c[1] = IdProduct(m) /\ c[2] = Link(m) /\ c[4] = CopyProp("state", "config")
  OBVIOUS
<1>6. t[k].cmds = c
  BY <1>3, <1>4, Zenon
<1> HIDE DEF c
<1>7. i \in 1..4 /\ c[i] = BindUdc /\ \A j \in 1..(i - 1) : c[j] # Link(m)
  BY <1>2, <1>5, <1>6
<1>8. i # 1 /\ i # 2
  BY <1>5, <1>7, Fields
<1> QED
  BY <1>5, <1>7, <1>8

(* What is not left is not left before something else.                     *)
LEMMA NotLed ==
  ASSUME NEW t, NEW a, NEW b, b \notin LeftOf(t)
  PROVE  ~Unled(t, a, b)
BY DEF Unled, LeftOf, Elems

(* What a change of sys.usb.config selects.                                *)
LEMMA ConfigSelected ==
  ASSUME NEW e, e.kind = "prop", e.name = "config", NEW t, t = Selected(e),
         prop["configfs"] = "1"
  PROVE  /\ t \in Seq(Rows)
         /\ ~Usb => LeftOf(t) = {}
         /\ e.value \notin Modes => LeftOf(t) = {}
         /\ e.value = "none" => LeftOf(t) \subseteq DecomposeCommands
         /\ e.value = "none" /\ Usb => LeftOf(t) = DecomposeCommands
         /\ \A m \in Modes \ {"none"} : e.value = m =>
              /\ LeftOf(t) \subseteq ComposeCommands(m) \cup StartsOf(m)
              /\ ~Unled(t, Link(m), BindUdc)
              /\ m # "sideload" /\ Usb => Start(DaemonOf(m)) \in LeftOf(t)
<1> DEFINE v == e.value
           L == LeftOf(t)
<1>1. /\ t \in Seq(Rows)
      /\ \A r \in Elems(t) :
           /\ r \in {HelperRow, ContainerRow} \/ (Usb /\ r \in UsbRows)
           /\ << "config", v >> \in r.props
           /\ \A q \in r.props : q[1] # "config" => prop[q[1]] = q[2]
      /\ \A r \in UsbRows :
           Usb /\ << "config", v >> \in r.props
             /\ (\A q \in r.props : q[1] # "config" => prop[q[1]] = q[2]) => r \in Elems(t)
  BY PropSelected
<1>2. \A c : c \in L <=> \E r \in Elems(t) : c \in Elems(r.cmds)
  BY DEF LeftOf
<1> HIDE DEF L, v
<1>3. ASSUME NEW r \in Elems(t)
      PROVE  /\ Usb
             /\ \/ v = "adb" /\ Elems(r.cmds) = {Start("adbd")}
                \/ v = "fastboot" /\ Elems(r.cmds) = {Start("fastbootd")}
                \/ v = "none" /\ Elems(r.cmds) = DecomposeCommands
                \/ /\ v \in Modes \ {"none"} /\ r = Compose(v)
                   /\ Elems(r.cmds) = ComposeCommands(v)
  <2>1. r \in {HelperRow, ContainerRow} \cup UsbRows /\ << "config", v >> \in r.props
    BY <1>1
  <2>2. r \notin {HelperRow, ContainerRow}
    BY <2>1, RowProps
  <2> QED
    BY <1>1, <2>1, <2>2, RowKinds
<1>4. ASSUME Usb, v = "none" PROVE DecomposeCommands \subseteq L
  <2>1. Decompose \in UsbRows
    BY DEF UsbRows
  <2>2. Decompose \in Elems(t)
    BY <1>1, <1>4, <2>1, RowProps
  <2> QED
    BY <2>2, <1>2, RowElems
<1>5. ASSUME Usb, v = "adb" PROVE Start("adbd") \in L
  <2>1. StartAdbRow \in UsbRows
    BY DEF UsbRows
  <2>2. StartAdbRow \in Elems(t)
    BY <1>1, <1>5, <2>1, RowProps
  <2> QED
    BY <2>2, <1>2, RowElems
<1>6. ASSUME Usb, v = "fastboot" PROVE Start("fastbootd") \in L
  <2>1. StartFastbootRow \in UsbRows
    BY DEF UsbRows
  <2>2. StartFastbootRow \in Elems(t)
    BY <1>1, <1>6, <2>1, RowProps
  <2> QED
    BY <2>2, <1>2, RowElems
<1>7. ~Usb => L = {}
  BY <1>2, <1>3
<1>8. v \notin Modes => L = {}
  BY <1>2, <1>3 DEF Modes
<1>9. v = "none" => L \subseteq DecomposeCommands
  BY <1>2, <1>3
<1>10. ASSUME NEW m \in Modes \ {"none"}, v = m
       PROVE  /\ L \subseteq ComposeCommands(m) \cup StartsOf(m)
              /\ ~Unled(t, Link(m), BindUdc)
              /\ m # "sideload" /\ Usb => Start(DaemonOf(m)) \in L
  <2>1. L \subseteq ComposeCommands(m) \cup StartsOf(m)
    BY <1>2, <1>3, <1>10 DEF StartsOf
  <2>2. ASSUME NEW r \in Elems(t), BindUdc \in Elems(r.cmds)
        PROVE  r = Compose(m)
    <3>1. BindUdc # Start("adbd") /\ BindUdc # Start("fastbootd")
      BY Fields
    <3>2. v # "none"
      BY <1>10
    <3>3. r = Compose(v)
      BY <1>3, <2>2, <3>1, <3>2
    <3> QED
      BY <3>3, <1>10
  <2>3. ~Unled(t, Link(m), BindUdc)
    BY <1>1, <2>2, LinkIsFirst
  <2>4. m # "sideload" /\ Usb => Start(DaemonOf(m)) \in L
    BY <1>5, <1>6, <1>10 DEF DaemonOf, Modes
  <2> QED
    BY <2>1, <2>3, <2>4
<1> QED
  BY <1>1, <1>4, <1>7, <1>8, <1>9, <1>10 DEF L, v

(* What a change of sys.usb.ffs.ready selects.                             *)
LEMMA ReadySelected ==
  ASSUME NEW e, e.kind = "prop", e.name = "ffs.ready", NEW t, t = Selected(e),
         prop["configfs"] = "1"
  PROVE  /\ t \in Seq(Rows)
         /\ ~Usb => LeftOf(t) = {}
         /\ prop["config"] \notin Modes \ {"none"} => LeftOf(t) = {}
         /\ \A m \in Modes \ {"none"} : prop["config"] = m =>
              /\ LeftOf(t) \subseteq ComposeCommands(m)
              /\ ~Unled(t, Link(m), BindUdc)
              /\ e.value = "1" /\ Usb => LeftOf(t) = ComposeCommands(m)
<1> DEFINE v == e.value
           L == LeftOf(t)
<1>1. /\ t \in Seq(Rows)
      /\ \A r \in Elems(t) :
           /\ r \in {HelperRow, ContainerRow} \/ (Usb /\ r \in UsbRows)
           /\ << "ffs.ready", v >> \in r.props
           /\ \A q \in r.props : q[1] # "ffs.ready" => prop[q[1]] = q[2]
      /\ \A r \in UsbRows :
           Usb /\ << "ffs.ready", v >> \in r.props
             /\ (\A q \in r.props : q[1] # "ffs.ready" => prop[q[1]] = q[2]) => r \in Elems(t)
  BY PropSelected
<1>2. \A c : c \in L <=> \E r \in Elems(t) : c \in Elems(r.cmds)
  BY DEF LeftOf
<1> HIDE DEF L, v
<1>3. ASSUME NEW r \in Elems(t)
      PROVE  Usb /\ \E m \in Modes \ {"none"} : /\ r = Compose(m) /\ prop["config"] = m
                                                /\ Elems(r.cmds) = ComposeCommands(m)
  <2>1. r \in {HelperRow, ContainerRow} \cup UsbRows /\ << "ffs.ready", v >> \in r.props
    BY <1>1
  <2>2. r \notin {HelperRow, ContainerRow}
    BY <2>1, RowProps
  <2>3. PICK m \in Modes \ {"none"} :
          /\ r = Compose(m)
          /\ r.props = {<< "config", m >>, << "ffs.ready", "1" >>, << "configfs", "1" >>}
          /\ Elems(r.cmds) = ComposeCommands(m)
    BY <2>1, RowKinds
  <2>4. prop["config"] = m
    <3> DEFINE q == << "config", m >>
    <3>1. q \in r.props /\ q[1] = "config" /\ q[2] = m
      BY <2>3
    <3> HIDE DEF q
    <3> QED
      BY <3>1, <1>1
  <2> QED
    BY <1>1, <2>1, <2>2, <2>3, <2>4
<1>4. ASSUME NEW m \in Modes \ {"none"}, prop["config"] = m, Usb, v = "1"
      PROVE  ComposeCommands(m) \subseteq L
  <2>1. Compose(m) \in UsbRows
    BY DEF UsbRows, Modes
  <2>2. Compose(m).props = {<< "config", m >>, << "ffs.ready", "1" >>, << "configfs", "1" >>}
        /\ Elems(Compose(m).cmds) = ComposeCommands(m)
    BY RowProps, RowElems
  <2> DEFINE r == Compose(m)
  <2> HIDE DEF r
  <2>3. \A q \in {<< "config", m >>, << "ffs.ready", "1" >>, << "configfs", "1" >>} :
          q[1] # "ffs.ready" => prop[q[1]] = q[2]
    BY <1>4
  <2>4. r \in UsbRows /\ r.props = {<< "config", m >>, << "ffs.ready", "1" >>, << "configfs", "1" >>}
        /\ Elems(r.cmds) = ComposeCommands(m)
    BY <2>1, <2>2, Zenon DEF r
  <2>5. r \in Elems(t)
    BY <1>1, <1>4, <2>3, <2>4
  <2> QED
    BY <2>4, <2>5, <1>2
<1>5. ~Usb => L = {}
  BY <1>2, <1>3
<1>6. prop["config"] \notin Modes \ {"none"} => L = {}
  BY <1>2, <1>3
<1>7. ASSUME NEW m \in Modes \ {"none"}, prop["config"] = m
      PROVE  L \subseteq ComposeCommands(m) /\ ~Unled(t, Link(m), BindUdc)
  <2>1. L \subseteq ComposeCommands(m)
    BY <1>2, <1>3, <1>7
  <2>2. \A r \in Elems(t) : r = Compose(m)
    BY <1>3, <1>7
  <2>3. ~Unled(t, Link(m), BindUdc)
    BY <1>1, <2>2, LinkIsFirst
  <2> QED
    BY <2>1, <2>3
<1> QED
  BY <1>1, <1>4, <1>5, <1>6, <1>7 DEF L, v

(* What a change of a service's state selects.                             *)
LEMMA ServiceSelected ==
  ASSUME NEW e, e.kind = "prop", e.name \in Services, NEW t, t = Selected(e)
  PROVE  t \in Seq(Rows) /\ LeftOf(t) \subseteq Others
<1> DEFINE n == e.name
           v == e.value
<1>1. /\ t \in Seq(Rows)
      /\ \A r \in Elems(t) : r \in {HelperRow, ContainerRow} \cup UsbRows /\ << n, v >> \in r.props
  BY PropSelected
<1>2. n \notin {"adb.root", "config", "ffs.ready", "configfs"}
  BY DEF Services, Oneshots, InitOneshots, WlanOneshots, TouchOneshots,
         ContainerOneshots, ContainerDaemons, UsbDaemons, Daemons
<1> HIDE DEF n, v
<1>3. ASSUME NEW r \in Elems(t) PROVE Elems(r.cmds) \subseteq Others
  <2>1. r \in {HelperRow, ContainerRow} \cup UsbRows /\ << n, v >> \in r.props
    BY <1>1
  <2> QED
    BY <1>2, <2>1, RowKinds DEF Others
<1> QED
  BY <1>1, <1>3 DEF LeftOf

(* What all properties together select.                                    *)
LEMMA AllSelected ==
  ASSUME NEW e, e.kind = "all", NEW t, t = Selected(e), prop["config"] \in Modes
  PROVE  /\ t \in Seq(Rows) /\ LeftOf(t) \subseteq SteadyCommands
         /\ ~Usb => LeftOf(t) \subseteq Others
         /\ prop["config"] = "adb" => /\ LeftOf(t) \subseteq CommandsFor("adb")
                                      /\ ~Unled(t, Link("adb"), BindUdc)
                                      /\ Usb => Start("adbd") \in LeftOf(t)
<1> DEFINE L == LeftOf(t)
<1>1. /\ t \in Seq(Rows)
      /\ \A r \in Elems(t) :
           /\ r \in {HelperRow, ContainerRow} \/ (Usb /\ r \in UsbRows)
           /\ \A q \in r.props : prop[q[1]] = q[2]
      /\ \A r \in UsbRows : Usb /\ (\A q \in r.props : prop[q[1]] = q[2]) => r \in Elems(t)
  BY EverySelected
<1>2. \A c : c \in L <=> \E r \in Elems(t) : c \in Elems(r.cmds)
  BY DEF LeftOf
<1> HIDE DEF L
<1>3. ASSUME NEW r \in Elems(t)
      PROVE  \/ Elems(r.cmds) \subseteq Others
             \/ Elems(r.cmds) = {Restart("adbd")}
             \/ prop["config"] = "adb" /\ Elems(r.cmds) = {Start("adbd")}
             \/ prop["config"] = "fastboot" /\ Elems(r.cmds) = {Start("fastbootd")}
             \/ prop["config"] = "none" /\ Elems(r.cmds) = DecomposeCommands
             \/ \E m \in Modes \ {"none"} : /\ prop["config"] = m /\ r = Compose(m)
                                            /\ Elems(r.cmds) = ComposeCommands(m)
  <2>1. r \in {HelperRow, ContainerRow} \cup UsbRows /\ \A q \in r.props : prop[q[1]] = q[2]
    BY <1>1
  <2>2. ASSUME NEW m, << "config", m >> \in r.props PROVE prop["config"] = m
    <3> DEFINE q == << "config", m >>
    <3>1. q \in r.props /\ q[1] = "config" /\ q[2] = m
      BY <2>2
    <3> HIDE DEF q
    <3> QED
      BY <3>1, <2>1
  <2> QED
    BY <2>1, <2>2, RowKinds DEF Others
<1>4. L \subseteq SteadyCommands
  <2>1. /\ Others \subseteq SteadyCommands /\ DecomposeCommands \subseteq SteadyCommands
        /\ {Restart("adbd"), Start("adbd"), Start("fastbootd")} \subseteq SteadyCommands
        /\ \A m \in Modes \ {"none"} : ComposeCommands(m) \subseteq SteadyCommands
    <3>1. \A m \in Modes : CommandsFor(m) \subseteq SteadyCommands
      BY DEF SteadyCommands
    <3>2. StartsOf("adb") = {Restart("adbd"), Start("adbd")} /\ StartsOf("fastboot") = {Start("fastbootd")}
      BY DEF StartsOf
    <3>3. \A m \in Modes \ {"none"} :
            /\ Others \subseteq CommandsFor(m) /\ ComposeCommands(m) \subseteq CommandsFor(m)
            /\ StartsOf(m) \subseteq CommandsFor(m)
      BY DEF CommandsFor
    <3>4. "adb" \in Modes \ {"none"} /\ "fastboot" \in Modes \ {"none"}
      BY DEF Modes
    <3>5. DecomposeCommands \subseteq SteadyCommands
      BY DEF SteadyCommands
    <3> QED
      BY <3>1, <3>2, <3>3, <3>4, <3>5
  <2> QED
    BY <2>1, <1>2, <1>3
<1>5. ASSUME ~Usb, NEW r \in Elems(t) PROVE Elems(r.cmds) \subseteq Others
  <2>1. r \in {HelperRow, ContainerRow}
    BY <1>1, <1>5
  <2> QED
    BY <2>1, RowElems DEF Others
<1>6. ASSUME prop["config"] = "adb"
      PROVE  L \subseteq CommandsFor("adb") /\ ~Unled(t, Link("adb"), BindUdc)
  <2>1. CommandsFor("adb") = Others \cup ComposeCommands("adb") \cup {Restart("adbd"), Start("adbd")}
    BY DEF CommandsFor, StartsOf
  <2>2. L \subseteq CommandsFor("adb")
    BY <1>2, <1>3, <1>6, <2>1
  <2>3. ASSUME NEW r \in Elems(t), BindUdc \in Elems(r.cmds) PROVE r = Compose("adb")
    <3>1. BindUdc \notin Others \cup {Restart("adbd"), Start("adbd")}
      BY Fields DEF Others
    <3>2. \E m \in Modes \ {"none"} : prop["config"] = m /\ r = Compose(m)
      BY <1>3, <1>6, <2>3, <3>1
    <3> QED
      BY <1>6, <3>2, Zenon
  <2>4. "adb" \in Modes \ {"none"}
    BY DEF Modes
  <2>5. ~Unled(t, Link("adb"), BindUdc)
    BY <1>1, <2>3, <2>4, LinkIsFirst
  <2> QED
    BY <2>2, <2>5
<1>7. ASSUME Usb, prop["config"] = "adb" PROVE Start("adbd") \in L
  <2>1. StartAdbRow \in UsbRows
    BY DEF UsbRows
  <2>2. StartAdbRow \in Elems(t)
    BY <1>1, <1>7, <2>1, RowProps
  <2> QED
    BY <2>2, <1>2, RowElems
<1>8. ~Usb => L \subseteq Others
  BY <1>2, <1>5
<1> QED
  BY <1>1, <1>4, <1>6, <1>7, <1>8 DEF L

(* The property changes that some action names.                            *)
LEMMA WatchedNames ==
  /\ \A n, v : << n, v >> \in Watched =>
       n \in {"configfs", "config", "ffs.ready", "adb.root"} \cup Services
  /\ Usb => << "ffs.ready", "1" >> \in Watched /\ \A m \in Modes : << "config", m >> \in Watched
  /\ ~Usb => \A n, v : << n, v >> \in Watched => n \in Services
<1>1. \A q : q \in Watched <=> \E r \in Elems(Rc) : q \in r.props
  <2>1. Watched = UNION {r.props : r \in Elems(Rc)}
    BY DEF Watched, Elems
  <2> QED
    BY <2>1
<1>2. ASSUME NEW r \in Elems(Rc), NEW n, NEW v, << n, v >> \in r.props
      PROVE  /\ n \in {"configfs", "config", "ffs.ready", "adb.root"} \cup Services
             /\ ~Usb => n \in Services
  <2>1. CASE r \in {HelperRow, ContainerRow}
    BY <1>2, <2>1, RowProps DEF Services, Oneshots, InitOneshots, WlanOneshots, TouchOneshots,
         ContainerOneshots, ContainerDaemons, UsbDaemons, Daemons
  <2>2. CASE r \in UsbRows /\ Usb
    BY <1>2, <2>2, RowKinds DEF Services, Oneshots, InitOneshots, WlanOneshots, TouchOneshots,
         ContainerOneshots, ContainerDaemons, UsbDaemons, Daemons
  <2>3. CASE r \in StageRows
    <3>1. \A x \in StageRows : x.props = {}
      BY EarlyInitIs, InitIs, LateInitIs, PostFsDataIs, ResetReadyIs, LoadWlanIs, TouchIs,
         DroidspacesdIs DEF StageRows
    <3> QED
      BY <1>2, <2>3, <3>1
  <2>4. CASE r \in {MakeRow, MountRow} /\ Usb
    BY <1>2, <2>4, RowProps
  <2> QED
    BY <2>1, <2>2, <2>3, <2>4, RowsThere
<1>3. ASSUME Usb
      PROVE  << "ffs.ready", "1" >> \in Watched /\ \A m \in Modes : << "config", m >> \in Watched
  <2>1. \A m \in Modes : \E r \in UsbRows : << "config", m >> \in r.props
    <3>1. Decompose \in UsbRows /\ << "config", "none" >> \in Decompose.props
      BY RowProps DEF UsbRows
    <3>2. \A m \in Modes \ {"none"} : Compose(m) \in UsbRows
      BY DEF UsbRows, Modes
    <3>3. \A m \in Modes \ {"none"} : << "config", m >> \in Compose(m).props
      BY RowProps
    <3> QED
      BY <3>1, <3>2, <3>3
  <2>2. Compose("adb") \in UsbRows /\ << "ffs.ready", "1" >> \in Compose("adb").props
    <3>1. "adb" \in Modes \ {"none"}
      BY DEF Modes
    <3> QED
      BY <3>1, RowProps DEF UsbRows
  <2>3. UsbRows \subseteq Elems(Rc)
    BY <1>3, RowsThere
  <2> QED
    BY <1>1, <2>1, <2>2, <2>3
<1>4. \A n, v : << n, v >> \in Watched =>
        /\ n \in {"configfs", "config", "ffs.ready", "adb.root"} \cup Services
        /\ ~Usb => n \in Services
  BY <1>1, <1>2
<1> QED
  BY <1>3, <1>4

-----------------------------------------------------------------------------
(* The property store, the devices and the queue after a change.           *)
LEMMA StoreAfter ==
  ASSUME NEW p, PropType(p), NEW n \in Props \cup Services, NEW v \in Values,
         n \in Services => v \in States,
         n \in {"config", "state"} => v \in Modes \cup {""},
         NEW q, q = [p EXCEPT ![n] = v]
  PROVE  PropType(q) /\ q[n] = v /\ \A x \in Props \cup Services : x # n => q[x] = p[x]
<1>1. /\ p \in [Props \cup Services -> Values] /\ \A s \in Services : p[s] \in States
      /\ p["config"] \in Modes \cup {""} /\ p["state"] \in Modes \cup {""}
  BY DEF PropType
<1>2. /\ q \in [Props \cup Services -> Values] /\ q[n] = v
      /\ \A x \in Props \cup Services : x # n => q[x] = p[x]
  BY <1>1
<1>3. "config" \in Props /\ "state" \in Props
  BY DEF Props
<1>4. \A s \in Services : q[s] \in States
  BY <1>1, <1>2
<1>5. q["config"] \in Modes \cup {""} /\ q["state"] \in Modes \cup {""}
  BY <1>1, <1>2, <1>3
<1> QED
  BY <1>2, <1>4, <1>5 DEF PropType

(* A queue with one event more.                                            *)
With(q, e) == q \o << e >>

(* A property that is set is appended to the queue if it is watched.       *)
LEMMA QueueAfter ==
  ASSUME NEW q \in Seq(Events), NEW n \in Names, NEW v \in Values,
         NEW r, r = q \o Changed(n, v)
  PROVE  /\ r \in Seq(Events)
         /\ ~enabled \/ << n, v >> \notin Watched => r = q
         /\ enabled /\ << n, v >> \in Watched => r = With(q, Event("prop", n, v))
         /\ Event("prop", n, v) \in Events
<1>1. Event("prop", n, v) \in Events
  BY DEF Event, Events
<1> DEFINE e == Event("prop", n, v)
<1> HIDE DEF e
<1>2. CASE enabled /\ << n, v >> \in Watched
  <2>1. r = q \o << e >>
    BY <1>2, Zenon DEF Changed, e
  <2>2. << e >> \in Seq(Events)
    BY <1>1 DEF e
  <2> QED
    BY <1>1, <1>2, <2>1, <2>2 DEF e, With
<1>3. CASE ~(enabled /\ << n, v >> \in Watched)
  <2>1. r = q \o << >>
    BY <1>3, Zenon DEF Changed
  <2>2. q \o << >> = q
    BY ConcatEmptySeq
  <2> QED
    BY <1>1, <1>3, <2>1, <2>2 DEF e
<1> QED
  BY <1>2, <1>3

(* r is q with the event e at the end.                                     *)
HasAppended(r, q, e) ==
  /\ r \in Seq(Events) /\ Len(r) = Len(q) + 1 /\ Len(q) \in Nat
  /\ r[Len(q) + 1] = e /\ \A i \in 1..Len(q) : r[i] = q[i]
  /\ Elems(r) = Elems(q) \cup {e}

LEMMA Appended ==
  ASSUME NEW q \in Seq(Events), NEW e \in Events, NEW r, r = With(q, e)
  PROVE  HasAppended(r, q, e)
<1>1. << e >> \in Seq(Events) /\ Elems(<< e >>) = {e} /\ r = q \o << e >>
  BY Elems1 DEF With
<1>2. Elems(r) = Elems(q) \cup {e}
  <2> DEFINE w == << e >>
  <2>1. w \in Seq(Events) /\ r = q \o w
    BY <1>1
  <2> HIDE DEF w
  <2>2. Elems(q \o w) = Elems(q) \cup Elems(w)
    BY <2>1, ElemsConcat
  <2> QED
    BY <1>1, <2>1, <2>2, Zenon DEF w
<1>3. /\ r \in Seq(Events) /\ Len(r) = Len(q) + 1 /\ Len(q) \in Nat
      /\ r[Len(q) + 1] = e /\ \A i \in 1..Len(q) : r[i] = q[i]
  BY <1>1
<1> QED
  BY <1>2, <1>3 DEF HasAppended

(* What the commands of the scripts may be.                                *)
LEMMA CommandIs ==
  ASSUME NEW c \in Commands
  PROVE  /\ c.do \in Verbs /\ c.arg \in Names /\ c.val \in Names \cup Values
         /\ c.do = "setprop" => \/ c.arg = "configfs" /\ c.val = "1"
                                \/ c.arg = "config" /\ c.val = "adb"
                                \/ c.arg = "ffs.ready" /\ c.val = "0"
                                \/ c.arg = "connsys" /\ c.val = "no"
         /\ c.do = "copyprop" => c.arg = "state" /\ c.val = "config"
         /\ c.do \in {"start", "stop", "restart"} => c.arg \in Services
         /\ c.do = "trigger" => c.arg \in BootStages
         /\ c.do \in {"mkfunction", "mount_ffs", "symlink_f1"} => c.arg \in Functions
         /\ c.do = "id_product" => c.arg \in Modes
         /\ c.do = "write_udc" => c.arg \in {"controller", "none"}
BY DEF Commands, Good

(* The devices after a command, and after a daemon's endpoints are closed. *)
LEMMA DeviceIs ==
  ASSUME NEW d, DevType(d)
  PROVE  /\ d.configfs \in BOOLEAN /\ d.functions \subseteq Functions
         /\ d.mounted \subseteq d.functions /\ d.open \subseteq d.mounted
         /\ d.id \in Modes \cup {""} /\ d.f1 \in Functions \cup {""} /\ d.udc \in BOOLEAN
         /\ d.module \in BOOLEAN /\ d.launcher \in BOOLEAN /\ d.wlan0 \in BOOLEAN
         /\ d.touch \in BOOLEAN
BY DEF DevType, Devices

(* Everything of the device that the gadget is made of.                    *)
SameGadget(d, e) ==
  /\ d.configfs = e.configfs /\ d.functions = e.functions /\ d.mounted = e.mounted
  /\ d.open = e.open /\ d.id = e.id /\ d.f1 = e.f1 /\ d.udc = e.udc

LEMMA DeviceCommand ==
  ASSUME DevType(dev), NEW c \in Commands, c.do \in DeviceCommands, NEW d, d = DeviceAfter(c)
  PROVE  /\ DevType(d) /\ d.launcher = dev.launcher /\ d.open = dev.open
         /\ d.configfs = (dev.configfs \/ c.do = "mount_configfs")
         /\ d.functions = IF c.do = "mkfunction" /\ dev.configfs THEN dev.functions \cup {c.arg}
                          ELSE dev.functions
         /\ d.mounted = IF c.do = "mount_ffs" /\ c.arg \in dev.functions
                        THEN dev.mounted \cup {c.arg} ELSE dev.mounted
         /\ d.id = IF c.do = "id_product" THEN c.arg ELSE dev.id
         /\ d.f1 = IF c.do = "symlink_f1" /\ dev.f1 = "" THEN c.arg
                   ELSE IF c.do = "rm_f1" THEN "" ELSE dev.f1
         /\ d.udc = IF c.do = "write_udc" THEN c.arg = "controller" /\ (dev.udc \/ dev.f1 \in dev.open)
                    ELSE IF c.do = "rm_f1" THEN FALSE ELSE dev.udc
<1> USE CommandIs, DeviceIs DEF DevType, Devices, DeviceAfter
<1>1. CASE c.do = "mount_configfs"
  BY <1>1
<1>2. CASE c.do = "mkfunction"
  <2> DEFINE b == IF dev.configfs THEN dev.functions \cup {c.arg} ELSE dev.functions
  <2>1. b \subseteq Functions /\ dev.functions \subseteq b
    BY <1>2
  <2>2. d = [dev EXCEPT !.functions = b]
    BY <1>2
  <2> HIDE DEF b
  <2>3. /\ d \in Devices /\ d.functions = b /\ d.configfs = dev.configfs /\ d.udc = dev.udc
        /\ d.mounted = dev.mounted /\ d.open = dev.open
        /\ d.id = dev.id /\ d.f1 = dev.f1 /\ d.launcher = dev.launcher
    BY <2>1, <2>2
  <2> QED
    BY <1>2, <2>1, <2>3 DEF b
<1>3. CASE c.do = "mount_ffs"
  BY <1>3
<1>4. CASE c.do = "id_product"
  BY <1>4
<1>5. CASE c.do = "symlink_f1"
  BY <1>5
<1>6. CASE c.do = "rm_f1"
  BY <1>6
<1>7. CASE c.do = "write_udc"
  <2> DEFINE b == c.arg = "controller" /\ (dev.udc \/ dev.f1 \in dev.open)
  <2>1. b \in BOOLEAN
    OBVIOUS
  <2>2. d = [dev EXCEPT !.udc = b]
    BY <1>7
  <2> HIDE DEF b
  <2>3. /\ d \in Devices /\ d.udc = b /\ d.configfs = dev.configfs
        /\ d.functions = dev.functions /\ d.mounted = dev.mounted /\ d.open = dev.open
        /\ d.id = dev.id /\ d.f1 = dev.f1 /\ d.launcher = dev.launcher
    BY <2>1, <2>2
  <2> QED
    BY <1>7, <2>3 DEF b
<1>8. CASE c.do = "mount_nvdata"
  BY <1>8
<1> QED
  BY <1>1, <1>2, <1>3, <1>4, <1>5, <1>6, <1>7, <1>8 DEF DeviceCommands

LEMMA Closed ==
  ASSUME DevType(dev), NEW s \in Services, NEW d, d = WithoutEndpoints(s)
  PROVE  /\ DevType(d) /\ d.launcher = dev.launcher
         /\ d.configfs = dev.configfs /\ d.functions = dev.functions /\ d.mounted = dev.mounted
         /\ d.id = dev.id /\ d.f1 = dev.f1
         /\ s \in UsbDaemons => /\ d.open = dev.open \ {Function(s)}
                                /\ d.udc = (dev.udc /\ dev.f1 # Function(s))
         /\ s \notin UsbDaemons => d = dev
BY DeviceIs DEF DevType, Devices, WithoutEndpoints, UsbDaemons

-----------------------------------------------------------------------------
(* What the steps change, by the service they are about.                   *)
Phases == {"none", "begun", "polling", "powered", "open", "up", "dead"}

(* The queue stays, or the change of a service or of ffs.ready is appended.*)
Announced == Services \cup {"ffs.ready"}

(* The queue afterwards: the same, or with one event of a property more.   *)
Longer(q, r) ==
  \/ r = q
  \/ enabled /\ \E e \in Events : e.kind = "prop" /\ e.name \in Announced /\ r = With(q, e)
Grows == Longer(queue, queue')

(* What a step about the service s leaves alone.                           *)
Frame(s) ==
  /\ PropType(prop') /\ proc' \in [Services -> Phases] /\ held' \subseteq Services
  /\ queue' \in Seq(Events) /\ Grows
  /\ \A x \in (Props \cup Services) \ {s} : prop'[x] = prop[x]
  /\ \A x \in Services \ {s} : proc'[x] = proc[x] /\ (x \in held' <=> x \in held)

LEMMA TypesGive ==
  ASSUME Types
  PROVE  /\ queue \in Seq(Events) /\ todo \in Seq(Rows) /\ enabled \in BOOLEAN
         /\ PropType(prop) /\ held \subseteq Services /\ proc \in [Services -> Phases]
         /\ DevType(dev) /\ prop \in [Props \cup Services -> Values]
         /\ \A s \in Services : prop[s] \in States
BY DEF Types, Phases, PropType

LEMMA NamesAre ==
  /\ Services \subseteq Names /\ Props \subseteq Names /\ States \subseteq Values
  /\ Modes \subseteq Values /\ "1" \in Values /\ "0" \in Values /\ "yes" \in Values
  /\ Props \cap Services = {}
BY DEF Services, Oneshots, InitOneshots, WlanOneshots, TouchOneshots,
         ContainerOneshots, ContainerDaemons, UsbDaemons, Daemons, Names, Props, States, Values, Modes

(* Of the properties that services and daemons announce at most one event  *)
(* is queued.                                                              *)
LEMMA SmallChange ==
  ASSUME NEW q \in Seq(Events), NEW n \in Announced, NEW v \in Values, NEW r,
         r = q \o Changed(n, v)
  PROVE  r \in Seq(Events) /\ Longer(q, r)
<1>1. n \in Names
  BY NamesAre DEF Props, Announced
<1>2. r \in Seq(Events)
  BY <1>1, QueueAfter
<1>3. ~enabled \/ << n, v >> \notin Watched => r = q
  BY <1>1, QueueAfter
<1>4. enabled /\ << n, v >> \in Watched => r = With(q, Event("prop", n, v))
  BY <1>1, QueueAfter
<1>5. Event("prop", n, v) \in Events
  BY <1>1, QueueAfter
<1>6. Event("prop", n, v).kind = "prop" /\ Event("prop", n, v).name = n
  BY DEF Event
<1> DEFINE e == Event("prop", n, v)
<1> HIDE DEF e
<1>7. enabled /\ << n, v >> \in Watched => r = With(q, e)
  BY <1>4, Zenon DEF e
<1>8. e \in Events /\ e.kind = "prop" /\ e.name \in Announced
  BY <1>5, <1>6 DEF e
<1> QED
  BY <1>2, <1>3, <1>7, <1>8 DEF Longer

(* A service gets a state.                                                 *)
LEMMA ServiceChanged ==
  ASSUME Types, NEW s \in Services, NEW v \in States,
         prop' = [prop EXCEPT ![s] = v], queue' = queue \o Changed(s, v)
  PROVE  /\ PropType(prop') /\ prop'[s] = v /\ queue' \in Seq(Events) /\ Grows
         /\ \A x \in (Props \cup Services) \ {s} : prop'[x] = prop[x]
<1>1. s \in Props \cup Services /\ v \in Values /\ s \in Names /\ s \notin {"config", "state"}
  BY NamesAre DEF Props
<1>2. PropType(prop') /\ prop'[s] = v /\ \A x \in (Props \cup Services) \ {s} : prop'[x] = prop[x]
  BY <1>1, TypesGive, StoreAfter
<1>3. queue \in Seq(Events) /\ s \in Announced /\ v \in Values
  BY <1>1, TypesGive DEF Announced
<1>4. \A q \in Seq(Events) : \A r : r = q \o Changed(s, v) => r \in Seq(Events) /\ Longer(q, r)
  BY <1>3, SmallChange, Zenon
<1>5. queue' \in Seq(Events) /\ Grows
  BY <1>3, <1>4, Zenon DEF Grows
<1> QED
  BY <1>2, <1>5

(* The queue after a property was set.                                     *)
LEMMA QueueStep ==
  ASSUME Types, NEW n \in Names, NEW v \in Values, queue' = queue \o Changed(n, v)
  PROVE  /\ queue' \in Seq(Events) /\ Event("prop", n, v) \in Events
         /\ (~enabled \/ << n, v >> \notin Watched) => queue' = queue
         /\ (enabled /\ << n, v >> \in Watched) => queue' = With(queue, Event("prop", n, v))
<1>1. queue \in Seq(Events)
  BY TypesGive
<1>2. \A q \in Seq(Events) : \A r : r = q \o Changed(n, v) =>
        r \in Seq(Events) /\ Event("prop", n, v) \in Events
  BY QueueAfter
<1>3. \A q \in Seq(Events) : \A r : r = q \o Changed(n, v) =>
        ((~enabled \/ << n, v >> \notin Watched) => r = q)
  BY QueueAfter
<1>5. queue' \in Seq(Events) /\ Event("prop", n, v) \in Events
  BY <1>1, <1>2, Zenon
<1>6. (~enabled \/ << n, v >> \notin Watched) => queue' = queue
  BY <1>1, <1>3, Zenon
<1>7. (enabled /\ << n, v >> \in Watched) => queue' = With(queue, Event("prop", n, v))
  BY Zenon DEF Changed, With
<1> QED
  BY <1>5, <1>6, <1>7

(* The process of one service.                                             *)
LEMMA Phase ==
  ASSUME Types, NEW s \in Services, NEW v \in Phases, proc' = [proc EXCEPT ![s] = v]
  PROVE  /\ proc' \in [Services -> Phases] /\ proc'[s] = v
         /\ \A x \in Services \ {s} : proc'[x] = proc[x]
BY TypesGive

(* A service is started, killed, stopped, restarted, reaped.               *)
LEMMA Begun ==
  ASSUME Types, NEW s \in Services, Begin(s)
  PROVE  /\ PropType(prop') /\ proc' \in [Services -> Phases] /\ queue' \in Seq(Events) /\ Grows
         /\ prop'[s] = "running" /\ proc'[s] = "begun"
         /\ \A x \in (Props \cup Services) \ {s} : prop'[x] = prop[x]
         /\ \A x \in Services \ {s} : proc'[x] = proc[x]
<1>1. "running" \in States /\ "begun" \in Phases
  BY DEF States, Phases
<1>2. prop' = [prop EXCEPT ![s] = "running"] /\ proc' = [proc EXCEPT ![s] = "begun"]
      /\ queue' = queue \o Changed(s, "running")
  BY DEF Begin
<1>3. /\ PropType(prop') /\ prop'[s] = "running" /\ queue' \in Seq(Events) /\ Grows
      /\ \A x \in (Props \cup Services) \ {s} : prop'[x] = prop[x]
  BY <1>1, <1>2, ServiceChanged
<1>4. /\ proc' \in [Services -> Phases] /\ proc'[s] = "begun"
      /\ \A x \in Services \ {s} : proc'[x] = proc[x]
  BY <1>1, <1>2, Phase
<1> QED
  BY <1>3, <1>4

LEMMA Killed ==
  ASSUME Types, NEW s \in Services, Kill(s)
  PROVE  /\ PropType(prop') /\ proc' \in [Services -> Phases] /\ queue' = queue
         /\ prop'[s] = "stopping" /\ proc'[s] = "dead" /\ dev' = WithoutEndpoints(s)
         /\ \A x \in (Props \cup Services) \ {s} : prop'[x] = prop[x]
         /\ \A x \in Services \ {s} : proc'[x] = proc[x]
<1>1. "stopping" \in States /\ "dead" \in Phases
  BY DEF States, Phases
<1>2. s \in Props \cup Services /\ "stopping" \in Values /\ s \notin {"config", "state"}
  BY <1>1, NamesAre DEF Props
<1>3. /\ PropType(prop') /\ prop'[s] = "stopping"
      /\ \A x \in (Props \cup Services) \ {s} : prop'[x] = prop[x]
  BY <1>1, <1>2, TypesGive, StoreAfter DEF Kill
<1>4. /\ proc' \in [Services -> Phases] /\ proc'[s] = "dead"
      /\ \A x \in Services \ {s} : proc'[x] = proc[x]
  BY <1>1, Phase DEF Kill
<1> QED
  BY <1>3, <1>4 DEF Kill

LEMMA Started ==
  ASSUME Types, NEW s \in Services, DoStart(s)
  PROVE  /\ Frame(s) /\ dev' = dev /\ s \notin held'
         /\ prop[s] \in {"running", "stopping"} => prop' = prop /\ proc' = proc /\ queue' = queue
         /\ prop[s] \notin {"running", "stopping"} => prop'[s] = "running" /\ proc'[s] = "begun"
<1>1. /\ held' = held \ {s} /\ dev' = dev
      /\ held' \subseteq Services /\ \A x \in Services \ {s} : x \in held' <=> x \in held
  BY TypesGive DEF DoStart
<1>2. CASE prop[s] \in {"running", "stopping"}
  <2>1. prop' = prop /\ proc' = proc /\ queue' = queue
    BY <1>2 DEF DoStart
  <2> QED
    BY <1>1, <1>2, <2>1, TypesGive DEF Frame, Grows, Longer
<1>3. CASE prop[s] \notin {"running", "stopping"}
  <2>1. Begin(s)
    BY <1>3 DEF DoStart
  <2>2. /\ PropType(prop') /\ proc' \in [Services -> Phases] /\ queue' \in Seq(Events) /\ Grows
        /\ prop'[s] = "running" /\ proc'[s] = "begun"
        /\ \A x \in (Props \cup Services) \ {s} : prop'[x] = prop[x]
        /\ \A x \in Services \ {s} : proc'[x] = proc[x]
    BY <2>1, Begun
  <2> QED
    BY <1>1, <1>3, <2>2 DEF Frame
<1> QED
  BY <1>2, <1>3

LEMMA Stopped ==
  ASSUME Types, NEW s \in Services, DoStop(s)
  PROVE  /\ Frame(s) /\ queue' = queue /\ s \in held'
         /\ prop[s] = "running" => /\ prop'[s] = "stopping" /\ proc'[s] = "dead"
                                   /\ dev' = WithoutEndpoints(s)
         /\ prop[s] # "running" => /\ prop'[s] = IF prop[s] = "stopping" THEN "stopping" ELSE "stopped"
                                   /\ proc' = proc /\ dev' = dev
<1>1. /\ held' = held \cup {s}
      /\ held' \subseteq Services /\ \A x \in Services \ {s} : x \in held' <=> x \in held
  BY TypesGive DEF DoStop
<1>2. CASE prop[s] = "running"
  <2>1. Kill(s)
    BY <1>2 DEF DoStop
  <2>2. /\ PropType(prop') /\ proc' \in [Services -> Phases] /\ queue' = queue
        /\ prop'[s] = "stopping" /\ proc'[s] = "dead" /\ dev' = WithoutEndpoints(s)
        /\ \A x \in (Props \cup Services) \ {s} : prop'[x] = prop[x]
        /\ \A x \in Services \ {s} : proc'[x] = proc[x]
    BY <2>1, Killed
  <2> QED
    BY <1>1, <1>2, <2>2, TypesGive DEF Frame, Grows, Longer
<1>3. CASE prop[s] # "running"
  <2> DEFINE v == IF prop[s] = "stopping" THEN "stopping" ELSE "stopped"
  <2>1. /\ prop' = [prop EXCEPT ![s] = v] /\ proc' = proc /\ dev' = dev /\ queue' = queue
    <3>1. prop' = [prop EXCEPT ![s] = IF @ = "stopping" THEN @ ELSE "stopped"]
          /\ proc' = proc /\ dev' = dev /\ queue' = queue
      BY <1>3 DEF DoStop
    <3> QED
      BY <3>1, TypesGive
  <2>2. v \in States
    BY DEF States
  <2> HIDE DEF v
  <2>3. s \in Props \cup Services /\ v \in Values /\ s \notin {"config", "state"}
    BY <2>2, NamesAre DEF Props
  <2>4. /\ PropType(prop') /\ prop'[s] = v
        /\ \A x \in (Props \cup Services) \ {s} : prop'[x] = prop[x]
    BY <2>1, <2>2, <2>3, TypesGive, StoreAfter
  <2> QED
    BY <1>1, <1>3, <2>1, <2>4, TypesGive DEF Frame, Grows, Longer, v
<1> QED
  BY <1>2, <1>3

LEMMA Restarted ==
  ASSUME Types, NEW s \in Services, DoRestart(s)
  PROVE  /\ Frame(s)
         /\ prop[s] = "running" => /\ prop'[s] = "stopping" /\ proc'[s] = "dead" /\ held' = held
                                   /\ dev' = WithoutEndpoints(s)
         /\ prop[s] = "restarting" => /\ prop' = prop /\ proc' = proc /\ held' = held
                                      /\ dev' = dev
         /\ prop[s] = "stopping" => /\ s \notin held' /\ prop' = prop /\ proc' = proc /\ dev' = dev
         /\ prop[s] \notin {"running", "restarting", "stopping"} =>
              s \notin held' /\ prop'[s] = "running" /\ proc'[s] = "begun" /\ dev' = dev
<1>1. CASE prop[s] = "running"
  <2>1. Kill(s) /\ held' = held
    BY <1>1 DEF DoRestart
  <2>2. /\ PropType(prop') /\ proc' \in [Services -> Phases] /\ queue' = queue
        /\ prop'[s] = "stopping" /\ proc'[s] = "dead" /\ dev' = WithoutEndpoints(s)
        /\ \A x \in (Props \cup Services) \ {s} : prop'[x] = prop[x]
        /\ \A x \in Services \ {s} : proc'[x] = proc[x]
    BY <2>1, Killed
  <2> QED
    BY <1>1, <2>1, <2>2, TypesGive DEF Frame, Grows, Longer
<1>2. CASE prop[s] = "restarting"
  <2>1. prop' = prop /\ proc' = proc /\ held' = held /\ dev' = dev /\ queue' = queue
    BY <1>2 DEF DoRestart
  <2> QED
    BY <1>2, <2>1, TypesGive DEF Frame, Grows, Longer
<1>3. CASE prop[s] \notin {"running", "restarting"}
  <2>1. DoStart(s)
    BY <1>3 DEF DoRestart
  <2> QED
    BY <1>3, <2>1, Started
<1> QED
  BY <1>1, <1>2, <1>3

LEMMA Reaped ==
  ASSUME Types, NEW s \in Services, Reap(s)
  PROVE  /\ Frame(s) /\ todo' = todo /\ enabled' = enabled /\ dev' = dev /\ held' = held
         /\ proc[s] = "dead" /\ proc'[s] = "none"
         /\ prop'[s] = IF s \in Oneshots \cup held THEN "stopped" ELSE "restarting"
<1> DEFINE v == IF s \in Oneshots \cup held THEN "stopped" ELSE "restarting"
<1>1. /\ prop' = [prop EXCEPT ![s] = v] /\ queue' = queue \o Changed(s, v)
      /\ proc[s] = "dead" /\ proc' = [proc EXCEPT ![s] = "none"]
      /\ todo' = todo /\ enabled' = enabled /\ dev' = dev /\ held' = held
  BY DEF Reap
<1>2. v \in States /\ "none" \in Phases
  BY DEF States, Phases
<1> HIDE DEF v
<1>3. /\ PropType(prop') /\ prop'[s] = v /\ queue' \in Seq(Events) /\ Grows
      /\ \A x \in (Props \cup Services) \ {s} : prop'[x] = prop[x]
  BY <1>1, <1>2, ServiceChanged
<1>4. /\ proc' \in [Services -> Phases] /\ proc'[s] = "none"
      /\ \A x \in Services \ {s} : proc'[x] = proc[x]
  BY <1>1, <1>2, Phase
<1> QED
  BY <1>1, <1>3, <1>4, TypesGive DEF Frame, v

(* The steps of init and of the processes that are about one service.      *)
LEMMA Restarting ==
  ASSUME Types, NEW s \in Services, RestartTimer(s)
  PROVE  /\ Frame(s) /\ todo' = todo /\ enabled' = enabled /\ dev' = dev /\ held' = held
         /\ prop[s] = "restarting" /\ prop'[s] = "running" /\ proc'[s] = "begun"
BY Begun, TypesGive DEF RestartTimer, Frame

LEMMA Proceeds ==
  ASSUME Types, NEW s \in Services, NEW from, NEW to \in Phases, NEW d, Proceed(s, from, to, d)
  PROVE  /\ Frame(s) /\ todo' = todo /\ enabled' = enabled /\ dev' = d /\ held' = held
         /\ proc[s] = from /\ proc'[s] = to /\ prop' = prop /\ queue' = queue
<1>1. /\ proc[s] = from /\ proc' = [proc EXCEPT ![s] = to] /\ dev' = d
      /\ queue' = queue /\ todo' = todo /\ enabled' = enabled /\ prop' = prop /\ held' = held
  BY DEF Proceed
<1>2. /\ proc' \in [Services -> Phases] /\ proc'[s] = to
      /\ \A x \in Services \ {s} : proc'[x] = proc[x]
  BY <1>1, Phase
<1>3. PropType(prop') /\ held' \subseteq Services /\ queue' \in Seq(Events)
  BY <1>1, TypesGive
<1>4. \A x \in (Props \cup Services) \ {s} : prop'[x] = prop[x]
  BY <1>1
<1>5. \A x \in Services \ {s} : x \in held' <=> x \in held
  BY <1>1
<1>6. Grows
  BY <1>1 DEF Grows, Longer
<1>7. Frame(s)
  BY <1>2, <1>3, <1>4, <1>5, <1>6, Zenon DEF Frame
<1> QED
  BY <1>1, <1>2, <1>7

(* A process sets a property that is not the mode.                         *)
LEMMA Reported ==
  ASSUME Types, NEW s \in UsbDaemons, ReportReady(s)
  PROVE  /\ PropType(prop') /\ prop'["ffs.ready"] = "1"
         /\ \A x \in (Props \cup Services) \ {"ffs.ready"} : prop'[x] = prop[x]
         /\ queue' \in Seq(Events) /\ Grows
         /\ enabled /\ << "ffs.ready", "1" >> \in Watched => queue' = With(queue, Ready)
         /\ proc' \in [Services -> Phases] /\ proc[s] = "open" /\ proc'[s] = "up"
         /\ \A x \in Services \ {s} : proc'[x] = proc[x]
         /\ todo' = todo /\ enabled' = enabled /\ dev' = dev /\ held' = held
<1>1. /\ prop' = [prop EXCEPT !["ffs.ready"] = "1"] /\ queue' = queue \o Changed("ffs.ready", "1")
      /\ proc[s] = "open" /\ proc' = [proc EXCEPT ![s] = "up"]
      /\ todo' = todo /\ enabled' = enabled /\ dev' = dev /\ held' = held
  BY DEF ReportReady, SetByProcess
<1>2. /\ s \in Services /\ "up" \in Phases /\ "ffs.ready" \in Props /\ "ffs.ready" \in Announced
      /\ "1" \in Values /\ "ffs.ready" \notin Services /\ "ffs.ready" \in Names
  BY NamesAre DEF UsbDaemons, Services, Daemons, Oneshots, InitOneshots, WlanOneshots, TouchOneshots,
         ContainerOneshots, ContainerDaemons, Phases, Props, Announced
<1>3. /\ PropType(prop') /\ prop'["ffs.ready"] = "1"
      /\ \A x \in (Props \cup Services) \ {"ffs.ready"} : prop'[x] = prop[x]
  BY <1>1, <1>2, TypesGive, StoreAfter
<1>4. queue' \in Seq(Events) /\ Grows
  <2>1. queue \in Seq(Events)
    BY TypesGive
  <2>2. queue' \in Seq(Events) /\ Longer(queue, queue')
    BY <1>1, <1>2, <2>1, SmallChange
  <2> QED
    BY <2>2 DEF Grows
<1>5. /\ proc' \in [Services -> Phases] /\ proc'[s] = "up"
      /\ \A x \in Services \ {s} : proc'[x] = proc[x]
  BY <1>1, <1>2, Phase
<1>6. enabled /\ << "ffs.ready", "1" >> \in Watched => queue' = With(queue, Ready)
  BY <1>1 DEF Changed, With, Ready
<1> QED
  BY <1>1, <1>3, <1>4, <1>5, <1>6

LEMMA LauncherReported ==
  ASSUME Types, LauncherReady
  PROVE  /\ PropType(prop') /\ prop'["connsys"] = "yes" /\ dev.launcher
         /\ \A x \in (Props \cup Services) \ {"connsys"} : prop'[x] = prop[x]
         /\ queue' = queue /\ proc' = proc
         /\ todo' = todo /\ enabled' = enabled /\ dev' = dev /\ held' = held
<1>1. /\ prop' = [prop EXCEPT !["connsys"] = "yes"] /\ queue' = queue \o Changed("connsys", "yes")
      /\ proc' = proc /\ dev.launcher
      /\ todo' = todo /\ enabled' = enabled /\ dev' = dev /\ held' = held
  BY DEF LauncherReady, SetByProcess
<1>2. /\ "connsys" \in Props /\ "connsys" \in Names
      /\ "yes" \in Values /\ "connsys" \notin Services
  BY NamesAre DEF Services, Daemons, Oneshots, InitOneshots, WlanOneshots, TouchOneshots,
         ContainerOneshots, ContainerDaemons, UsbDaemons, Props
<1>3. /\ PropType(prop') /\ prop'["connsys"] = "yes"
      /\ \A x \in (Props \cup Services) \ {"connsys"} : prop'[x] = prop[x]
  BY <1>1, <1>2, TypesGive, StoreAfter
<1>4. << "connsys", "yes" >> \notin Watched
  BY <1>2, WatchedNames
<1>5. queue' = queue
  <2>1. queue \in Seq(Events)
    BY TypesGive
  <2> QED
    BY <1>1, <1>2, <1>4, <2>1, QueueStep
<1> QED
  BY <1>1, <1>3, <1>5

LEMMA Died ==
  ASSUME Types, NEW s \in Services, Die(s)
  PROVE  /\ Frame(s) /\ todo' = todo /\ enabled' = enabled /\ held' = held
         /\ dev' = WithoutEndpoints(s) /\ prop' = prop /\ queue' = queue
         /\ prop[s] = "running" /\ proc[s] # "dead" /\ proc'[s] = "dead"
<1>1. /\ proc' = [proc EXCEPT ![s] = "dead"] /\ dev' = WithoutEndpoints(s)
      /\ prop[s] = "running" /\ proc[s] # "dead"
      /\ queue' = queue /\ todo' = todo /\ enabled' = enabled /\ prop' = prop /\ held' = held
  BY DEF Die
<1>2. /\ proc' \in [Services -> Phases] /\ proc'[s] = "dead"
      /\ \A x \in Services \ {s} : proc'[x] = proc[x]
  <2>1. "dead" \in Phases
    BY DEF Phases
  <2> QED
    BY <1>1, <2>1, Phase
<1>3. PropType(prop') /\ held' \subseteq Services /\ queue' \in Seq(Events)
  BY <1>1, TypesGive
<1>4. \A x \in (Props \cup Services) \ {s} : prop'[x] = prop[x]
  BY <1>1
<1>5. \A x \in Services \ {s} : x \in held' <=> x \in held
  BY <1>1
<1>6. Grows
  BY <1>1 DEF Grows, Longer
<1>7. Frame(s)
  BY <1>2, <1>3, <1>4, <1>5, <1>6, Zenon DEF Frame
<1> QED
  BY <1>1, <1>2, <1>7

LEMMA Switched ==
  ASSUME Types, NEW mode \in Modes, Switch(mode)
  PROVE  /\ PropType(prop') /\ prop'["config"] = mode /\ prop["config"] # mode
         /\ mode = "none" \/ prop["config"] = "none"
         /\ \A x \in (Props \cup Services) \ {"config"} : prop'[x] = prop[x]
         /\ queue' \in Seq(Events) /\ ConfigEvent(mode) \in Events
         /\ Usb => queue' = With(queue, ConfigEvent(mode))
         /\ ~Usb => queue' = queue
         /\ enabled /\ todo' = todo /\ enabled' = enabled /\ proc' = proc /\ dev' = dev
         /\ held' = held
<1>1. /\ prop' = [prop EXCEPT !["config"] = mode] /\ queue' = queue \o Changed("config", mode)
      /\ prop["config"] # mode /\ "none" \in {mode, prop["config"]} /\ enabled
      /\ todo' = todo /\ enabled' = enabled /\ proc' = proc /\ dev' = dev /\ held' = held
  BY DEF Switch, SetByProcess
<1>2. /\ "config" \in Props /\ "config" \in Names /\ mode \in Values /\ "config" \notin Services
  BY NamesAre DEF Services, Daemons, Oneshots, InitOneshots, WlanOneshots, TouchOneshots,
         ContainerOneshots, ContainerDaemons, UsbDaemons, Props
<1>3. /\ PropType(prop') /\ prop'["config"] = mode
      /\ \A x \in (Props \cup Services) \ {"config"} : prop'[x] = prop[x]
  BY <1>1, <1>2, TypesGive, StoreAfter
<1>4. queue \in Seq(Events)
  BY TypesGive
<1>5. /\ queue' \in Seq(Events) /\ Event("prop", "config", mode) \in Events
      /\ (~enabled \/ << "config", mode >> \notin Watched) => queue' = queue
      /\ (enabled /\ << "config", mode >> \in Watched) =>
           queue' = With(queue, Event("prop", "config", mode))
  BY <1>1, <1>2, QueueStep
<1>6. IF Usb THEN << "config", mode >> \in Watched ELSE << "config", mode >> \notin Watched
  BY <1>2, WatchedNames
<1> QED
  BY <1>1, <1>3, <1>5, <1>6 DEF ConfigEvent

-----------------------------------------------------------------------------
(* One command of an action, by its verb.                                  *)
LEMMA Executed ==
  ASSUME Types, ExecuteCommand, NEW c, c = Current(todo)
  PROVE  /\ todo # << >> /\ c \in Commands /\ todo' = Advanced(todo) /\ todo' \in Seq(Rows)
         /\ LeftOf(todo) = LeftOf(todo') \cup {c} /\ Execute(c)
<1>1. todo # << >> /\ Execute(c) /\ todo' = Advanced(todo)
  BY DEF ExecuteCommand, Current, Advance, Advanced
<1>2. todo \in Seq(Rows)
  BY TypesGive
<1>3. /\ Advanced(todo) \in Seq(Rows) /\ LeftOf(todo) = LeftOf(Advanced(todo)) \cup {Current(todo)}
      /\ Current(todo) \in Commands
  BY <1>1, <1>2, AdvancedLeft
<1>4. LeftOf(todo') = LeftOf(Advanced(todo))
  BY <1>1, Zenon
<1> QED
  BY <1>1, <1>3, <1>4

(* Commands on properties.                                                 *)
LEMMA SetsProp ==
  ASSUME Types, NEW c \in Commands, Execute(c), c.do = "setprop"
  PROVE  /\ PropType(prop') /\ prop'[c.arg] = c.val
         /\ \A x \in (Props \cup Services) \ {c.arg} : prop'[x] = prop[x]
         /\ queue' \in Seq(Events)
         /\ c.arg = "ffs.ready" => Grows
         /\ ~enabled => queue' = queue
         /\ enabled' = enabled /\ held' = held /\ proc' = proc /\ dev' = dev
<1>1. /\ prop' = [prop EXCEPT ![c.arg] = c.val] /\ queue' = queue \o Changed(c.arg, c.val)
      /\ enabled' = enabled /\ held' = held /\ proc' = proc /\ dev' = dev
  BY DEF Execute, DeviceCommands
<1>2. /\ c.arg \in Props /\ c.val \in Values /\ c.arg \notin Services /\ c.arg \in Names
      /\ c.arg \in {"config", "state"} => c.val \in Modes
  <2>1. /\ c.arg \in {"configfs", "config", "ffs.ready", "connsys"}
        /\ c.val \in {"1", "adb", "0", "no"}
        /\ c.arg = "config" => c.val = "adb"
        /\ c.arg # "state"
    BY CommandIs
  <2> QED
    BY <2>1, NamesAre DEF Props, Values, Modes
<1>3. /\ PropType(prop') /\ prop'[c.arg] = c.val
      /\ \A x \in (Props \cup Services) \ {c.arg} : prop'[x] = prop[x]
  BY <1>1, <1>2, TypesGive, StoreAfter
<1>4. queue' \in Seq(Events)
  BY <1>1, <1>2, QueueStep
<1>5. ASSUME ~enabled PROVE queue' = queue
  BY <1>1, <1>2, <1>5, QueueStep
<1>6. ASSUME c.arg = "ffs.ready" PROVE Grows
  <2>1. queue \in Seq(Events) /\ c.arg \in Announced
    BY <1>6, TypesGive DEF Announced
  <2>2. \A q \in Seq(Events) : \A r : r = q \o Changed(c.arg, c.val) => r \in Seq(Events) /\ Longer(q, r)
    BY <1>2, <2>1, SmallChange
  <2> QED
    BY <1>1, <2>1, <2>2, Zenon DEF Grows
<1> QED
  BY <1>1, <1>3, <1>4, <1>5, <1>6

LEMMA CopiesProp ==
  ASSUME Types, NEW c \in Commands, Execute(c), c.do = "copyprop"
  PROVE  /\ PropType(prop') /\ prop'["state"] = prop["config"]
         /\ \A x \in (Props \cup Services) \ {"state"} : prop'[x] = prop[x]
         /\ queue' = queue
         /\ enabled' = enabled /\ held' = held /\ proc' = proc /\ dev' = dev
<1> DEFINE v == prop["config"]
<1>1. c.arg = "state" /\ c.val = "config"
  BY CommandIs
<1>2. /\ prop' = [prop EXCEPT !["state"] = v] /\ queue' = queue \o Changed("state", v)
      /\ enabled' = enabled /\ held' = held /\ proc' = proc /\ dev' = dev
  BY <1>1 DEF Execute, DeviceCommands
<1>3. v \in Modes \cup {""} /\ v \in Values
  BY TypesGive, NamesAre DEF PropType, Values
<1> HIDE DEF v
<1>4. "state" \in Props /\ "state" \in Names /\ "state" \notin Services
  BY NamesAre DEF Props
<1>5. /\ PropType(prop') /\ prop'["state"] = v
      /\ \A x \in (Props \cup Services) \ {"state"} : prop'[x] = prop[x]
  BY <1>2, <1>3, <1>4, TypesGive, StoreAfter
<1>6. << "state", v >> \notin Watched
  BY <1>4, WatchedNames
<1>7. queue' = queue
  BY <1>2, <1>3, <1>4, <1>6, QueueStep
<1> QED
  BY <1>2, <1>5, <1>7 DEF v

(* Commands on services.                                                   *)
LEMMA Starts ==
  ASSUME Types, NEW c \in Commands, Execute(c), c.do = "start"
  PROVE  c.arg \in Services /\ DoStart(c.arg) /\ enabled' = enabled
BY CommandIs DEF Execute, DeviceCommands

LEMMA Stops ==
  ASSUME Types, NEW c \in Commands, Execute(c), c.do = "stop"
  PROVE  c.arg \in Services /\ DoStop(c.arg) /\ enabled' = enabled
BY CommandIs DEF Execute, DeviceCommands

LEMMA Restarts ==
  ASSUME Types, NEW c \in Commands, Execute(c), c.do = "restart"
  PROVE  c.arg \in Services /\ DoRestart(c.arg) /\ enabled' = enabled
BY CommandIs DEF Execute, DeviceCommands

(* Commands on the queue.                                                  *)
LEMMA TriggersStage ==
  ASSUME Types, NEW c \in Commands, Execute(c), c.do = "trigger"
  PROVE  /\ queue' = With(queue, StageEvent(c.arg)) /\ StageEvent(c.arg) \in Events
         /\ enabled' = enabled /\ prop' = prop /\ held' = held /\ proc' = proc /\ dev' = dev
<1>1. c.arg \in Names /\ "" \in Values
  BY CommandIs DEF Values
<1>2. StageEvent(c.arg) \in Events
  BY <1>1 DEF StageEvent, Event, Events
<1> QED
  BY <1>2 DEF Execute, DeviceCommands, With

LEMMA QueuesTriggers ==
  ASSUME Types, NEW c \in Commands, Execute(c), c.do = "queue_property_triggers"
  PROVE  /\ queue' = queue \o << Builtin(EnablePropertyTrigger), AllProperties >>
         /\ Builtin(EnablePropertyTrigger) \in Events /\ AllProperties \in Events
         /\ queue' \in Seq(Events)
         /\ enabled' = enabled /\ prop' = prop /\ held' = held /\ proc' = proc /\ dev' = dev
<1>1. Builtin(EnablePropertyTrigger) \in Events /\ AllProperties \in Events
  BY DEF Builtin, EnablePropertyTrigger, Cmd, AllProperties, Event, Events, Names, Values
<1>2. /\ queue' = queue \o << Builtin(EnablePropertyTrigger), AllProperties >>
      /\ enabled' = enabled /\ prop' = prop /\ held' = held /\ proc' = proc /\ dev' = dev
  BY DEF Execute, DeviceCommands
<1>3. queue' \in Seq(Events)
  BY <1>1, <1>2, TypesGive
<1> QED
  BY <1>1, <1>2, <1>3

LEMMA Enables ==
  ASSUME Types, NEW c \in Commands, Execute(c), c.do = "enable_property_trigger"
  PROVE  /\ enabled' = TRUE
         /\ queue' = queue /\ prop' = prop /\ held' = held /\ proc' = proc /\ dev' = dev
BY DEF Execute, DeviceCommands

(* Commands on the devices.                                                *)
LEMMA Devises ==
  ASSUME Types, NEW c \in Commands, Execute(c), c.do \in DeviceCommands
  PROVE  /\ dev' = DeviceAfter(c)
         /\ queue' = queue /\ enabled' = enabled /\ prop' = prop /\ held' = held /\ proc' = proc
BY DEF Execute, DeviceCommands

(* There are no others.                                                    *)
LEMMA VerbIs ==
  ASSUME NEW c \in Commands
  PROVE  \/ c.do = "setprop" \/ c.do = "copyprop" \/ c.do = "start" \/ c.do = "stop"
         \/ c.do = "restart" \/ c.do = "trigger" \/ c.do = "queue_property_triggers"
         \/ c.do = "enable_property_trigger" \/ c.do \in DeviceCommands
BY CommandIs DEF Verbs

LEMMA DeviceStep ==
  ASSUME Types, NEW c \in Commands, c.do \in DeviceCommands, dev' = DeviceAfter(c)
  PROVE  /\ DevType(dev') /\ dev'.launcher = dev.launcher /\ dev'.open = dev.open
         /\ dev'.configfs = (dev.configfs \/ c.do = "mount_configfs")
         /\ dev'.functions = IF c.do = "mkfunction" /\ dev.configfs THEN dev.functions \cup {c.arg}
                          ELSE dev.functions
         /\ dev'.mounted = IF c.do = "mount_ffs" /\ c.arg \in dev.functions
                        THEN dev.mounted \cup {c.arg} ELSE dev.mounted
         /\ dev'.id = IF c.do = "id_product" THEN c.arg ELSE dev.id
         /\ dev'.f1 = IF c.do = "symlink_f1" /\ dev.f1 = "" THEN c.arg
                   ELSE IF c.do = "rm_f1" THEN "" ELSE dev.f1
         /\ dev'.udc = IF c.do = "write_udc" THEN c.arg = "controller" /\ (dev.udc \/ dev.f1 \in dev.open)
                    ELSE IF c.do = "rm_f1" THEN FALSE ELSE dev.udc
<1>1. DevType(dev)
  BY TypesGive
<1> QED
  BY <1>1, DeviceCommand

LEMMA ClosedStep ==
  ASSUME Types, NEW s \in Services, dev' = WithoutEndpoints(s)
  PROVE  /\ DevType(dev') /\ dev'.launcher = dev.launcher
         /\ dev'.configfs = dev.configfs /\ dev'.functions = dev.functions /\ dev'.mounted = dev.mounted
         /\ dev'.id = dev.id /\ dev'.f1 = dev.f1
         /\ s \in UsbDaemons => /\ dev'.open = dev.open \ {Function(s)}
                                /\ dev'.udc = (dev.udc /\ dev.f1 # Function(s))
         /\ s \notin UsbDaemons => dev' = dev
BY TypesGive, Closed

-----------------------------------------------------------------------------
(* The steps of a service that is not a daemon of the USB gadget.          *)
Aside(s) ==
  /\ s \in Services \ UsbDaemons /\ Frame(s)
  /\ todo' = todo /\ enabled' = enabled /\ held' = held
  /\ DevType(dev') /\ SameGadget(dev', dev)
  /\ s # "wifi-helper" => dev'.launcher = dev.launcher
  /\ s = "wifi-helper" => proc[s] # "none"

(* The daemons of the gadget are none of the other services.               *)
LEMMA UsbDaemonsAre ==
  /\ UsbDaemons \subseteq Services /\ UsbDaemons \subseteq Daemons
  /\ Daemons \subseteq Services /\ "wifi-helper" \in Services \ Daemons
  /\ \A s \in Daemons : s # "wifi-helper"
  /\ \A s \in {"ubuntu-droidspaces", "droidspacesd", "selinux-permissive", "load_wlan_driver",
               "focaltech-tp", "wifi-helper"} : s \in Services \ UsbDaemons
  /\ Daemons = UsbDaemons \cup {"droidspacesd"}
  /\ \A s \in UsbDaemons : Function(s) \in Functions
BY DEF UsbDaemons, Services, Daemons, Oneshots, InitOneshots, WlanOneshots, TouchOneshots,
         ContainerOneshots, ContainerDaemons, Function, Functions

(* A process of another service goes on.                                   *)
LEMMA ProceedAside ==
  ASSUME Types, NEW s \in Services \ UsbDaemons, NEW from, from # "none", NEW to \in Phases, NEW d,
         Proceed(s, from, to, d), DevType(d), SameGadget(d, dev),
         s # "wifi-helper" => d.launcher = dev.launcher
  PROVE  Aside(s)
<1>1. /\ Frame(s) /\ todo' = todo /\ enabled' = enabled /\ dev' = d /\ held' = held
      /\ proc[s] = from
  BY Proceeds
<1> QED
  BY <1>1 DEF Aside

LEMMA ProcessAside ==
  ASSUME Types,
         \/ TurnPermissive \/ LaunchWmt \/ PowerOn \/ IfconfigUp \/ MakeSocket \/ RunContainer
         \/ \E ok \in BOOLEAN : LoadWlan(ok) \/ LoadTouch(ok)
  PROVE  \E s \in Services \ UsbDaemons : Aside(s)
<1>1. DevType(dev) /\ dev \in Devices
  BY TypesGive DEF DevType
<1>2. {"begun", "polling", "powered", "up", "dead"} \subseteq Phases
  BY DEF Phases
<1>3. CASE TurnPermissive
  <2> DEFINE d == [dev EXCEPT !.permissive = TRUE]
  <2>1. DevType(d) /\ SameGadget(d, dev) /\ d.launcher = dev.launcher
    BY <1>1 DEF DevType, Devices, SameGadget
  <2>2. Proceed("selinux-permissive", "begun", "dead", d)
    BY <1>3 DEF TurnPermissive
  <2> HIDE DEF d
  <2>3. Aside("selinux-permissive")
    BY <1>2, <2>1, <2>2, ProceedAside, UsbDaemonsAre
  <2> QED
    BY <2>3, UsbDaemonsAre
<1>4. CASE LaunchWmt
  <2> DEFINE d == [dev EXCEPT !.launcher = TRUE]
  <2>1. DevType(d) /\ SameGadget(d, dev)
    BY <1>1 DEF DevType, Devices, SameGadget
  <2>2. Proceed("wifi-helper", "begun", "polling", d)
    BY <1>4 DEF LaunchWmt
  <2> HIDE DEF d
  <2>3. Aside("wifi-helper")
    BY <1>2, <2>1, <2>2, ProceedAside, UsbDaemonsAre
  <2> QED
    BY <2>3, UsbDaemonsAre
<1>5. CASE PowerOn
  <2>1. SameGadget(dev, dev)
    BY DEF SameGadget
  <2>2. Aside("wifi-helper")
    BY <1>1, <1>2, <1>5, <2>1, ProceedAside, UsbDaemonsAre DEF PowerOn
  <2> QED
    BY <2>2, UsbDaemonsAre
<1>6. CASE IfconfigUp
  <2> DEFINE b == dev.wlan0 \/ (dev.module /\ prop["connsys"] = "yes")
             d == [dev EXCEPT !.wlan0 = b]
  <2>1. b \in BOOLEAN
    BY <1>1 DEF Devices
  <2>2. Proceed("wifi-helper", "powered", "dead", d)
    BY <1>6 DEF IfconfigUp
  <2> HIDE DEF b
  <2>3. DevType(d) /\ SameGadget(d, dev)
    BY <1>1, <2>1 DEF DevType, Devices, SameGadget
  <2> HIDE DEF d
  <2>4. Aside("wifi-helper")
    BY <1>2, <2>2, <2>3, ProceedAside, UsbDaemonsAre
  <2> QED
    BY <2>4, UsbDaemonsAre
<1>7. CASE MakeSocket
  <2>1. SameGadget(dev, dev)
    BY DEF SameGadget
  <2>2. Aside("droidspacesd")
    BY <1>1, <1>2, <1>7, <2>1, ProceedAside, UsbDaemonsAre DEF MakeSocket
  <2> QED
    BY <2>2, UsbDaemonsAre
<1>8. CASE RunContainer
  <2>1. SameGadget(dev, dev)
    BY DEF SameGadget
  <2>2. Aside("ubuntu-droidspaces")
    BY <1>1, <1>2, <1>8, <2>1, ProceedAside, UsbDaemonsAre DEF RunContainer
  <2> QED
    BY <2>2, UsbDaemonsAre
<1>9. ASSUME NEW ok \in BOOLEAN, LoadWlan(ok)
      PROVE  \E s \in Services \ UsbDaemons : Aside(s)
  <2> DEFINE b == dev.module \/ ok
             d == [dev EXCEPT !.module = b]
  <2>1. b \in BOOLEAN
    BY <1>1 DEF Devices
  <2>2. Proceed("load_wlan_driver", "begun", "dead", d)
    BY <1>9 DEF LoadWlan
  <2> HIDE DEF b
  <2>3. DevType(d) /\ SameGadget(d, dev) /\ d.launcher = dev.launcher
    BY <1>1, <2>1 DEF DevType, Devices, SameGadget
  <2> HIDE DEF d
  <2>4. Aside("load_wlan_driver")
    BY <1>2, <2>2, <2>3, ProceedAside, UsbDaemonsAre
  <2> QED
    BY <2>4, UsbDaemonsAre
<1>10. ASSUME NEW ok \in BOOLEAN, LoadTouch(ok)
       PROVE  \E s \in Services \ UsbDaemons : Aside(s)
  <2> DEFINE b == dev.touch \/ ok
             d == [dev EXCEPT !.touch = b]
  <2>1. b \in BOOLEAN
    BY <1>1 DEF Devices
  <2>2. Proceed("focaltech-tp", "begun", "dead", d)
    BY <1>10 DEF LoadTouch
  <2> HIDE DEF b
  <2>3. DevType(d) /\ SameGadget(d, dev) /\ d.launcher = dev.launcher
    BY <1>1, <2>1 DEF DevType, Devices, SameGadget
  <2> HIDE DEF d
  <2>4. Aside("focaltech-tp")
    BY <1>2, <2>2, <2>3, ProceedAside, UsbDaemonsAre
  <2> QED
    BY <2>4, UsbDaemonsAre
<1> QED
  BY <1>3, <1>4, <1>5, <1>6, <1>7, <1>8, <1>9, <1>10

(* Another service is reaped, restarted or dies.                           *)
LEMMA ServiceAside ==
  ASSUME Types, NEW s \in Services \ UsbDaemons,
         Reap(s) \/ (s \in Daemons /\ RestartTimer(s))
           \/ (s \in Daemons \cup {"ubuntu-droidspaces"} /\ Die(s))
  PROVE  Aside(s)
<1>1. SameGadget(dev, dev) /\ DevType(dev) /\ s \in Services
  BY TypesGive DEF SameGadget
<1>2. CASE Reap(s)
  BY <1>1, <1>2, Reaped DEF Aside
<1>3. CASE s \in Daemons /\ RestartTimer(s)
  BY <1>1, <1>3, Restarting, UsbDaemonsAre DEF Aside
<1>4. CASE s \in Daemons \cup {"ubuntu-droidspaces"} /\ Die(s)
  <2>1. /\ Frame(s) /\ todo' = todo /\ enabled' = enabled /\ held' = held
        /\ dev' = WithoutEndpoints(s)
    BY <1>1, <1>4, Died
  <2>2. dev' = dev
    BY <1>1, <2>1, ClosedStep
  <2>3. s # "wifi-helper"
    BY <1>4, UsbDaemonsAre
  <2> QED
    BY <1>1, <2>1, <2>2, <2>3 DEF Aside
<1> QED
  BY <1>2, <1>3, <1>4

(* The steps of the system.                                                *)
LEMMA Steps ==
  ASSUME Types, Next
  PROVE  \/ TakeEvent \/ ExecuteCommand
         \/ \E s \in Services \ UsbDaemons : Aside(s)
         \/ \E s \in UsbDaemons : Reap(s) \/ RestartTimer(s) \/ OpenEndpoints(s) \/ ReportReady(s) \/ Die(s)
         \/ LauncherReady
         \/ \E mode \in Modes : Switch(mode)
<1>1. CASE InitLoop
  <2>1. ASSUME NEW s \in Services, Reap(s) PROVE s \in UsbDaemons \/ Aside(s)
    BY <2>1, ServiceAside
  <2>2. ASSUME NEW s \in Daemons, RestartTimer(s) PROVE s \in UsbDaemons \/ Aside(s)
    BY <2>2, ServiceAside, UsbDaemonsAre
  <2> QED
    BY <1>1, <2>1, <2>2, UsbDaemonsAre DEF InitLoop
<1>2. CASE ProcessStep
  <2>1. \A s : Outcomes(s) \subseteq BOOLEAN
    BY DEF Outcomes
  <2> QED
    BY <1>2, <2>1, ProcessAside DEF ProcessStep
<1>3. CASE Environment
  <2>1. ASSUME NEW s \in Daemons \cup {"ubuntu-droidspaces"}, Die(s) PROVE s \in UsbDaemons \/ Aside(s)
    BY <2>1, ServiceAside, UsbDaemonsAre
  <2> QED
    BY <1>3, <2>1, UsbDaemonsAre DEF Environment
<1> QED
  BY <1>1, <1>2, <1>3 DEF Next

(* A daemon opens its endpoints.                                           *)
LEMMA OpenedStep ==
  ASSUME Types, NEW s \in UsbDaemons, OpenEndpoints(s)
  PROVE  /\ Frame(s) /\ prop' = prop /\ queue' = queue /\ todo' = todo /\ enabled' = enabled
         /\ held' = held /\ proc[s] = "begun" /\ proc'[s] = "open"
         /\ DevType(dev') /\ dev'.open = dev.open \cup {Function(s)}
         /\ dev'.launcher = dev.launcher
         /\ dev'.configfs = dev.configfs /\ dev'.functions = dev.functions
         /\ dev'.mounted = dev.mounted /\ dev'.id = dev.id /\ dev'.f1 = dev.f1
         /\ dev'.udc = dev.udc
<1> DEFINE b == dev.open \cup {Function(s)}
           d == [dev EXCEPT !.open = b]
<1>1. Function(s) \in dev.mounted /\ Proceed(s, "begun", "open", d)
  BY DEF OpenEndpoints
<1>2. DevType(dev) /\ s \in Services /\ "open" \in Phases
  BY TypesGive, UsbDaemonsAre DEF Phases
<1>3. b \subseteq dev.mounted
  BY <1>1, <1>2, DeviceIs
<1> HIDE DEF b
<1>4. /\ DevType(d) /\ d.open = b /\ d.launcher = dev.launcher
      /\ d.configfs = dev.configfs /\ d.functions = dev.functions /\ d.mounted = dev.mounted
      /\ d.id = dev.id /\ d.f1 = dev.f1 /\ d.udc = dev.udc
  BY <1>2, <1>3 DEF DevType, Devices
<1> HIDE DEF d
<1>5. /\ Frame(s) /\ todo' = todo /\ enabled' = enabled /\ dev' = d /\ held' = held
      /\ proc[s] = "begun" /\ proc'[s] = "open" /\ prop' = prop /\ queue' = queue
  BY <1>1, <1>2, Proceeds
<1> QED
  BY <1>4, <1>5 DEF b

-----------------------------------------------------------------------------
(* Types are kept.                                                         *)
LEMMA TypesHold ==
  ASSUME queue' \in Seq(Events), todo' \in Seq(Rows), enabled' \in BOOLEAN,
         PropType(prop'), held' \subseteq Services, proc' \in [Services -> Phases],
         DevType(dev')
  PROVE  Types'
BY DEF Types, PropType, DevType, Phases

(* By kind of step.                                                        *)
LEMMA TypesAfterFrame ==
  ASSUME Types, NEW s, Frame(s), todo' \in Seq(Rows), enabled' \in BOOLEAN, DevType(dev')
  PROVE  Types'
BY TypesHold DEF Frame

LEMMA TypesAfterTaken ==
  ASSUME Types, TakeEvent, Selected(Head(queue)) \in Seq(Rows)
  PROVE  Types'
<1>1. /\ todo' = Selected(Head(queue)) /\ queue' = Tail(queue) /\ queue # << >>
      /\ enabled' = enabled /\ prop' = prop /\ held' = held /\ proc' = proc /\ dev' = dev
  BY DEF TakeEvent
<1>2. queue \in Seq(Events)
  BY TypesGive
<1>3. queue' \in Seq(Events)
  BY <1>1, <1>2, ElemsTail
<1> QED
  BY <1>1, <1>3, TypesGive, TypesHold

LEMMA TypesAfterCommand ==
  ASSUME Types, ExecuteCommand
  PROVE  Types'
<1> DEFINE c == Current(todo)
<1>1. c \in Commands /\ todo' \in Seq(Rows) /\ Execute(c)
  BY Executed
<1> HIDE DEF c
<1>2. /\ enabled \in BOOLEAN /\ DevType(dev) /\ queue \in Seq(Events) /\ PropType(prop)
      /\ held \subseteq Services /\ proc \in [Services -> Phases]
  BY TypesGive
<1>3. CASE c.do = "setprop"
  BY <1>1, <1>2, <1>3, SetsProp, TypesHold
<1>4. CASE c.do = "copyprop"
  BY <1>1, <1>2, <1>4, CopiesProp, TypesHold
<1>5. ASSUME NEW s \in Services, Frame(s), dev' = dev \/ dev' = WithoutEndpoints(s), enabled' = enabled
      PROVE  Types'
  <2>1. DevType(dev')
    BY <1>2, <1>5, ClosedStep
  <2> QED
    BY <1>1, <1>2, <1>5, <2>1, TypesAfterFrame
<1>6. CASE c.do = "start"
  <2>1. c.arg \in Services /\ DoStart(c.arg) /\ enabled' = enabled
    BY <1>1, <1>6, Starts
  <2>2. Frame(c.arg) /\ dev' = dev
    BY <2>1, Started
  <2> QED
    BY <1>5, <2>1, <2>2
<1>7. CASE c.do = "stop"
  <2>1. c.arg \in Services /\ DoStop(c.arg) /\ enabled' = enabled
    BY <1>1, <1>7, Stops
  <2>2. Frame(c.arg) /\ (dev' = dev \/ dev' = WithoutEndpoints(c.arg))
    BY <2>1, Stopped
  <2> QED
    BY <1>5, <2>1, <2>2
<1>8. CASE c.do = "restart"
  <2>1. c.arg \in Services /\ DoRestart(c.arg) /\ enabled' = enabled
    BY <1>1, <1>8, Restarts
  <2>2. Frame(c.arg) /\ (dev' = dev \/ dev' = WithoutEndpoints(c.arg))
    BY <2>1, Restarted
  <2> QED
    BY <1>5, <2>1, <2>2
<1>9. CASE c.do = "trigger"
  <2>1. queue' = With(queue, StageEvent(c.arg)) /\ StageEvent(c.arg) \in Events
        /\ enabled' = enabled /\ prop' = prop /\ held' = held /\ proc' = proc /\ dev' = dev
    BY <1>1, <1>9, TriggersStage
  <2>2. queue' \in Seq(Events)
    BY <1>2, <2>1 DEF With
  <2> QED
    BY <1>1, <1>2, <2>1, <2>2, TypesHold
<1>10. CASE c.do = "queue_property_triggers"
  BY <1>1, <1>2, <1>10, QueuesTriggers, TypesHold
<1>11. CASE c.do = "enable_property_trigger"
  BY <1>1, <1>2, <1>11, Enables, TypesHold
<1>12. CASE c.do \in DeviceCommands
  BY <1>1, <1>2, <1>12, Devises, DeviceStep, TypesHold
<1> QED
  BY <1>1, <1>3, <1>4, <1>6, <1>7, <1>8, <1>9, <1>10, <1>11, <1>12, VerbIs

LEMMA StepTypes ==
  ASSUME Types, Next, TakeEvent => Selected(Head(queue)) \in Seq(Rows)
  PROVE  Types'
<1>1. todo \in Seq(Rows) /\ enabled \in BOOLEAN /\ DevType(dev) /\ queue \in Seq(Events)
      /\ held \subseteq Services /\ proc \in [Services -> Phases]
  BY TypesGive
<1>2. CASE TakeEvent
  BY <1>2, TypesAfterTaken
<1>3. CASE ExecuteCommand
  BY <1>3, TypesAfterCommand
<1>4. CASE \E s \in Services \ UsbDaemons : Aside(s)
  BY <1>1, <1>4, TypesAfterFrame DEF Aside
<1>5. ASSUME NEW s \in UsbDaemons, Reap(s) \/ RestartTimer(s)
      PROVE  Types'
  <2>1. s \in Services
    BY UsbDaemonsAre
  <2> QED
    BY <1>1, <1>5, <2>1, Reaped, Restarting, TypesAfterFrame
<1>6. ASSUME NEW s \in UsbDaemons, OpenEndpoints(s)
      PROVE  Types'
  BY <1>1, <1>6, OpenedStep, TypesAfterFrame
<1>7. ASSUME NEW s \in UsbDaemons, ReportReady(s)
      PROVE  Types'
  BY <1>1, <1>7, Reported, TypesHold
<1>8. ASSUME NEW s \in UsbDaemons, Die(s)
      PROVE  Types'
  <2>1. s \in Services
    BY UsbDaemonsAre
  <2>2. Frame(s) /\ todo' = todo /\ enabled' = enabled /\ dev' = WithoutEndpoints(s)
    BY <1>8, <2>1, Died
  <2> QED
    BY <1>1, <2>1, <2>2, ClosedStep, TypesAfterFrame
<1>9. CASE LauncherReady
  BY <1>1, <1>9, LauncherReported, TypesHold
<1>10. ASSUME NEW mode \in Modes, Switch(mode)
       PROVE  Types'
  BY <1>1, <1>10, Switched, TypesHold
<1> QED
  BY <1>2, <1>3, <1>4, <1>5, <1>6, <1>7, <1>8, <1>9, <1>10, Steps

LEMMA TypesStutter ==
  ASSUME Types, UNCHANGED vars
  PROVE  Types'
BY TypesGive, TypesHold DEF vars

-----------------------------------------------------------------------------
(* The boot: the events in their order.                                    *)
LEMMA BootEventsAre ==
  /\ BootEvents \in Seq(Events) /\ Len(BootEvents) = 13
  /\ BootEvents[4] = Builtin(QueuePropertyTriggers)
  /\ BootEvents[12] = Builtin(EnablePropertyTrigger)
  /\ BootEvents[13] = AllProperties
  /\ \A i \in 1..13 : i \notin {4, 12, 13} => BootEvents[i] = StageEvent(Stages[i])
<1>1. \A i \in 1..13 : BootEvents[i] = IF i = 4 THEN Builtin(QueuePropertyTriggers)
                   ELSE IF i = 12 THEN Builtin(EnablePropertyTrigger)
                   ELSE IF i = 13 THEN AllProperties ELSE StageEvent(Stages[i])
  BY DEF BootEvents
<1>2. /\ Builtin(QueuePropertyTriggers) \in Events /\ Builtin(EnablePropertyTrigger) \in Events
      /\ AllProperties \in Events
  BY DEF Builtin, QueuePropertyTriggers, EnablePropertyTrigger, Cmd, AllProperties, Event, Events,
         Names, Values
<1>3. \A n \in BootStages : StageEvent(n) \in Events
  BY DEF StageEvent, Event, Events, Names, Values
<1>4. \A i \in 1..13 : i \notin {4, 12, 13} => Stages[i] \in BootStages
  BY StagesAre DEF BootStages
<1> HIDE DEF BootEvents
<1>5. \A i \in 1..13 : BootEvents[i] \in Events
  BY <1>1, <1>2, <1>3, <1>4
<1>6. BootEvents \in Seq(Events) /\ Len(BootEvents) = 13
  <2>1. BootEvents = [i \in 1..13 |-> BootEvents[i]]
    BY DEF BootEvents
  <2> DEFINE b == BootEvents
  <2>2. b = [i \in 1..13 |-> b[i]] /\ \A i \in 1..13 : b[i] \in Events
    BY <1>5, <2>1
  <2> HIDE DEF b
  <2>3. b \in Seq(Events) /\ Len(b) = 13
    BY <2>2
  <2> QED
    BY <2>3 DEF b
<1> QED
  BY <1>1, <1>6

(* The first event of the queue is the next of the boot; what is appended  *)
(* comes after it.                                                         *)
LEMMA BootHead ==
  ASSUME NEW cur \in 0..12, NEW last \in 4..13, NEW q, q = SubSeq(BootEvents, cur + 1, last)
  PROVE  /\ q # << >> => cur < last
         /\ cur < last => /\ q # << >> /\ Head(q) = BootEvents[cur + 1]
                          /\ Tail(q) = SubSeq(BootEvents, cur + 2, last)
<1> DEFINE b == BootEvents
           m == cur + 1
<1>1. b \in Seq(Events) /\ Len(b) = 13 /\ q = SubSeq(b, m, last) /\ m \in 1..13
  BY BootEventsAre
<1>2. m + 1 = cur + 2 /\ (cur < last <=> m <= last) /\ last \in 4..13
  OBVIOUS
<1> HIDE DEF b, m
<1>3. m > last => q = << >>
  BY <1>1, <1>2, SubSeqEmpty
<1>4. ASSUME m <= last
      PROVE  q # << >> /\ Head(q) = b[m] /\ Tail(q) = SubSeq(b, m + 1, last)
  <2>1. m \in 1..Len(b) /\ last \in m..Len(b)
    BY <1>1, <1>2, <1>4
  <2>2. Head(q) = b[m] /\ Tail(q) = SubSeq(b, m + 1, last)
    BY <1>1, <2>1, HeadTailOfSubSeq
  <2>3. Len(q) = last - m + 1
    <3>1. \A i \in m..last : b[i] \in Events
      <4>1. \A i \in m..last : i \in 1..Len(b)
        BY <1>1, <2>1
      <4>2. \A i \in 1..Len(b) : b[i] \in Events
        BY <1>1, ElementOfSeq
      <4> QED
        BY <4>1, <4>2
    <3>2. m \in Int /\ last \in Int
      BY <2>1
    <3> QED
      BY <1>1, <1>4, <3>1, <3>2, SubSeqProperties
  <2>4. q # << >>
    <3>1. Len(<< >>) = 0
      OBVIOUS
    <3>2. Len(q) # 0
      BY <1>1, <1>4, <2>3
    <3> QED
      BY <3>1, <3>2, Zenon
  <2> QED
    BY <2>2, <2>4
<1> QED
  BY <1>1, <1>2, <1>3, <1>4 DEF b, m

LEMMA BootLonger ==
  ASSUME NEW cur \in 0..12, NEW last \in 4..12, cur <= last
  PROVE  With(SubSeq(BootEvents, cur + 1, last), BootEvents[last + 1])
           = SubSeq(BootEvents, cur + 1, last + 1)
<1> DEFINE b == BootEvents
           m == cur + 1
           n == last + 1
<1>1. b \in Seq(Events) /\ Len(b) = 13
  BY BootEventsAre
<1> HIDE DEF b
<1>2. m \in 1..Len(b) /\ n \in m..Len(b) /\ n - 1 = last
  BY <1>1
<1> HIDE DEF m, n
<1>3. SubSeq(b, m, n) = SubSeq(b, m, n - 1) \o << b[n] >>
  BY <1>1, <1>2, SubSeqRecursiveSecond
<1> QED
  BY <1>2, <1>3 DEF With, m, n, b

(* Without commands nothing is left.                                       *)
LEMMA NothingLeft ==
  /\ LeftOf(<< >>) = {}
  /\ \A a, b : ~Unled(<< >>, a, b)
BY DEF LeftOf, Elems, Unled

-----------------------------------------------------------------------------
(* The next event of the boot.                                             *)
LEMMA EffectsTaken ==
  ASSUME NEW cur \in 0..11, Effects(cur), todo = << >>,
         prop' = prop, dev' = dev,
         LeftOf(todo') \subseteq CommandsOn(cur + 1),
         cur = 0 => SetProp("configfs", "1") \in LeftOf(todo'),
         cur = 7 => SetProp("config", "adb") \in LeftOf(todo'),
         (cur = 5 /\ Usb) => \A f \in {"adb", "fastboot"} :
           /\ MountFunctionfs(f) \in LeftOf(todo')
           /\ ~Unled(todo', MakeFunction(f), MountFunctionfs(f))
           /\ ~Unled(todo', MountConfigfs, MakeFunction(f))
  PROVE  Effects(cur + 1)'
<1> DEFINE n == cur + 1
<1>1. LeftOf(todo) = {}
  BY NothingLeft
<1>2. \A c : c \notin LeftOf(todo)
  BY <1>1
<1>3. /\ cur >= 1 => prop["configfs"] = "1"
      /\ cur < 8 => prop["config"] = ""
      /\ cur >= 8 => prop["config"] = "adb"
  BY <1>2, Zenon DEF Effects
<1>4. cur >= 6 /\ Usb => \A f \in {"adb", "fastboot"} : f \in dev.mounted
  BY <1>2, Zenon DEF Effects
<1>5. /\ (n >= 1) <=> (cur = 0 \/ cur >= 1)
      /\ n < 8 => cur < 8
      /\ (n >= 8) <=> (cur = 7 \/ cur >= 8)
      /\ (n >= 6) <=> (cur = 5 \/ cur >= 6)
      /\ n \in 1..12
  OBVIOUS
<1>6. Usb => \A f \in {"adb", "fastboot"} :
       /\ Unled(todo', MakeFunction(f), MountFunctionfs(f)) => f \in dev'.functions
       /\ Unled(todo', MountConfigfs, MakeFunction(f)) => dev'.configfs
  <2>1. CASE cur = 5
    BY <2>1
  <2>2. CASE cur # 5
    <3>1. n \in 1..12 /\ n # 6
      BY <2>2
    <3> HIDE DEF n
    <3>2. ASSUME NEW c \in CommandsOn(n) PROVE c.do \notin {"mkfunction", "mount_ffs"}
      <4>1. \A k \in 1..7 : Triggers[k].do = "trigger"
        BY Fields DEF Triggers
      <4> QED
        BY <3>1, <3>2, <4>1, Fields DEF CommandsOn
    <3>3. \A f : MountFunctionfs(f) \notin LeftOf(todo') /\ MakeFunction(f) \notin LeftOf(todo')
      BY <3>2, Fields DEF n
    <3>4. \A a, b : b \notin LeftOf(todo') => ~Unled(todo', a, b)
      BY NotLed
    <3> QED
      BY <3>3, <3>4
  <2> QED
    BY <2>1, <2>2
<1> HIDE DEF n
<1>7. /\ LeftOf(todo') \subseteq CommandsOn(n)
      /\ n >= 1 => prop'["configfs"] = "1" \/ SetProp("configfs", "1") \in LeftOf(todo')
      /\ n < 8 => prop'["config"] = ""
      /\ n >= 8 => prop'["config"] = "adb" \/ SetProp("config", "adb") \in LeftOf(todo')
      /\ n >= 6 /\ Usb => \A f \in {"adb", "fastboot"} :
           f \in dev'.mounted \/ MountFunctionfs(f) \in LeftOf(todo')
  <2>1. LeftOf(todo') \subseteq CommandsOn(n)
    BY DEF n
  <2>2. prop' = prop /\ dev' = dev
    OBVIOUS
  <2>3. n >= 1 => prop'["configfs"] = "1" \/ SetProp("configfs", "1") \in LeftOf(todo')
    BY <1>3, <1>5, <2>2, Zenon
  <2>4. n < 8 => prop'["config"] = ""
    BY <1>3, <1>5, <2>2, Zenon
  <2>5. n >= 8 => prop'["config"] = "adb" \/ SetProp("config", "adb") \in LeftOf(todo')
    BY <1>3, <1>5, <2>2, Zenon
  <2>6. n >= 6 /\ Usb => \A f \in {"adb", "fastboot"} :
           f \in dev'.mounted \/ MountFunctionfs(f) \in LeftOf(todo')
    BY <1>4, <1>5, <2>2, Zenon
  <2> QED
    BY <2>1, <2>3, <2>4, <2>5, <2>6, Zenon
<1>8. Effects(n)'
  BY <1>6, <1>7, Zenon DEF Effects
<1> QED
  BY <1>8, Zenon DEF n

(* The seven triggers of late-init.                                        *)
LEMMA TriggersAre ==
  /\ Triggers \in Seq(Commands) /\ Len(Triggers) = 7 /\ SubSeq(Triggers, 1, 7) = Triggers
  /\ \A i \in 1..7 : Triggers[i] = Trigger(Stages[i + 4])
<1>1. LateInitRow.cmds = Triggers /\ LateInitRow \in Rows
  BY LateInitIs, RowElems
<1>2. Triggers \in Seq(Commands)
  BY <1>1 DEF Rows
<1>3. Len(Triggers) = 7
  <2>1. DOMAIN Triggers = 1..7
    BY DEF Triggers
  <2> DEFINE t == Triggers
  <2>2. t \in Seq(Commands) /\ DOMAIN t = 1..7
    BY <1>2, <2>1
  <2> HIDE DEF t
  <2>3. Len(t) = 7
    BY <2>2
  <2> QED
    BY <2>3 DEF t
<1>4. SubSeq(Triggers, 1, 7) = Triggers
  BY <1>2, <1>3, SubSeqFull
<1>5. \A i \in 1..7 : Triggers[i] = Trigger(Stages[i + 4])
  BY DEF Triggers
<1> QED
  BY <1>2, <1>3, <1>4, <1>5

LEMMA BootTaken ==
  ASSUME Types, NEW cur \in 0..12, NEW last \in 4..13, Position(cur, last), Effects(cur), TakeEvent
  PROVE  /\ Selected(Head(queue)) \in Seq(Rows) /\ cur + 1 \in 0..12
         /\ Position(cur + 1, last)' /\ Effects(cur + 1)'
<1>1. /\ todo = << >> /\ queue # << >> /\ todo' = Selected(Head(queue)) /\ queue' = Tail(queue)
      /\ prop' = prop /\ dev' = dev
  BY DEF TakeEvent
<1>2. queue = SubSeq(BootEvents, cur + 1, last)
  BY DEF Position
<1>3. /\ cur < last /\ Head(queue) = BootEvents[cur + 1]
      /\ queue' = SubSeq(BootEvents, cur + 2, last)
  BY <1>1, <1>2, BootHead
<1>4. Len(todo) # 1
  BY <1>1
<1>5. /\ cur < 3 => last = 4
      /\ cur = 3 => last = 11
      /\ cur = 4 => last = 13
      /\ cur > 4 => last = 13
      /\ cur # 12
  BY <1>1, <1>4, Zenon DEF Position
<1> DEFINE n == cur + 1
           t == Selected(Head(queue))
<1>6. /\ n \in 1..12 /\ cur \in 0..11 /\ n + 1 = cur + 2
      /\ n = 1 <=> cur = 0
      /\ n < 3 => cur < 3
      /\ n = 3 => cur < 3
      /\ n = 4 <=> cur = 3
      /\ n = 6 <=> cur = 5
      /\ n = 8 <=> cur = 7
      /\ n = 5 => cur = 4
      /\ n > 4 => cur = 4 \/ cur > 4
  BY <1>5
<1>7. /\ t \in Seq(Rows) /\ LeftOf(t) \subseteq CommandsOn(n)
      /\ n = 1 => SetProp("configfs", "1") \in LeftOf(t)
      /\ n = 3 => Len(t) = 1 /\ t[1].cmds = Triggers
      /\ n = 4 \/ n = 12 => Len(t) = 1 /\ Len(t[1].cmds) = 1
      /\ n = 8 => SetProp("config", "adb") \in LeftOf(t)
      /\ n = 6 /\ Usb => \A f \in {"adb", "fastboot"} : MountFunctionfs(f) \in LeftOf(t)
  <2> HIDE DEF n
  <2>1. CASE n \in 1..11 /\ n # 4
    <3>1. t = Selected(StageEvent(Stages[n]))
      <4>1. BootEvents[n] = StageEvent(Stages[n])
        BY <2>1, BootEventsAre
      <4> QED
        BY <1>3, <4>1 DEF n
    <3> HIDE DEF t
    <3>2. /\ t \in Seq(Rows) /\ LeftOf(t) \subseteq CommandsOn(n)
          /\ n = 1 => SetProp("configfs", "1") \in LeftOf(t)
          /\ n = 3 => Len(t) = 1 /\ t[1].cmds = Triggers
          /\ n = 8 => SetProp("config", "adb") \in LeftOf(t)
          /\ n = 6 /\ Usb => \A f \in {"adb", "fastboot"} : MountFunctionfs(f) \in LeftOf(t)
      BY <2>1, <3>1, BootSelected
    <3>3. n # 4 /\ n # 12
      BY <2>1
    <3> QED
      BY <3>2, <3>3
  <2>2. CASE n = 4
    <3>1. t = Selected(Builtin(QueuePropertyTriggers))
      BY <1>3, <2>2, BootEventsAre DEF n
    <3> HIDE DEF t
    <3>2. t \in Seq(Rows) /\ Len(t) = 1 /\ Len(t[1].cmds) = 1 /\ LeftOf(t) = {QueuePropertyTriggers}
      BY <3>1, BuiltinSelected
    <3> QED
      BY <2>2, <3>2, CommandsOnAre
  <2>3. CASE n = 12
    <3>1. t = Selected(Builtin(EnablePropertyTrigger))
      BY <1>3, <2>3, BootEventsAre DEF n
    <3> HIDE DEF t
    <3>2. t \in Seq(Rows) /\ Len(t) = 1 /\ Len(t[1].cmds) = 1 /\ LeftOf(t) = {EnablePropertyTrigger}
      BY <3>1, BuiltinSelected
    <3> QED
      BY <2>3, <3>2, CommandsOnAre
  <2>4. n \in 1..12
    BY <1>6 DEF n
  <2>5. (n \in 1..11 /\ n # 4) \/ n = 4 \/ n = 12
    BY <2>4
  <2> QED
    BY <2>1, <2>2, <2>3, <2>5
<1>8. (n = 6 /\ Usb) => \A f \in {"adb", "fastboot"} :
           /\ ~Unled(t, MakeFunction(f), MountFunctionfs(f))
           /\ ~Unled(t, MountConfigfs, MakeFunction(f))
  <2> SUFFICES ASSUME n = 6, Usb, NEW f \in {"adb", "fastboot"}
               PROVE  /\ ~Unled(t, MakeFunction(f), MountFunctionfs(f))
                      /\ ~Unled(t, MountConfigfs, MakeFunction(f))
    OBVIOUS
  <2>1. t = Selected(StageEvent("fs"))
    <3>1. BootEvents[6] = StageEvent("fs")
      BY BootEventsAre, StagesAre
    <3> QED
      BY <1>3, <3>1
  <2>2. prop["configfs"] = "1"
    <3>1. cur >= 1
      OBVIOUS
    <3>2. \A c : c \notin LeftOf(todo)
      BY <1>1, NothingLeft
    <3> QED
      BY <3>1, <3>2, Zenon DEF Effects
  <2> HIDE DEF t
  <2> QED
    BY <2>1, <2>2, FsOrder
<1>9. todo' = t
  BY <1>1
<1> HIDE DEF t
<1>10. Effects(cur + 1)'
  <2>1. cur \in 0..11
    BY <1>6
  <2>2. /\ LeftOf(todo') \subseteq CommandsOn(cur + 1)
        /\ cur = 0 => SetProp("configfs", "1") \in LeftOf(todo')
        /\ cur = 7 => SetProp("config", "adb") \in LeftOf(todo')
        /\ (cur = 5 /\ Usb) => \A f \in {"adb", "fastboot"} :
             /\ MountFunctionfs(f) \in LeftOf(todo')
             /\ ~Unled(todo', MakeFunction(f), MountFunctionfs(f))
             /\ ~Unled(todo', MountConfigfs, MakeFunction(f))
    BY <1>6, <1>7, <1>8, <1>9, Zenon DEF n
  <2> QED
    BY <1>1, <2>1, <2>2, EffectsTaken
<1>11. Position(n, last)'
  <2> HIDE DEF n
  <2>1. queue' = SubSeq(BootEvents, n + 1, last)
    BY <1>3, <1>6
  <2>2. n # 0
    BY <1>6
  <2>3. n = 3 => last = 4 /\ last - 3 = 1 /\ last \in 4..10
    BY <1>5, <1>6
  <2>4. n = 3 => IF todo' = << >> THEN last = 11
                 ELSE Len(todo') = 1 /\ last \in 4..10
                      /\ todo'[1].cmds = SubSeq(Triggers, last - 3, 7)
    <3>1. ASSUME n = 3
          PROVE  /\ Len(t) = 1 /\ t # << >> /\ last \in 4..10
                 /\ t[1].cmds = SubSeq(Triggers, last - 3, 7)
      <4>1. Len(t) = 1 /\ t[1].cmds = Triggers
        BY <1>7, <3>1
      <4>2. t # << >>
        BY <4>1
      <4> QED
        BY <2>3, <3>1, <4>1, <4>2, TriggersAre
    <3> QED
      BY <1>9, <3>1, Zenon
  <2>5. n = 4 => last = IF todo' = << >> THEN 13 ELSE 11
    <3>1. ASSUME n = 4 PROVE last = 11 /\ t # << >>
      <4>1. Len(t) = 1 /\ last = 11
        BY <1>5, <1>6, <1>7, <3>1
      <4> QED
        BY <4>1
    <3> QED
      BY <1>9, <3>1, Zenon
  <2>6. /\ n < 3 => last = 4
        /\ n > 4 => last = 13
    BY <1>5, <1>6, Zenon
  <2>7. n = 4 \/ n = 12 => Len(todo') = 1 /\ Len(todo'[1].cmds) = 1
    BY <1>7, <1>9
  <2> QED
    BY <2>1, <2>2, <2>4, <2>5, <2>6, <2>7, Zenon DEF Position
<1> QED
  BY <1>6, <1>7, <1>9, <1>10, <1>11 DEF n, t

-----------------------------------------------------------------------------
(* A command of the boot.                                                  *)
LEMMA EffectsAdvanced ==
  ASSUME NEW cur \in 0..12, Effects(cur), todo \in Seq(Rows), todo # << >>,
         todo' = Advanced(todo), NEW c, c = Current(todo), LeftOf(todo) = LeftOf(todo') \cup {c},
         (prop["configfs"] = "1" \/ c = SetProp("configfs", "1")) => prop'["configfs"] = "1",
         c # SetProp("config", "adb") => prop'["config"] = prop["config"],
         c = SetProp("config", "adb") => prop'["config"] = "adb",
         dev.configfs \/ c = MountConfigfs => dev'.configfs,
         \A f \in {"adb", "fastboot"} :
           /\ f \in dev.functions \/ (c = MakeFunction(f) /\ dev.configfs) => f \in dev'.functions
           /\ f \in dev.mounted \/ (c = MountFunctionfs(f) /\ f \in dev.functions) => f \in dev'.mounted
  PROVE  Effects(cur)'
<1>1. /\ LeftOf(todo) \subseteq CommandsOn(cur)
      /\ cur >= 1 => prop["configfs"] = "1" \/ SetProp("configfs", "1") \in LeftOf(todo)
      /\ cur < 8 => prop["config"] = ""
      /\ cur >= 8 => prop["config"] = "adb" \/ SetProp("config", "adb") \in LeftOf(todo)
      /\ cur >= 6 /\ Usb => \A f \in {"adb", "fastboot"} :
           f \in dev.mounted \/ MountFunctionfs(f) \in LeftOf(todo)
      /\ Usb => \A f \in {"adb", "fastboot"} :
           /\ Unled(todo, MakeFunction(f), MountFunctionfs(f)) => f \in dev.functions
           /\ Unled(todo, MountConfigfs, MakeFunction(f)) => dev.configfs
  BY DEF Effects
<1>2. \A x : x \in LeftOf(todo) <=> x \in LeftOf(todo') \/ x = c
  OBVIOUS
<1>3. /\ \A a, b : a # c /\ Unled(todo', a, b) => Unled(todo, a, b)
      /\ \A a : Unled(todo, a, c)
  BY AdvancedUnled
<1>4. LeftOf(todo') \subseteq CommandsOn(cur)
  BY <1>1, <1>2
<1>5. cur >= 1 => prop'["configfs"] = "1" \/ SetProp("configfs", "1") \in LeftOf(todo')
  BY <1>1, <1>2, Zenon
<1>6. cur < 8 => prop'["config"] = ""
  <2>1. ASSUME cur < 8 PROVE SetProp("config", "adb") \notin CommandsOn(cur)
    <3>1. cur # 8
      BY <2>1
    <3>2. \A i \in 1..7 : Triggers[i] # SetProp("config", "adb")
      BY TriggersAre, Fields
    <3>3. SetProp("configfs", "1") # SetProp("config", "adb")
      BY Fields
    <3>4. SetProp("connsys", "no") # SetProp("config", "adb")
      BY Fields
    <3> QED
      BY <3>1, <3>2, <3>3, <3>4, Fields DEF CommandsOn
  <2>2. c \in CommandsOn(cur)
    BY <1>1
  <2> QED
    BY <1>1, <2>1, <2>2, Zenon
<1>7. cur >= 8 => prop'["config"] = "adb" \/ SetProp("config", "adb") \in LeftOf(todo')
  BY <1>1, <1>2, Zenon
<1>8. cur >= 6 /\ Usb => \A f \in {"adb", "fastboot"} :
       f \in dev'.mounted \/ MountFunctionfs(f) \in LeftOf(todo')
  <2> SUFFICES ASSUME cur >= 6, Usb, NEW f \in {"adb", "fastboot"}
               PROVE  f \in dev'.mounted \/ MountFunctionfs(f) \in LeftOf(todo')
    OBVIOUS
  <2>1. f \in dev.mounted \/ MountFunctionfs(f) \in LeftOf(todo') \/ MountFunctionfs(f) = c
    BY <1>1, <1>2, Zenon
  <2>2. MountFunctionfs(f) = c => f \in dev.functions
    BY <1>1, <1>3, Zenon
  <2> QED
    BY <2>1, <2>2, Zenon
<1>9. Usb => \A f \in {"adb", "fastboot"} :
       /\ Unled(todo', MakeFunction(f), MountFunctionfs(f)) => f \in dev'.functions
       /\ Unled(todo', MountConfigfs, MakeFunction(f)) => dev'.configfs
  <2> SUFFICES ASSUME Usb, NEW f \in {"adb", "fastboot"}
               PROVE  /\ Unled(todo', MakeFunction(f), MountFunctionfs(f)) => f \in dev'.functions
                      /\ Unled(todo', MountConfigfs, MakeFunction(f)) => dev'.configfs
    OBVIOUS
  <2>1. /\ Unled(todo, MakeFunction(f), MountFunctionfs(f)) => f \in dev.functions
        /\ Unled(todo, MountConfigfs, MakeFunction(f)) => dev.configfs
    BY <1>1, Zenon
  <2>2. /\ f \in dev.functions \/ (c = MakeFunction(f) /\ dev.configfs) => f \in dev'.functions
        /\ dev.configfs \/ c = MountConfigfs => dev'.configfs
    OBVIOUS
  <2>3. Unled(todo', MakeFunction(f), MountFunctionfs(f)) => f \in dev'.functions
    BY <1>3, <2>1, <2>2, Zenon
  <2>4. Unled(todo', MountConfigfs, MakeFunction(f)) => dev'.configfs
    BY <1>3, <2>1, <2>2, Zenon
  <2> QED
    BY <2>3, <2>4
<1> QED
  BY <1>4, <1>5, <1>6, <1>7, <1>8, <1>9, Zenon DEF Effects

(* The queue after a command that does not touch it.                       *)
LEMMA PositionKept ==
  ASSUME NEW cur \in (1..12) \ {3, 4, 12}, NEW last, Position(cur, last), queue' = queue
  PROVE  Position(cur, last)'
BY DEF Position

(* late-init queues the stages that follow.                                *)
LEMMA PositionTriggered ==
  ASSUME Types, NEW last \in 4..13, Position(3, last), todo # << >>, todo' = Advanced(todo),
         NEW c, c = Current(todo), queue' = With(queue, StageEvent(c.arg))
  PROVE  last + 1 \in 4..13 /\ Position(3, last + 1)' /\ c = Triggers[last - 3]
<1>1. /\ queue = SubSeq(BootEvents, 4, last)
      /\ Len(todo) = 1 /\ last \in 4..10
      /\ todo[1].cmds = SubSeq(Triggers, last - 3, 7)
  BY DEF Position
<1>2. todo \in Seq(Rows)
  BY TypesGive
<1>3. /\ Advanced(todo) \in Seq(Rows)
      /\ todo[1].cmds \in Seq(Commands) /\ Len(todo[1].cmds) \in Nat \ {0}
      /\ Current(todo) = todo[1].cmds[1]
      /\ \/ /\ Len(todo[1].cmds) = 1 /\ Len(Advanced(todo)) = 0
         \/ /\ Len(todo[1].cmds) > 1 /\ Len(Advanced(todo)) = 1
            /\ Advanced(todo)[1].cmds = Tail(todo[1].cmds)
  <2>1. /\ Advanced(todo) \in Seq(Rows)
        /\ todo[1].cmds \in Seq(Commands) /\ Len(todo[1].cmds) \in Nat \ {0}
        /\ Current(todo) = todo[1].cmds[1]
        /\ \/ Len(todo[1].cmds) = 1 /\ Len(Advanced(todo)) = Len(todo) - 1
           \/ /\ Len(todo[1].cmds) > 1 /\ Len(Advanced(todo)) = Len(todo)
              /\ Advanced(todo)[1].cmds = Tail(todo[1].cmds)
    BY <1>2, Advancing, Zenon
  <2> DEFINE a == Advanced(todo)
             l == Len(todo[1].cmds)
             k == Len(todo)
  <2>2. k = 1
    BY <1>1
  <2>3. \/ l = 1 /\ Len(a) = k - 1
        \/ l > 1 /\ Len(a) = k /\ a[1].cmds = Tail(todo[1].cmds)
    BY <2>1
  <2> HIDE DEF a, l, k
  <2>4. \/ l = 1 /\ Len(a) = 0
        \/ l > 1 /\ Len(a) = 1 /\ a[1].cmds = Tail(todo[1].cmds)
    BY <2>2, <2>3
  <2> QED
    BY <2>1, <2>4, Zenon DEF a, l
<1> DEFINE m == last - 3
           w == todo[1].cmds
           tr == Triggers
<1>4. tr \in Seq(Commands) /\ Len(tr) = 7 /\ m \in 1..7 /\ w = SubSeq(tr, m, 7) /\ m + 4 = last + 1
  BY <1>1, TriggersAre
<1>5. w \in Seq(Commands) /\ Len(w) \in Nat \ {0}
  BY <1>3
<1>6. c = w[1]
  BY <1>3
<1>7. c = tr[m] /\ c = Trigger(Stages[m + 4])
  <2>1. \A i \in 1..7 : tr[i] = Trigger(Stages[i + 4])
    BY TriggersAre
  <2> HIDE DEF m, w, tr
  <2>2. m \in 1..Len(tr) /\ 7 \in m..Len(tr)
    BY <1>4
  <2>3. Head(w) = tr[m]
    BY <1>4, <2>2, HeadTailOfSubSeq
  <2>4. w # << >>
    BY <1>5
  <2>5. Head(w) = w[1]
    BY <1>5, <2>4, ElemsTail
  <2> QED
    BY <1>4, <1>6, <2>1, <2>3, <2>5
<1>8. Len(w) = 8 - m /\ Tail(w) = SubSeq(tr, m + 1, 7)
  <2> HIDE DEF m, w, tr
  <2>2. m \in 1..Len(tr) /\ 7 \in m..Len(tr)
    BY <1>4
  <2>3. Tail(w) = SubSeq(tr, m + 1, 7)
    BY <1>4, <2>2, HeadTailOfSubSeq
  <2>4. Len(w) = 8 - m
    <3>1. \A i \in m..7 : tr[i] \in Commands
      <4>1. \A i \in m..7 : i \in 1..Len(tr)
        BY <1>4, <2>2
      <4>2. \A i \in 1..Len(tr) : tr[i] \in Commands
        BY <1>4, ElementOfSeq
      <4> QED
        BY <4>1, <4>2
    <3>2. m \in Int /\ 7 \in Int
      BY <1>4
    <3> QED
      BY <1>4, <3>1, <3>2, SubSeqProperties
  <2> QED
    BY <2>3, <2>4
<1>9. queue' = SubSeq(BootEvents, 4, last + 1)
  <2>0. last + 1 \in 1..13 /\ last + 1 \notin {4, 12, 13} /\ last \in 4..12 /\ 3 <= last
    <3>1. last \in 4..10
      BY <1>1
    <3> QED
      BY <3>1, Z3
  <2>1. BootEvents[last + 1] = StageEvent(Stages[last + 1])
    BY <2>0, BootEventsAre, Zenon
  <2>2. c.arg = Stages[last + 1]
    BY <1>4, <1>7, Fields
  <2>3. With(SubSeq(BootEvents, 4, last), BootEvents[last + 1]) = SubSeq(BootEvents, 4, last + 1)
    <3>1. \A k \in 0..12 : k <= last =>
            With(SubSeq(BootEvents, k + 1, last), BootEvents[last + 1])
              = SubSeq(BootEvents, k + 1, last + 1)
      BY <2>0, BootLonger
    <3>2. 3 \in 0..12 /\ 3 + 1 = 4
      OBVIOUS
    <3> QED
      BY <2>0, <3>1, <3>2, Zenon
  <2> QED
    BY <1>1, <2>1, <2>2, <2>3, Zenon
<1>10. IF todo' = << >> THEN last + 1 = 11
       ELSE Len(todo') = 1 /\ last + 1 \in 4..10
            /\ todo'[1].cmds = SubSeq(Triggers, (last + 1) - 3, 7)
  <2>1. CASE Len(w) = 1
    <3>1. last + 1 = 11
      BY <1>4, <1>8, <2>1
    <3>2. todo' = << >>
      BY <1>3, <2>1
    <3> QED
      BY <3>1, <3>2
  <2>2. CASE Len(w) # 1
    <3>1. last + 1 \in 4..10 /\ (last + 1) - 3 = m + 1
      BY <1>1, <1>8, <2>2
    <3>2. Len(todo') = 1 /\ todo'[1].cmds = Tail(w)
      BY <1>3, <2>2
    <3>3. todo' # << >>
      BY <3>2
    <3> QED
      BY <1>8, <3>1, <3>2, <3>3
  <2> QED
    BY <2>1, <2>2
<1>11. Position(3, last + 1)'
  BY <1>9, <1>10 DEF Position
<1> QED
  BY <1>1, <1>7, <1>11 DEF m, tr

(* The commands of the boot, by the event that selected them.              *)
LEMMA BootCommands ==
  ASSUME NEW cur \in 0..11, NEW c \in CommandsOn(cur)
  PROVE  \/ cur = 1 /\ c = SetProp("configfs", "1")
         \/ cur \in {2, 11} /\ \E s \in {"selinux-permissive", "load_wlan_driver", "focaltech-tp", "droidspacesd"} : c = Start(s)
         \/ cur = 3 /\ \E s \in BootStages : c = Trigger(s)
         \/ cur = 4 /\ c = QueuePropertyTriggers
         \/ cur = 6 /\ c = MountConfigfs
         \/ cur = 6 /\ \E f \in {"adb", "fastboot"} : c = MakeFunction(f)
         \/ cur = 6 /\ \E f \in {"adb", "fastboot"} : c = MountFunctionfs(f)
         \/ cur = 8 /\ c = SetProp("config", "adb")
         \/ cur = 10 /\ c = SetProp("connsys", "no")
         \/ cur = 11 /\ c = MountNvdata
<1>1. \A i \in 1..7 : \E s \in BootStages : Triggers[i] = Trigger(s)
  <2>1. \A i \in 1..7 : Stages[i + 4] \in BootStages
    BY StagesAre DEF BootStages
  <2> QED
    BY <2>1, TriggersAre
<1> QED
  BY <1>1 DEF CommandsOn

(* They leave the gadget and WiFi asleep.                                  *)
LEMMA AsleepKept ==
  ASSUME Asleep, \A s \in UsbDaemons \cup {"wifi-helper"} : prop'[s] = prop[s] /\ proc'[s] = proc[s],
         dev'.launcher = dev.launcher, dev'.f1 = dev.f1, dev'.udc = dev.udc,
         prop'["connsys"] # "yes"
  PROVE  Asleep'
BY DEF Asleep, Idle

(* Each has its effect, and the effects of the commands before it stay.    *)
LEMMA CommandEffects ==
  ASSUME Types, ~enabled, NEW cur \in 0..11, Effects(cur), Asleep, ExecuteCommand,
         NEW c, c = Current(todo)
  PROVE  /\ Effects(cur)' /\ Asleep' /\ enabled' = enabled /\ cur # 0
         /\ cur \notin {3, 4} => queue' = queue
         /\ cur = 3 => queue' = With(queue, StageEvent(c.arg))
         /\ cur = 4 => queue' = queue \o << Builtin(EnablePropertyTrigger), AllProperties >>
<1>1. /\ todo # << >> /\ c \in Commands /\ todo' = Advanced(todo)
      /\ LeftOf(todo) = LeftOf(todo') \cup {c} /\ Execute(c) /\ todo \in Seq(Rows)
  BY Executed, TypesGive
<1>2. c \in CommandsOn(cur)
  BY <1>1 DEF Effects
<1>3. /\ prop["connsys"] # "yes" /\ dev.f1 = "" /\ ~dev.udc /\ cur \in 0..12
      /\ {"configfs", "config", "connsys"} \subseteq Props /\ DevType(dev)
  <2>1. prop["connsys"] # "yes" /\ dev.f1 = "" /\ ~dev.udc
    BY Zenon DEF Asleep
  <2>2. {"configfs", "config", "connsys"} \subseteq Props /\ cur \in 0..12
    BY DEF Props
  <2> QED
    BY <2>1, <2>2, TypesGive
<1>4. \A s \in UsbDaemons \cup {"wifi-helper"} : s \in Services
  BY UsbDaemonsAre
<1>5. ASSUME dev' = dev,
             \A s \in UsbDaemons \cup {"wifi-helper"} : prop'[s] = prop[s] /\ proc'[s] = proc[s],
             prop'["connsys"] # "yes",
             (prop["configfs"] = "1" \/ c = SetProp("configfs", "1")) => prop'["configfs"] = "1",
             c # SetProp("config", "adb") => prop'["config"] = prop["config"],
             c = SetProp("config", "adb") => prop'["config"] = "adb",
             c.do \notin DeviceCommands
      PROVE  Effects(cur)' /\ Asleep'
  <2>1. Asleep'
    BY <1>5, AsleepKept
  <2>2. c # MountConfigfs /\ \A f : c # MakeFunction(f) /\ c # MountFunctionfs(f)
    BY <1>5, Fields DEF DeviceCommands
  <2>3. Effects(cur)'
    BY <1>1, <1>3, <1>5, <2>2, EffectsAdvanced
  <2> QED
    BY <2>1, <2>3
<1>6. ASSUME c.do \in DeviceCommands, c.do \notin {"symlink_f1", "rm_f1", "write_udc"}
      PROVE  Effects(cur)' /\ Asleep' /\ enabled' = enabled /\ queue' = queue
  <2>1. /\ dev' = DeviceAfter(c)
        /\ queue' = queue /\ enabled' = enabled /\ prop' = prop /\ held' = held /\ proc' = proc
    BY <1>1, <1>6, Devises
  <2>2. /\ dev'.launcher = dev.launcher
        /\ dev'.configfs = (dev.configfs \/ c.do = "mount_configfs")
        /\ dev'.functions = IF c.do = "mkfunction" /\ dev.configfs THEN dev.functions \cup {c.arg}
                            ELSE dev.functions
        /\ dev'.mounted = IF c.do = "mount_ffs" /\ c.arg \in dev.functions
                          THEN dev.mounted \cup {c.arg} ELSE dev.mounted
        /\ dev'.f1 = dev.f1 /\ dev'.udc = dev.udc
    BY <1>1, <1>6, <2>1, DeviceStep
  <2>3. Asleep'
    BY <1>3, <2>1, <2>2, AsleepKept
  <2>4. c # SetProp("config", "adb") /\ c # SetProp("configfs", "1")
    BY <1>6, Fields DEF DeviceCommands
  <2>5. /\ dev.configfs \/ c = MountConfigfs => dev'.configfs
        /\ \A f \in {"adb", "fastboot"} :
           /\ f \in dev.functions \/ (c = MakeFunction(f) /\ dev.configfs) => f \in dev'.functions
           /\ f \in dev.mounted \/ (c = MountFunctionfs(f) /\ f \in dev.functions) => f \in dev'.mounted
    <3>1. dev.configfs \/ c = MountConfigfs => dev'.configfs
      BY <2>2, Fields, Zenon
    <3>2. ASSUME NEW f, f \in dev.functions \/ (c = MakeFunction(f) /\ dev.configfs)
          PROVE  f \in dev'.functions
      <4>1. c = MakeFunction(f) => c.do = "mkfunction" /\ c.arg = f
        BY Fields
      <4>2. dev'.functions = IF c.do = "mkfunction" /\ dev.configfs THEN dev.functions \cup {c.arg}
                            ELSE dev.functions
        BY <2>2
      <4> QED
        BY <3>2, <4>1, <4>2
    <3>3. ASSUME NEW f, f \in dev.mounted \/ (c = MountFunctionfs(f) /\ f \in dev.functions)
          PROVE  f \in dev'.mounted
      <4>1. c = MountFunctionfs(f) => c.do = "mount_ffs" /\ c.arg = f
        BY Fields
      <4>2. dev'.mounted = IF c.do = "mount_ffs" /\ c.arg \in dev.functions
                          THEN dev.mounted \cup {c.arg} ELSE dev.mounted
        BY <2>2
      <4> QED
        BY <3>3, <4>1, <4>2
    <3> QED
      BY <3>1, <3>2, <3>3
  <2>6. Effects(cur)'
    BY <1>1, <1>3, <2>1, <2>4, <2>5, EffectsAdvanced
  <2> QED
    BY <2>1, <2>3, <2>6
<1>7. ASSUME NEW n, NEW v, c = SetProp(n, v), n \in {"configfs", "config", "connsys"},
             n = "configfs" => v = "1", n = "config" => v = "adb", n = "connsys" => v = "no"
      PROVE  Effects(cur)' /\ Asleep' /\ enabled' = enabled /\ queue' = queue
  <2>1. c.do = "setprop" /\ c.arg = n /\ c.val = v
    BY <1>7, Fields
  <2>2. /\ prop'[n] = v
        /\ \A x \in (Props \cup Services) \ {n} : prop'[x] = prop[x]
        /\ queue' = queue
        /\ enabled' = enabled /\ proc' = proc /\ dev' = dev
    BY <1>1, <2>1, SetsProp
  <2>3. \A s \in UsbDaemons \cup {"wifi-helper"} : prop'[s] = prop[s] /\ proc'[s] = proc[s]
    <3>1. n \notin Services
      BY <1>7 DEF Services, Oneshots, InitOneshots, WlanOneshots, TouchOneshots,
         ContainerOneshots, ContainerDaemons, UsbDaemons, Daemons
    <3> QED
      BY <1>4, <2>2, <3>1
  <2>4. /\ prop'["connsys"] # "yes"
        /\ (prop["configfs"] = "1" \/ c = SetProp("configfs", "1")) => prop'["configfs"] = "1"
        /\ c # SetProp("config", "adb") => prop'["config"] = prop["config"]
        /\ c = SetProp("config", "adb") => prop'["config"] = "adb"
    <3>1. /\ c = SetProp("configfs", "1") => n = "configfs"
          /\ c = SetProp("config", "adb") => n = "config"
      BY <2>1, Fields
    <3>2. \A x \in {"configfs", "config", "connsys"} : x # n => prop'[x] = prop[x]
      BY <1>3, <2>2
    <3>3. CASE n = "configfs"
      BY <1>3, <1>7, <2>2, <3>1, <3>2, <3>3
    <3>4. CASE n = "config"
      <4>1. c = SetProp("config", "adb")
        BY <1>7, <3>4
      <4> QED
        BY <1>3, <1>7, <2>2, <3>1, <3>2, <3>4, <4>1
    <3>5. CASE n = "connsys"
      BY <1>3, <1>7, <2>2, <3>1, <3>2, <3>5
    <3> QED
      BY <1>7, <3>3, <3>4, <3>5
  <2>5. c.do \notin DeviceCommands
    BY <2>1 DEF DeviceCommands
  <2> QED
    BY <1>5, <2>2, <2>3, <2>4, <2>5
<1>8. ASSUME NEW s \in {"selinux-permissive", "load_wlan_driver", "focaltech-tp", "droidspacesd"},
             c = Start(s)
      PROVE  Effects(cur)' /\ Asleep' /\ enabled' = enabled /\ queue' = queue
  <2>1. c.do = "start" /\ c.arg = s
    BY <1>8, Fields
  <2>2. s \in Services /\ DoStart(s) /\ enabled' = enabled
    BY <1>1, <2>1, Starts
  <2>3. Frame(s) /\ dev' = dev
    BY <2>2, Started
  <2>4. queue' = queue
    BY <2>3 DEF Frame, Grows, Longer
  <2>5. \A x \in UsbDaemons \cup {"wifi-helper"} : x # s /\ x \in Services
    BY <1>4 DEF UsbDaemons
  <2>6. \A x \in UsbDaemons \cup {"wifi-helper"} : prop'[x] = prop[x] /\ proc'[x] = proc[x]
    BY <2>3, <2>5 DEF Frame
  <2>7. /\ prop'["connsys"] = prop["connsys"] /\ prop'["configfs"] = prop["configfs"]
        /\ prop'["config"] = prop["config"]
    <3>1. s \notin Props
      BY <2>2, NamesAre
    <3> QED
      BY <1>3, <2>3, <3>1 DEF Frame
  <2>8. c # SetProp("config", "adb") /\ c # SetProp("configfs", "1") /\ c.do \notin DeviceCommands
    BY <2>1, Fields DEF DeviceCommands
  <2>9. Effects(cur)' /\ Asleep'
    BY <1>3, <1>5, <2>3, <2>6, <2>7, <2>8
  <2> QED
    BY <2>2, <2>4, <2>9
<1>9. ASSUME NEW st \in BootStages, c = Trigger(st)
      PROVE  /\ Effects(cur)' /\ Asleep' /\ enabled' = enabled
             /\ queue' = With(queue, StageEvent(c.arg))
  <2>1. c.do = "trigger"
    BY <1>9, Fields
  <2>2. /\ queue' = With(queue, StageEvent(c.arg))
        /\ enabled' = enabled /\ prop' = prop /\ held' = held /\ proc' = proc /\ dev' = dev
    BY <1>1, <2>1, TriggersStage
  <2>3. c # SetProp("config", "adb") /\ c # SetProp("configfs", "1") /\ c.do \notin DeviceCommands
    BY <2>1, Fields DEF DeviceCommands
  <2> QED
    BY <1>3, <1>5, <2>2, <2>3
<1>10. ASSUME c = QueuePropertyTriggers
       PROVE  /\ Effects(cur)' /\ Asleep' /\ enabled' = enabled
              /\ queue' = queue \o << Builtin(EnablePropertyTrigger), AllProperties >>
  <2>1. c.do = "queue_property_triggers"
    BY <1>10, Fields
  <2>2. /\ queue' = queue \o << Builtin(EnablePropertyTrigger), AllProperties >>
        /\ enabled' = enabled /\ prop' = prop /\ held' = held /\ proc' = proc /\ dev' = dev
    BY <1>1, <2>1, QueuesTriggers
  <2>3. c # SetProp("config", "adb") /\ c # SetProp("configfs", "1") /\ c.do \notin DeviceCommands
    BY <2>1, Fields DEF DeviceCommands
  <2> QED
    BY <1>3, <1>5, <2>2, <2>3
<1>11. CASE cur = 1 /\ c = SetProp("configfs", "1")
  BY <1>7, <1>11
<1>12. CASE cur \in {2, 11} /\ \E s \in {"selinux-permissive", "load_wlan_driver", "focaltech-tp", "droidspacesd"} : c = Start(s)
  BY <1>8, <1>12
<1>13. CASE cur = 3 /\ \E s \in BootStages : c = Trigger(s)
  BY <1>9, <1>13
<1>14. CASE cur = 4 /\ c = QueuePropertyTriggers
  BY <1>10, <1>14
<1>15. CASE (cur = 6 /\ c = MountConfigfs) \/ (cur = 11 /\ c = MountNvdata)
            \/ (cur = 6 /\ \E f \in {"adb", "fastboot"} : c = MakeFunction(f))
            \/ (cur = 6 /\ \E f \in {"adb", "fastboot"} : c = MountFunctionfs(f))
  <2>1. c.do \in DeviceCommands /\ c.do \notin {"symlink_f1", "rm_f1", "write_udc"}
    BY <1>15, Fields DEF DeviceCommands
  <2> QED
    BY <1>6, <1>15, <2>1
<1>16. CASE cur = 8 /\ c = SetProp("config", "adb")
  BY <1>7, <1>16
<1>17. CASE cur = 10 /\ c = SetProp("connsys", "no")
  BY <1>7, <1>17
<1> QED
  BY <1>2, <1>11, <1>12, <1>13, <1>14, <1>15, <1>16, <1>17, BootCommands

(* The last action that is executed has one command.                       *)
LEMMA LastOne ==
  ASSUME todo \in Seq(Rows), Len(todo) = 1, Len(todo[1].cmds) = 1
  PROVE  Advanced(todo) = << >> /\ todo # << >>
<1>1. todo # << >>
  OBVIOUS
<1> DEFINE a == Advanced(todo)
           k == Len(todo)
           l == Len(todo[1].cmds)
<1>2. /\ a \in Seq(Rows)
      /\ (l = 1 /\ Len(a) = k - 1) \/ l > 1
  BY <1>1, Advancing
<1>3. k = 1 /\ l = 1
  OBVIOUS
<1> HIDE DEF a, k, l
<1>4. Len(a) = 0
  BY <1>2, <1>3
<1>5. a = << >>
  BY <1>2, <1>4
<1> QED
  BY <1>1, <1>5 DEF a

(* The two commands of init that queue events.                             *)
LEMMA PositionQueued ==
  ASSUME Types, NEW last, Position(4, last), todo # << >>, todo' = Advanced(todo),
         queue' = queue \o << Builtin(EnablePropertyTrigger), AllProperties >>
  PROVE  Position(4, 13)'
<1>1. queue = SubSeq(BootEvents, 5, 11) /\ Len(todo) = 1 /\ Len(todo[1].cmds) = 1
  BY DEF Position
<1>2. todo' = << >>
  BY <1>1, LastOne, TypesGive
<1> DEFINE e == Builtin(EnablePropertyTrigger)
           a == AllProperties
<1>3. e \in Events /\ a \in Events /\ e = BootEvents[12] /\ a = BootEvents[13]
  <2>1. BootEvents \in Seq(Events) /\ Len(BootEvents) = 13
        /\ BootEvents[12] = e /\ BootEvents[13] = a
    BY BootEventsAre
  <2>2. 12 \in 1..Len(BootEvents) /\ 13 \in 1..Len(BootEvents)
    BY <2>1
  <2> QED
    BY <2>1, <2>2, ElementOfSeq
<1>4. queue \in Seq(Events)
  BY TypesGive
<1>5. queue' = With(With(queue, e), a)
  <2>1. queue' = queue \o << e, a >>
    OBVIOUS
  <2> HIDE DEF e, a
  <2>2. queue \o << e, a >> = (queue \o << e >>) \o << a >>
    BY <1>3, <1>4
  <2> QED
    BY <2>1, <2>2 DEF With
<1>6. With(queue, e) = SubSeq(BootEvents, 5, 12)
  <2>1. \A k \in 0..12, n \in 4..12 : k <= n =>
          With(SubSeq(BootEvents, k + 1, n), BootEvents[n + 1]) = SubSeq(BootEvents, k + 1, n + 1)
    BY BootLonger
  <2>2. 4 \in 0..12 /\ 11 \in 4..12 /\ 4 <= 11 /\ 4 + 1 = 5 /\ 11 + 1 = 12
    OBVIOUS
  <2>3. With(SubSeq(BootEvents, 5, 11), BootEvents[12]) = SubSeq(BootEvents, 5, 12)
    BY <2>1, <2>2, Zenon
  <2> QED
    BY <1>1, <1>3, <2>3, Zenon
<1>7. With(With(queue, e), a) = SubSeq(BootEvents, 5, 13)
  <2>1. \A k \in 0..12, n \in 4..12 : k <= n =>
          With(SubSeq(BootEvents, k + 1, n), BootEvents[n + 1]) = SubSeq(BootEvents, k + 1, n + 1)
    BY BootLonger
  <2>2. 4 \in 0..12 /\ 12 \in 4..12 /\ 4 <= 12 /\ 4 + 1 = 5 /\ 12 + 1 = 13
    OBVIOUS
  <2>3. With(SubSeq(BootEvents, 5, 12), BootEvents[13]) = SubSeq(BootEvents, 5, 13)
    BY <2>1, <2>2, Zenon
  <2> QED
    BY <1>3, <1>6, <2>3, Zenon
<1>8. queue' = SubSeq(BootEvents, 5, 13)
  BY <1>5, <1>7, Zenon
<1> QED
  BY <1>2, <1>8 DEF Position

(* The property triggers are enabled.                                      *)
LEMMA Enabling ==
  ASSUME Types, NEW last \in 4..13, Position(12, last), Effects(12), ExecuteCommand
  PROVE  /\ todo' = << >> /\ queue' = << AllProperties >> /\ enabled' = TRUE
         /\ prop' = prop /\ held' = held /\ proc' = proc /\ dev' = dev
         /\ prop["configfs"] = "1" /\ prop["config"] = "adb"
         /\ Usb => {"adb", "fastboot"} \subseteq dev.mounted
<1> DEFINE c == Current(todo)
<1>1. /\ todo # << >> /\ c \in Commands /\ todo' = Advanced(todo)
      /\ LeftOf(todo) = LeftOf(todo') \cup {c} /\ Execute(c) /\ todo \in Seq(Rows)
  BY Executed, TypesGive
<1> HIDE DEF c
<1>2. LeftOf(todo) \subseteq {EnablePropertyTrigger}
  BY CommandsOnAre, Zenon DEF Effects
<1>3. c = EnablePropertyTrigger /\ c.do = "enable_property_trigger"
  <2>1. c \in LeftOf(todo)
    BY <1>1
  <2>2. c = EnablePropertyTrigger
    BY <1>2, <2>1
  <2> QED
    BY <2>2, Fields
<1>4. enabled' = TRUE /\ queue' = queue /\ prop' = prop /\ held' = held /\ proc' = proc /\ dev' = dev
  BY <1>1, <1>3, Enables
<1>5. todo' = << >>
  <2>1. Len(todo) = 1 /\ Len(todo[1].cmds) = 1
    BY DEF Position
  <2> QED
    BY <1>1, <2>1, LastOne
<1>6. queue = << AllProperties >>
  <2>1. queue = SubSeq(BootEvents, 13, 13)
    BY DEF Position
  <2> DEFINE b == BootEvents
  <2>2. b \in Seq(Events) /\ Len(b) = 13 /\ b[13] = AllProperties /\ queue = SubSeq(b, 13, 13)
    BY <2>1, BootEventsAre
  <2> HIDE DEF b
  <2>3. 13 \in 1..Len(b) /\ 13 \in 13..Len(b)
    BY <2>2
  <2>4. queue = << b[13] >> \o SubSeq(b, 14, 13)
    <3>1. SubSeq(b, 13, 13) = << b[13] >> \o SubSeq(b, 13 + 1, 13)
      BY <2>2, <2>3, SubSeqRecursiveFirst
    <3> QED
      BY <2>2, <3>1
  <2>5. SubSeq(b, 14, 13) = << >>
    BY SubSeqEmpty
  <2>6. b[13] \in Events
    BY <2>2, <2>3, ElementOfSeq
  <2> DEFINE x == b[13]
  <2> HIDE DEF x
  <2>7. << x >> \in Seq(Events) /\ x = b[13]
    BY <2>6 DEF x
  <2>8. << x >> \o << >> = << x >>
    BY <2>7, ConcatEmptySeq
  <2> QED
    BY <2>2, <2>4, <2>5, <2>7, <2>8
<1>7. /\ prop["configfs"] = "1" \/ SetProp("configfs", "1") \in LeftOf(todo)
      /\ prop["config"] = "adb" \/ SetProp("config", "adb") \in LeftOf(todo)
      /\ Usb => \A f \in {"adb", "fastboot"} : f \in dev.mounted \/ MountFunctionfs(f) \in LeftOf(todo)
  <2>1. 12 >= 1 /\ 12 >= 8 /\ 12 >= 6
    OBVIOUS
  <2> QED
    BY <2>1, Zenon DEF Effects
<1>8. \A f : SetProp("configfs", "1") \notin LeftOf(todo) /\ SetProp("config", "adb") \notin LeftOf(todo)
             /\ MountFunctionfs(f) \notin LeftOf(todo)
  BY <1>2, Fields
<1> QED
  BY <1>4, <1>5, <1>6, <1>7, <1>8

(* A command of the boot leads on in it, or to the property triggers.      *)
LEMMA BootExecuted ==
  ASSUME Types, ~enabled, NEW cur \in 0..12, NEW last \in 4..13, Position(cur, last), Effects(cur),
         Asleep, ExecuteCommand, cur # 12
  PROVE  enabled' = enabled /\ BootInv'
<1> DEFINE c == Current(todo)
<1>1. todo # << >> /\ todo' = Advanced(todo)
  BY Executed
<1>2. cur \in 0..11
  OBVIOUS
<1>3. /\ Effects(cur)' /\ Asleep' /\ enabled' = enabled /\ cur # 0
      /\ cur \notin {3, 4} => queue' = queue
      /\ cur = 3 => queue' = With(queue, StageEvent(c.arg))
      /\ cur = 4 => queue' = queue \o << Builtin(EnablePropertyTrigger), AllProperties >>
  BY <1>2, CommandEffects
<1> HIDE DEF c
<1>4. \E l \in 4..13 : Position(cur, l)'
  <2>1. CASE cur = 3
    <3>1. Position(3, last) /\ queue' = With(queue, StageEvent(c.arg)) /\ c = Current(todo)
      BY <1>3, <2>1 DEF c
    <3>2. last + 1 \in 4..13 /\ Position(3, last + 1)'
      BY <1>1, <3>1, PositionTriggered
    <3> QED
      BY <2>1, <3>2
  <2>2. CASE cur = 4
    <3>1. /\ Position(4, last)
          /\ queue' = queue \o << Builtin(EnablePropertyTrigger), AllProperties >>
      BY <1>3, <2>2
    <3>2. Position(4, 13)'
      BY <1>1, <3>1, PositionQueued
    <3> QED
      BY <2>2, <3>2
  <2>3. CASE cur \notin {3, 4}
    <3>1. cur \in (1..12) \ {3, 4, 12} /\ queue' = queue
      BY <1>2, <1>3, <2>3
    <3>2. Position(cur, last)'
      BY <3>1, PositionKept
    <3> QED
      BY <3>2
  <2> QED
    BY <2>1, <2>2, <2>3
<1> QED
  BY <1>3, <1>4 DEF BootInv

(* Everything else leaves the boot alone.                                  *)
LEMMA BootKept ==
  ASSUME Types, BootInv, queue' = queue, todo' = todo,
         \A x \in Props \cup UsbDaemons \cup {"wifi-helper"} : prop'[x] = prop[x],
         \A x \in UsbDaemons \cup {"wifi-helper"} : proc'[x] = proc[x],
         SameGadget(dev', dev), dev'.launcher = dev.launcher
  PROVE  BootInv'
<1>1. "connsys" \in Props /\ "configfs" \in Props /\ "config" \in Props
  BY DEF Props
<1>2. Asleep'
  BY <1>1, AsleepKept DEF BootInv, SameGadget, Asleep
<1>3. ASSUME NEW cur \in 0..12, NEW last \in 4..13, Position(cur, last), Effects(cur)
      PROVE  Position(cur, last)' /\ Effects(cur)'
  <2>1. Position(cur, last)'
    BY <1>3 DEF Position
  <2>2. Effects(cur)'
    BY <1>1, <1>3 DEF Effects, SameGadget
  <2> QED
    BY <2>1, <2>2
<1> QED
  BY <1>2, <1>3 DEF BootInv

(* The step that enables the property triggers, and what the boot has      *)
(* made.                                                                   *)
JustEnabled ==
  /\ todo' = << >> /\ queue' = << AllProperties >> /\ enabled' = TRUE
  /\ prop' = prop /\ held' = held /\ proc' = proc /\ dev' = dev
  /\ prop["configfs"] = "1" /\ prop["config"] = "adb"
  /\ Usb => {"adb", "fastboot"} \subseteq dev.mounted

(* No event of a property is queued during the boot.                       *)
LEMMA NotEnabledSame ==
  ASSUME ~enabled, Grows
  PROVE  queue' = queue
BY DEF Grows, Longer

(* Every step of the boot stays in it, or enables the property triggers.   *)
LEMMA BootStep ==
  ASSUME Types, ~enabled, BootInv, Next
  PROVE  /\ TakeEvent => Selected(Head(queue)) \in Seq(Rows)
         /\ (~enabled' /\ BootInv') \/ JustEnabled
<1>1. /\ \A s \in UsbDaemons \cup {"wifi-helper"} :
            prop[s] \in {"", "stopped"} /\ proc[s] = "none"
      /\ ~dev.launcher /\ prop["connsys"] # "yes"
      /\ dev.f1 = "" /\ ~dev.udc
  BY DEF BootInv, Asleep, Idle
<1>2. PICK cur \in 0..12, last \in 4..13 : Position(cur, last) /\ Effects(cur)
  BY DEF BootInv
<1>3. Asleep
  BY DEF BootInv
<1>4. CASE TakeEvent
  <2>1. /\ Selected(Head(queue)) \in Seq(Rows) /\ cur + 1 \in 0..12
        /\ Position(cur + 1, last)' /\ Effects(cur + 1)'
    BY <1>2, <1>4, BootTaken
  <2>2. enabled' = enabled /\ prop' = prop /\ proc' = proc /\ dev' = dev
    BY <1>4 DEF TakeEvent
  <2>3. Asleep'
    BY <1>1, <1>3, <2>2, AsleepKept
  <2> QED
    BY <2>1, <2>2, <2>3 DEF BootInv
<1>5. CASE ExecuteCommand
  <2>1. CASE cur = 12
    <3>1. Position(12, last) /\ Effects(12)
      BY <1>2, <2>1
    <3>2. JustEnabled
      BY <1>5, <3>1, Enabling DEF JustEnabled
    <3> QED
      BY <1>5, <3>2 DEF ExecuteCommand, TakeEvent
  <2>2. CASE cur # 12
    BY <1>2, <1>3, <1>5, <2>2, BootExecuted DEF ExecuteCommand, TakeEvent
  <2> QED
    BY <2>1, <2>2
<1>6. ASSUME NEW s \in Services \ UsbDaemons, Aside(s)
      PROVE  ~enabled' /\ BootInv'
  <2>1. /\ Frame(s) /\ todo' = todo /\ enabled' = enabled
        /\ SameGadget(dev', dev)
        /\ s # "wifi-helper" => dev'.launcher = dev.launcher
    BY <1>6 DEF Aside
  <2>2. s # "wifi-helper"
    BY <1>1, <1>6 DEF Aside
  <2>3. queue' = queue
    BY <2>1, NotEnabledSame DEF Frame
  <2>4. s \notin Props /\ \A x \in UsbDaemons \cup {"wifi-helper"} : x \in Services
    BY NamesAre, UsbDaemonsAre
  <2>5. /\ \A x \in Props \cup UsbDaemons \cup {"wifi-helper"} : prop'[x] = prop[x]
        /\ \A x \in UsbDaemons \cup {"wifi-helper"} : proc'[x] = proc[x]
    BY <2>1, <2>2, <2>4 DEF Frame
  <2>6. BootInv'
    BY <2>1, <2>2, <2>3, <2>5, BootKept DEF Aside
  <2> QED
    BY <2>1, <2>6
<1>7. ASSUME NEW s \in UsbDaemons,
             Reap(s) \/ RestartTimer(s) \/ OpenEndpoints(s) \/ ReportReady(s) \/ Die(s)
      PROVE  FALSE
  <2>1. s \in Services
    BY UsbDaemonsAre
  <2>2. \/ proc[s] \in {"dead", "begun", "open"} \/ prop[s] \in {"restarting", "running"}
    BY <1>7 DEF Reap, RestartTimer, OpenEndpoints, Proceed, ReportReady, Die
  <2> QED
    BY <1>1, <2>2
<1>8. ~LauncherReady
  BY <1>1 DEF LauncherReady
<1>9. \A mode : ~Switch(mode)
  BY DEF Switch
<1>10. ASSUME ~TakeEvent, ~ExecuteCommand
       PROVE  ~enabled' /\ BootInv'
  BY <1>6, <1>7, <1>8, <1>9, <1>10, Steps
<1> QED
  BY <1>4, <1>5, <1>10

-----------------------------------------------------------------------------
(* After the boot: the commands that may be left.                          *)
LEMMA SteadyCommandIs ==
  ASSUME NEW c \in SteadyCommands
  PROVE  \/ c \in {UnbindUdc, Stop("adbd"), Stop("fastbootd"), SetProp("ffs.ready", "0"), Unlink,
                   CopyProp("state", "config")}
         \/ \E m \in Modes \ {"none"} : c \in {IdProduct(m), Link(m)}
         \/ c \in {BindUdc, Start("wifi-helper"), Start("ubuntu-droidspaces"), Restart("adbd"),
                   Start("adbd"), Start("fastbootd")}
BY DEF SteadyCommands, CommandsFor, Others, ComposeCommands, StartsOf, DecomposeCommands

(* None of them triggers a stage or sets sys.usb.config.                   *)
LEMMA SteadyVerbs ==
  ASSUME NEW c \in SteadyCommands
  PROVE  \/ c.do = "setprop" /\ c.arg = "ffs.ready" /\ c.val = "0"
         \/ c.do = "copyprop"
         \/ c.do = "stop"
         \/ c.do = "start"
         \/ c.do = "restart"
         \/ c.do \in {"id_product", "symlink_f1", "rm_f1", "write_udc"} /\ c.do \in DeviceCommands
BY SteadyCommandIs, Fields DEF DeviceCommands

(* So they leave the mode, WiFi and functionfs as they are.                *)
LEMMA SteadyExecuted ==
  ASSUME Types, enabled, LeftOf(todo) \subseteq SteadyCommands, ExecuteCommand
  PROVE  /\ enabled' = enabled /\ Grows /\ queue' \in Seq(Events)
         /\ prop'["config"] = prop["config"] /\ prop'["configfs"] = prop["configfs"]
         /\ prop'["connsys"] = prop["connsys"]
         /\ dev'.mounted = dev.mounted
<1> DEFINE c == Current(todo)
<1>1. c \in Commands /\ Execute(c) /\ c \in LeftOf(todo) /\ c \in SteadyCommands
  BY Executed
<1> HIDE DEF c
<1>2. /\ "config" \in Props /\ "configfs" \in Props /\ "connsys" \in Props
      /\ queue \in Seq(Events) /\ DevType(dev)
  BY TypesGive DEF Props
<1>3. queue' = queue => Grows
  BY DEF Grows, Longer
<1>4. CASE c.do = "setprop" /\ c.arg = "ffs.ready" /\ c.val = "0"
  <2>1. /\ \A x \in (Props \cup Services) \ {"ffs.ready"} : prop'[x] = prop[x]
        /\ queue' \in Seq(Events) /\ Grows /\ enabled' = enabled /\ dev' = dev
    BY <1>1, <1>4, SetsProp
  <2> QED
    BY <1>2, <2>1
<1>5. CASE c.do = "copyprop"
  <2>1. /\ \A x \in (Props \cup Services) \ {"state"} : prop'[x] = prop[x]
        /\ queue' = queue /\ enabled' = enabled /\ dev' = dev
    BY <1>1, <1>5, CopiesProp
  <2> QED
    BY <1>2, <1>3, <2>1
<1>6. ASSUME NEW s \in Services, Frame(s)
      PROVE  /\ Grows /\ queue' \in Seq(Events)
             /\ prop'["config"] = prop["config"] /\ prop'["configfs"] = prop["configfs"]
             /\ prop'["connsys"] = prop["connsys"]
  <2>1. s \notin Props
    BY NamesAre
  <2> QED
    BY <1>2, <1>6, <2>1 DEF Frame
<1>7. CASE c.do = "start"
  <2>1. c.arg \in Services /\ DoStart(c.arg) /\ enabled' = enabled
    BY <1>1, <1>7, Starts
  <2>2. Frame(c.arg) /\ dev' = dev
    BY <2>1, Started
  <2> QED
    BY <1>6, <2>1, <2>2
<1>8. CASE c.do = "stop"
  <2>1. c.arg \in Services /\ DoStop(c.arg) /\ enabled' = enabled
    BY <1>1, <1>8, Stops
  <2>2. Frame(c.arg) /\ (dev' = dev \/ dev' = WithoutEndpoints(c.arg))
    BY <2>1, Stopped
  <2> QED
    BY <1>6, <2>1, <2>2, ClosedStep
<1>9. CASE c.do = "restart"
  <2>1. c.arg \in Services /\ DoRestart(c.arg) /\ enabled' = enabled
    BY <1>1, <1>9, Restarts
  <2>2. Frame(c.arg) /\ (dev' = dev \/ dev' = WithoutEndpoints(c.arg))
    BY <2>1, Restarted
  <2> QED
    BY <1>6, <2>1, <2>2, ClosedStep
<1>10. CASE c.do \in {"id_product", "symlink_f1", "rm_f1", "write_udc"} /\ c.do \in DeviceCommands
  <2>1. /\ dev' = DeviceAfter(c)
        /\ queue' = queue /\ enabled' = enabled /\ prop' = prop
    BY <1>1, <1>10, Devises
  <2>2. dev'.mounted = dev.mounted
    BY <1>1, <1>10, <2>1, DeviceStep
  <2> QED
    BY <1>2, <1>3, <2>1, <2>2
<1> QED
  BY <1>1, <1>4, <1>5, <1>7, <1>8, <1>9, <1>10, SteadyVerbs

(* An event is appended.                                                   *)
LEMMA AppendedAll ==
  \A q \in Seq(Events), e \in Events : \A r : r = With(q, e) => HasAppended(r, q, e)
<1> SUFFICES ASSUME NEW q \in Seq(Events), NEW e \in Events, NEW r, r = With(q, e)
             PROVE  HasAppended(r, q, e)
  OBVIOUS
<1> QED
  BY Appended

(* The queue grows, or loses its first event.                              *)
LEMMA QueuedMore ==
  ASSUME Types, Grows
  PROVE  /\ queue' \in Seq(Events) /\ Elems(queue) \subseteq Elems(queue')
         /\ Len(queue) \in Nat
         /\ \/ queue' = queue
            \/ /\ enabled /\ Len(queue') = Len(queue) + 1
               /\ \A i \in 1..Len(queue) : queue'[i] = queue[i]
               /\ queue'[Len(queue) + 1].kind = "prop"
               /\ queue'[Len(queue) + 1].name \in Announced
<1>1. queue \in Seq(Events) /\ Len(queue) \in Nat
  BY TypesGive
<1>2. CASE queue' = queue
  BY <1>1, <1>2
<1>3. ASSUME enabled, NEW e \in Events, e.kind = "prop", e.name \in Announced, queue' = With(queue, e)
      PROVE  /\ queue' \in Seq(Events) /\ Elems(queue) \subseteq Elems(queue')
             /\ Len(queue') = Len(queue) + 1
             /\ \A i \in 1..Len(queue) : queue'[i] = queue[i]
             /\ queue'[Len(queue) + 1] = e
  <2>1. HasAppended(queue', queue, e)
    BY <1>1, <1>3, AppendedAll, Zenon
  <2>2. /\ queue' \in Seq(Events) /\ Len(queue') = Len(queue) + 1
        /\ queue'[Len(queue) + 1] = e /\ \A i \in 1..Len(queue) : queue'[i] = queue[i]
        /\ Elems(queue') = Elems(queue) \cup {e}
    BY <2>1 DEF HasAppended
  <2> QED
    BY <2>2
<1> QED
  BY <1>1, <1>2, <1>3 DEF Grows, Longer

(* The events stay those of properties, the first one perhaps that of all. *)
LEMMA EventsKept ==
  ASSUME Types, EventsInv, Grows, prop'["config"] = prop["config"]
  PROVE  EventsInv' /\ (NoneQueued => NoneQueued')
<1>1. /\ queue' \in Seq(Events) /\ Elems(queue) \subseteq Elems(queue')
      /\ Len(queue) \in Nat
      /\ \/ queue' = queue
         \/ /\ Len(queue') = Len(queue) + 1
            /\ \A i \in 1..Len(queue) : queue'[i] = queue[i]
            /\ queue'[Len(queue) + 1].kind = "prop"
            /\ queue'[Len(queue) + 1].name \in Announced
  BY QueuedMore
<1>2. NoneQueued => NoneQueued'
  BY <1>1 DEF NoneQueued, Queued
<1>3. \A i \in 1..Len(queue) :
        \/ queue[i].kind = "all" /\ i = 1 /\ (prop["config"] = "adb" \/ (Usb => NoneQueued))
        \/ queue[i].kind = "prop" /\ queue[i].name \in {"config", "ffs.ready"} \cup Services
  BY DEF EventsInv
<1>4. \A i \in 1..Len(queue') :
        \/ queue'[i].kind = "all" /\ i = 1 /\ (prop'["config"] = "adb" \/ (Usb => NoneQueued'))
        \/ queue'[i].kind = "prop" /\ queue'[i].name \in {"config", "ffs.ready"} \cup Services
  <2>1. CASE queue' = queue
    BY <1>2, <1>3, <2>1
  <2>2. CASE Len(queue') = Len(queue) + 1
            /\ (\A i \in 1..Len(queue) : queue'[i] = queue[i])
            /\ queue'[Len(queue) + 1].kind = "prop"
            /\ queue'[Len(queue) + 1].name \in Announced
    <3> SUFFICES ASSUME NEW i \in 1..Len(queue')
                 PROVE  \/ queue'[i].kind = "all" /\ i = 1
                           /\ (prop'["config"] = "adb" \/ (Usb => NoneQueued'))
                        \/ /\ queue'[i].kind = "prop"
                           /\ queue'[i].name \in {"config", "ffs.ready"} \cup Services
      OBVIOUS
    <3>1. i \in 1..Len(queue) \/ i = Len(queue) + 1
      BY <1>1, <2>2
    <3>2. CASE i \in 1..Len(queue)
      <4>1. queue'[i] = queue[i]
        BY <2>2, <3>2
      <4> QED
        BY <1>2, <1>3, <3>2, <4>1, Zenon
    <3>3. CASE i = Len(queue) + 1
      BY <2>2, <3>3 DEF Announced
    <3> QED
      BY <3>1, <3>2, <3>3
  <2> QED
    BY <1>1, <2>1, <2>2
<1> QED
  BY <1>2, <1>4 DEF EventsInv

(* The next event is taken off the queue.                                  *)
LEMMA QueuedNext ==
  ASSUME Types, TakeEvent
  PROVE  /\ Head(queue) = queue[1] /\ 1 \in 1..Len(queue) /\ Len(queue') = Len(queue) - 1
         /\ queue' \in Seq(Events) /\ Len(queue) \in Nat \ {0}
         /\ \A i \in 1..(Len(queue) - 1) : queue'[i] = queue[i + 1]
         /\ Elems(queue) = {Head(queue)} \cup Elems(queue')
         /\ todo = << >> /\ todo' = Selected(Head(queue))
         /\ prop' = prop /\ proc' = proc /\ dev' = dev /\ held' = held /\ enabled' = enabled
<1>1. /\ queue # << >> /\ queue' = Tail(queue) /\ queue \in Seq(Events)
      /\ todo = << >> /\ todo' = Selected(Head(queue))
      /\ prop' = prop /\ proc' = proc /\ dev' = dev /\ held' = held /\ enabled' = enabled
  BY TypesGive DEF TakeEvent
<1>2. /\ Head(queue) = queue[1] /\ Tail(queue) \in Seq(Events)
      /\ Len(Tail(queue)) = Len(queue) - 1 /\ Len(queue) \in Nat \ {0}
      /\ \A i \in 1..(Len(queue) - 1) : Tail(queue)[i] = queue[i + 1]
      /\ Elems(queue) = {Head(queue)} \cup Elems(Tail(queue))
  BY <1>1, ElemsTail
<1>3. 1 \in 1..Len(queue)
  BY <1>2
<1> QED
  BY <1>1, <1>2, <1>3

(* What an event selects after the boot.                                   *)
LEMMA SteadyTaken ==
  ASSUME Types, SteadyInv, TakeEvent
  PROVE  /\ Selected(Head(queue)) \in Seq(Rows) /\ SteadyInv'
<1> DEFINE e == Head(queue)
           t == Selected(e)
<1>1. /\ e = queue[1] /\ 1 \in 1..Len(queue) /\ Len(queue') = Len(queue) - 1
      /\ Len(queue) \in Nat \ {0}
      /\ \A i \in 1..(Len(queue) - 1) : queue'[i] = queue[i + 1]
      /\ todo = << >> /\ todo' = t
      /\ prop' = prop /\ proc' = proc /\ dev' = dev /\ held' = held /\ enabled' = enabled
  BY QueuedNext
<1>2. \A i \in 1..Len(queue) :
        \/ queue[i].kind = "all" /\ i = 1 /\ (prop["config"] = "adb" \/ (Usb => NoneQueued))
        \/ queue[i].kind = "prop" /\ queue[i].name \in {"config", "ffs.ready"} \cup Services
  BY DEF SteadyInv, EventsInv
<1>3. /\ prop["configfs"] = "1" /\ prop["config"] \in Modes
      /\ UsbMounted
  BY DEF SteadyInv
<1>4. \/ e.kind = "all"
      \/ e.kind = "prop" /\ e.name = "config"
      \/ e.kind = "prop" /\ e.name = "ffs.ready"
      \/ e.kind = "prop" /\ e.name \in Services
  BY <1>1, <1>2
<1> HIDE DEF t, e
<1>5. /\ t \in Seq(Rows) /\ LeftOf(t) \subseteq SteadyCommands
      /\ ~Usb => LeftOf(t) \subseteq Others
  <2>1. CASE e.kind = "all"
    BY <1>3, <2>1, AllSelected DEF t
  <2>2. CASE e.kind = "prop" /\ e.name = "config"
    <3>1. /\ t \in Seq(Rows)
          /\ ~Usb => LeftOf(t) = {}
          /\ e.value \notin Modes => LeftOf(t) = {}
          /\ e.value = "none" => LeftOf(t) \subseteq DecomposeCommands
          /\ \A m \in Modes \ {"none"} : e.value = m =>
               LeftOf(t) \subseteq ComposeCommands(m) \cup StartsOf(m)
      BY <1>3, <2>2, ConfigSelected DEF t
    <3>2. \A m \in Modes \ {"none"} : ComposeCommands(m) \cup StartsOf(m) \subseteq SteadyCommands
      BY DEF SteadyCommands, CommandsFor
    <3>3. DecomposeCommands \subseteq SteadyCommands
      BY DEF SteadyCommands
    <3>4. CASE e.value \notin Modes
      BY <3>1, <3>4
    <3>5. CASE e.value = "none"
      BY <3>1, <3>3, <3>5
    <3>6. CASE e.value \in Modes \ {"none"}
      <4>1. LeftOf(t) \subseteq ComposeCommands(e.value) \cup StartsOf(e.value)
        BY <3>1, <3>6
      <4>2. ComposeCommands(e.value) \cup StartsOf(e.value) \subseteq SteadyCommands
        BY <3>2, <3>6
      <4> QED
        BY <3>1, <4>1, <4>2
    <3> QED
      BY <3>4, <3>5, <3>6
  <2>3. CASE e.kind = "prop" /\ e.name = "ffs.ready"
    <3> DEFINE m == prop["config"]
    <3>1. /\ t \in Seq(Rows)
          /\ ~Usb => LeftOf(t) = {}
          /\ m \notin Modes \ {"none"} => LeftOf(t) = {}
          /\ \A n \in Modes \ {"none"} : m = n => LeftOf(t) \subseteq ComposeCommands(n)
      BY <1>3, <2>3, ReadySelected DEF t
    <3> HIDE DEF m
    <3>2. \A n \in Modes \ {"none"} : ComposeCommands(n) \subseteq SteadyCommands
      BY DEF SteadyCommands, CommandsFor
    <3>3. CASE m \notin Modes \ {"none"}
      BY <3>1, <3>3
    <3>4. CASE m \in Modes \ {"none"}
      <4>1. LeftOf(t) \subseteq ComposeCommands(m) /\ ComposeCommands(m) \subseteq SteadyCommands
        BY <3>1, <3>2, <3>4
      <4> QED
        BY <3>1, <4>1
    <3> QED
      BY <3>3, <3>4
  <2>4. CASE e.kind = "prop" /\ e.name \in Services
    <3>1. t \in Seq(Rows) /\ LeftOf(t) \subseteq Others
      BY <2>4, ServiceSelected DEF t
    <3>2. Others \subseteq SteadyCommands
      <4>1. "none" \in Modes
        BY DEF Modes
      <4> QED
        BY <4>1 DEF SteadyCommands, CommandsFor
    <3> QED
      BY <3>1, <3>2
  <2> QED
    BY <1>4, <2>1, <2>2, <2>3, <2>4
<1>6. EventsInv'
  <2> SUFFICES ASSUME NEW i \in 1..Len(queue')
               PROVE  /\ queue'[i].kind = "prop"
                      /\ queue'[i].name \in {"config", "ffs.ready"} \cup Services
    BY DEF EventsInv
  <2>1. i \in 1..(Len(queue) - 1) /\ i + 1 \in 1..Len(queue) /\ i + 1 # 1
    BY <1>1
  <2>2. queue'[i] = queue[i + 1]
    BY <1>1, <2>1
  <2> QED
    BY <1>2, <2>1, <2>2
<1>7. UsbMounted'
  <2>1. CASE Usb
    BY <1>1, <1>3, <2>1 DEF UsbMounted
  <2>2. CASE ~Usb
    <3>1. \A s \in UsbDaemons : Start(s) \notin Others /\ Restart(s) \notin Others
                                /\ s # "wifi-helper" /\ s # "ubuntu-droidspaces"
      BY Fields DEF Others, UsbDaemons
    <3>2. \A s \in UsbDaemons : \A c \in LeftOf(t) : c.do \in {"start", "restart"} => c.arg # s
      BY <1>5, <2>2, <3>1, Fields DEF Others
    <3>3. \A s \in UsbDaemons : prop[s] \in {"", "stopped"} /\ proc[s] = "none"
      BY <1>3, <2>2 DEF UsbMounted, Idle
    <3> QED
      BY <1>1, <2>2, <3>2, <3>3 DEF UsbMounted, Idle, Alone
  <2> QED
    BY <2>1, <2>2
<1> QED
  BY <1>1, <1>3, <1>5, <1>6, <1>7 DEF SteadyInv, t, e

(* Without usb.rc nothing is done to its daemons.                          *)
LEMMA IdleAfterCommand ==
  ASSUME Types, LeftOf(todo) \subseteq SteadyCommands, ExecuteCommand, NEW s \in UsbDaemons,
         Idle(s), Alone(s)
  PROVE  Idle(s)' /\ Alone(s)'
<1> DEFINE c == Current(todo)
<1>1. /\ c \in Commands /\ Execute(c) /\ c \in LeftOf(todo) /\ c \in SteadyCommands
      /\ LeftOf(todo') \subseteq LeftOf(todo)
  BY Executed
<1> HIDE DEF c
<1>2. prop[s] \in {"", "stopped"} /\ proc[s] = "none" /\ s \in Services /\ s \notin Props
  BY UsbDaemonsAre, NamesAre DEF Idle
<1>3. /\ \A x \in LeftOf(todo) : x.do \in {"start", "restart"} => x.arg # s
      /\ \A x \in LeftOf(todo') : x.do \in {"start", "restart"} => x.arg # s
  BY <1>1 DEF Alone
<1>4. Alone(s)'
  BY <1>3 DEF Alone
<1>5. prop'[s] \in {"", "stopped"} /\ proc'[s] = "none"
  <2>1. CASE c.do = "setprop" /\ c.arg = "ffs.ready" /\ c.val = "0"
    <3>1. /\ \A x \in (Props \cup Services) \ {"ffs.ready"} : prop'[x] = prop[x]
          /\ proc' = proc
      BY <1>1, <2>1, SetsProp
    <3>2. "ffs.ready" \in Props
      BY DEF Props
    <3> QED
      BY <1>2, <3>1, <3>2
  <2>2. CASE c.do = "copyprop"
    <3>1. /\ \A x \in (Props \cup Services) \ {"state"} : prop'[x] = prop[x]
          /\ proc' = proc
      BY <1>1, <2>2, CopiesProp
    <3>2. "state" \in Props
      BY DEF Props
    <3> QED
      BY <1>2, <3>1, <3>2
  <2>3. CASE c.do = "stop"
    <3>1. c.arg \in Services /\ DoStop(c.arg)
      BY <1>1, <2>3, Stops
    <3>2. CASE c.arg = s
      <4>1. DoStop(s) /\ s \in Services /\ prop[s] # "running" /\ prop[s] # "stopping"
        BY <1>2, <3>1, <3>2
      <4>2. proc' = proc /\ prop'[s] = "stopped"
        BY <4>1, Stopped
      <4> QED
        BY <1>2, <4>2
    <3>3. CASE c.arg # s
      <4>1. Frame(c.arg)
        BY <3>1, Stopped
      <4> QED
        BY <1>2, <3>3, <4>1 DEF Frame
    <3> QED
      BY <3>2, <3>3
  <2>4. CASE c.do = "start"
    <3>1. c.arg \in Services /\ DoStart(c.arg) /\ c.arg # s
      BY <1>1, <1>3, <2>4, Starts
    <3>2. Frame(c.arg)
      BY <3>1, Started
    <3> QED
      BY <1>2, <3>1, <3>2 DEF Frame
  <2>5. CASE c.do = "restart"
    <3>1. c.arg \in Services /\ DoRestart(c.arg) /\ c.arg # s
      BY <1>1, <1>3, <2>5, Restarts
    <3>2. Frame(c.arg)
      BY <3>1, Restarted
    <3> QED
      BY <1>2, <3>1, <3>2 DEF Frame
  <2>6. CASE c.do \in DeviceCommands
    BY <1>1, <1>2, <2>6, Devises
  <2> QED
    BY <1>1, <2>1, <2>2, <2>3, <2>4, <2>5, <2>6, SteadyVerbs
<1> QED
  BY <1>4, <1>5 DEF Idle

(* functionfs stays mounted.                                               *)
LEMMA UsbMountedKept ==
  ASSUME Types, enabled, SteadyInv, Next, ~TakeEvent
  PROVE  UsbMounted' /\ dev'.mounted = dev.mounted
<1>1. LeftOf(todo) \subseteq SteadyCommands /\ UsbMounted
  BY DEF SteadyInv
<1>2. ASSUME dev'.mounted = dev.mounted,
             ~Usb => \A s \in UsbDaemons : Idle(s)' /\ Alone(s)'
      PROVE  UsbMounted' /\ dev'.mounted = dev.mounted
  BY <1>1, <1>2 DEF UsbMounted
<1>3. ~Usb => \A s \in UsbDaemons : /\ Idle(s) /\ Alone(s)
                                    /\ prop[s] \in {"", "stopped"} /\ proc[s] = "none"
  BY <1>1 DEF UsbMounted, Idle
<1>4. ASSUME todo' = todo, dev'.mounted = dev.mounted,
             \A s \in UsbDaemons : prop'[s] = prop[s] /\ proc'[s] = proc[s]
      PROVE  UsbMounted' /\ dev'.mounted = dev.mounted
  <2>1. ~Usb => \A s \in UsbDaemons : Idle(s)' /\ Alone(s)'
    BY <1>3, <1>4 DEF Idle, Alone
  <2> QED
    BY <1>2, <1>4, <2>1
<1>5. CASE ExecuteCommand
  BY <1>1, <1>2, <1>3, <1>5, IdleAfterCommand, SteadyExecuted
<1>6. ASSUME NEW x \in Services \ UsbDaemons, Aside(x)
      PROVE  UsbMounted' /\ dev'.mounted = dev.mounted
  <2>1. \A s \in UsbDaemons : prop'[s] = prop[s] /\ proc'[s] = proc[s]
    BY <1>6, UsbDaemonsAre DEF Aside, Frame
  <2> QED
    BY <1>4, <1>6, <2>1 DEF Aside, SameGadget
<1>7. ASSUME NEW s \in UsbDaemons,
             Reap(s) \/ RestartTimer(s) \/ OpenEndpoints(s) \/ ReportReady(s) \/ Die(s)
      PROVE  UsbMounted' /\ dev'.mounted = dev.mounted
  <2>1. s \in Services
    BY UsbDaemonsAre
  <2>2. \/ proc[s] \in {"dead", "begun", "open"} \/ prop[s] \in {"restarting", "running"}
    BY <1>7 DEF Reap, RestartTimer, OpenEndpoints, Proceed, ReportReady, Die
  <2>3. dev'.mounted = dev.mounted
    BY <1>7, <2>1, Reaped, Restarting, OpenedStep, Reported, Died, ClosedStep
  <2>4. Usb
    BY <1>3, <2>2
  <2> QED
    BY <1>2, <2>3, <2>4
<1>8. ASSUME LauncherReady \/ \E mode \in Modes : Switch(mode)
      PROVE  UsbMounted' /\ dev'.mounted = dev.mounted
  <2>1. \A s \in UsbDaemons : s \in Services /\ s \notin Props
    BY UsbDaemonsAre, NamesAre
  <2>2. "connsys" \in Props /\ "config" \in Props
    BY DEF Props
  <2>3. todo' = todo /\ dev' = dev /\ \A s \in UsbDaemons : prop'[s] = prop[s] /\ proc'[s] = proc[s]
    BY <1>8, <2>1, <2>2, LauncherReported, Switched
  <2> QED
    BY <1>4, <2>3
<1> QED
  BY <1>5, <1>6, <1>7, <1>8, Steps

(* Every step but a switch leaves the mode alone.                          *)
LEMMA ModeKept ==
  ASSUME Types, enabled, SteadyInv, Next, ~TakeEvent, \A mode \in Modes : ~Switch(mode)
  PROVE  /\ prop'["config"] = prop["config"] /\ prop'["configfs"] = prop["configfs"]
         /\ prop["connsys"] = "yes" => prop'["connsys"] = "yes"
         /\ Grows /\ enabled' = enabled /\ LeftOf(todo') \subseteq LeftOf(todo)
<1>1. LeftOf(todo) \subseteq SteadyCommands
  BY DEF SteadyInv
<1>2. /\ "config" \in Props /\ "configfs" \in Props /\ "connsys" \in Props /\ "ffs.ready" \in Props
      /\ \A s \in Services : s \notin Props
  BY NamesAre DEF Props
<1>3. CASE ExecuteCommand
  <2>1. LeftOf(todo') \subseteq LeftOf(todo)
    BY <1>3, Executed
  <2> QED
    BY <1>1, <1>3, <2>1, SteadyExecuted
<1>4. ASSUME NEW s \in Services, Frame(s), todo' = todo, enabled' = enabled
      PROVE  /\ prop'["config"] = prop["config"] /\ prop'["configfs"] = prop["configfs"]
             /\ prop["connsys"] = "yes" => prop'["connsys"] = "yes"
             /\ Grows /\ enabled' = enabled /\ LeftOf(todo') \subseteq LeftOf(todo)
  <2>1. \A x \in Props : prop'[x] = prop[x]
    BY <1>2, <1>4 DEF Frame
  <2> QED
    BY <1>2, <1>4, <2>1 DEF Frame
<1>5. ASSUME NEW s \in Services \ UsbDaemons, Aside(s)
      PROVE  Frame(s) /\ todo' = todo /\ enabled' = enabled
  BY <1>5 DEF Aside
<1>6. ASSUME NEW s \in UsbDaemons, Reap(s) \/ RestartTimer(s) \/ OpenEndpoints(s) \/ Die(s)
      PROVE  s \in Services /\ Frame(s) /\ todo' = todo /\ enabled' = enabled
  <2>1. s \in Services
    BY UsbDaemonsAre
  <2> QED
    BY <1>6, <2>1, Reaped, Restarting, OpenedStep, Died
<1>7. ASSUME NEW s \in UsbDaemons, ReportReady(s)
      PROVE  /\ prop'["config"] = prop["config"] /\ prop'["configfs"] = prop["configfs"]
             /\ prop["connsys"] = "yes" => prop'["connsys"] = "yes"
             /\ Grows /\ enabled' = enabled /\ LeftOf(todo') \subseteq LeftOf(todo)
  BY <1>2, <1>7, Reported
<1>8. ASSUME LauncherReady
      PROVE  /\ prop'["config"] = prop["config"] /\ prop'["configfs"] = prop["configfs"]
             /\ prop["connsys"] = "yes" => prop'["connsys"] = "yes"
             /\ Grows /\ enabled' = enabled /\ LeftOf(todo') \subseteq LeftOf(todo)
  <2>1. /\ prop'["connsys"] = "yes" /\ queue' = queue /\ todo' = todo /\ enabled' = enabled
        /\ \A x \in (Props \cup Services) \ {"connsys"} : prop'[x] = prop[x]
    BY <1>8, LauncherReported
  <2>2. Grows
    BY <2>1 DEF Grows, Longer
  <2> QED
    BY <1>2, <2>1, <2>2
<1>9. \/ ExecuteCommand
      \/ \E s \in Services \ UsbDaemons : Aside(s)
      \/ \E s \in UsbDaemons : Reap(s) \/ RestartTimer(s) \/ OpenEndpoints(s) \/ ReportReady(s) \/ Die(s)
      \/ LauncherReady
  BY Steps
<1>10. CASE \E s \in Services \ UsbDaemons : Aside(s)
  BY <1>4, <1>5, <1>10
<1>11. CASE \E s \in UsbDaemons : Reap(s) \/ RestartTimer(s) \/ OpenEndpoints(s) \/ ReportReady(s) \/ Die(s)
  BY <1>4, <1>6, <1>7, <1>11
<1> QED
  BY <1>3, <1>8, <1>9, <1>10, <1>11

(* A switch away from adb queues the event of none.                        *)
LEMMA EventsSwitched ==
  ASSUME Types, EventsInv, NEW mode \in Modes, Switch(mode)
  PROVE  EventsInv'
<1>1. /\ prop'["config"] = mode
      /\ mode = "none" \/ prop["config"] = "none"
      /\ prop["config"] # mode /\ ConfigEvent(mode) \in Events
      /\ Usb => queue' = With(queue, ConfigEvent(mode))
      /\ ~Usb => queue' = queue
  BY Switched
<1>2. \A i \in 1..Len(queue) :
        \/ queue[i].kind = "all" /\ i = 1 /\ (prop["config"] = "adb" \/ (Usb => NoneQueued))
        \/ queue[i].kind = "prop" /\ queue[i].name \in {"config", "ffs.ready"} \cup Services
  BY DEF EventsInv
<1>3. CASE ~Usb
  BY <1>1, <1>2, <1>3 DEF EventsInv
<1>4. CASE Usb
  <2>1. queue \in Seq(Events) /\ HasAppended(queue', queue, ConfigEvent(mode))
    BY <1>1, <1>4, TypesGive, AppendedAll
  <2>2. /\ Len(queue') = Len(queue) + 1 /\ Len(queue) \in Nat
        /\ queue'[Len(queue) + 1] = ConfigEvent(mode) /\ \A i \in 1..Len(queue) : queue'[i] = queue[i]
        /\ Elems(queue') = Elems(queue) \cup {ConfigEvent(mode)}
    BY <2>1 DEF HasAppended
  <2>3. prop["config"] = "adb" \/ NoneQueued => NoneQueued'
    <3>1. prop["config"] = "adb" => mode = "none"
      BY <1>1
    <3> QED
      BY <2>2, <3>1 DEF NoneQueued, Queued
  <2>4. ConfigEvent(mode).kind = "prop" /\ ConfigEvent(mode).name = "config"
    BY DEF ConfigEvent, Event
  <2> SUFFICES ASSUME NEW i \in 1..Len(queue')
               PROVE  \/ queue'[i].kind = "all" /\ i = 1
                         /\ (prop'["config"] = "adb" \/ (Usb => NoneQueued'))
                      \/ /\ queue'[i].kind = "prop"
                         /\ queue'[i].name \in {"config", "ffs.ready"} \cup Services
    BY DEF EventsInv
  <2>5. i \in 1..Len(queue) \/ i = Len(queue) + 1
    BY <2>2
  <2>6. CASE i \in 1..Len(queue)
    <3>1. queue'[i] = queue[i]
      BY <2>2, <2>6
    <3> QED
      BY <1>2, <1>4, <2>3, <2>6, <3>1, Zenon
  <2>7. CASE i = Len(queue) + 1
    BY <2>2, <2>4, <2>7
  <2> QED
    BY <2>5, <2>6, <2>7
<1> QED
  BY <1>3, <1>4

(* Every step after the boot.                                              *)
LEMMA SteadyStep ==
  ASSUME Types, enabled, SteadyInv, Next
  PROVE  /\ TakeEvent => Selected(Head(queue)) \in Seq(Rows)
         /\ enabled' = enabled /\ SteadyInv'
         /\ prop["connsys"] = "yes" => prop'["connsys"] = "yes"
<1>1. CASE TakeEvent
  BY <1>1, SteadyTaken DEF TakeEvent
<1>2. ASSUME ~TakeEvent, NEW mode \in Modes, Switch(mode)
      PROVE  enabled' = enabled /\ SteadyInv' /\ (prop["connsys"] = "yes" => prop'["connsys"] = "yes")
  <2>1. /\ prop'["config"] = mode /\ todo' = todo /\ enabled' = enabled /\ enabled
        /\ \A x \in (Props \cup Services) \ {"config"} : prop'[x] = prop[x]
    BY <1>2, Switched
  <2>2. "configfs" \in Props /\ "connsys" \in Props
    BY DEF Props
  <2> QED
    BY <1>2, <2>1, <2>2, EventsSwitched, UsbMountedKept DEF SteadyInv
<1>3. ASSUME ~TakeEvent, \A mode \in Modes : ~Switch(mode)
      PROVE  enabled' = enabled /\ SteadyInv' /\ (prop["connsys"] = "yes" => prop'["connsys"] = "yes")
  <2>1. /\ prop'["config"] = prop["config"] /\ prop'["configfs"] = prop["configfs"]
        /\ prop["connsys"] = "yes" => prop'["connsys"] = "yes"
        /\ Grows /\ enabled' = enabled /\ LeftOf(todo') \subseteq LeftOf(todo)
    BY <1>3, ModeKept
  <2>2. EventsInv'
    BY <2>1, EventsKept DEF SteadyInv
  <2>3. UsbMounted'
    BY <1>3, UsbMountedKept
  <2> QED
    BY <2>1, <2>2, <2>3 DEF SteadyInv
<1> QED
  BY <1>1, <1>2, <1>3

(* At the start.                                                           *)
LEMMA InitTypes ==
  ASSUME Init
  PROVE  Types
<1>1. queue \in Seq(Events)
  <2>1. /\ StageEvent("early-init") \in Events /\ StageEvent("init") \in Events
        /\ StageEvent("late-init") \in Events /\ Builtin(QueuePropertyTriggers) \in Events
    BY DEF StageEvent, Event, Events, Names, Values, BootStages, Builtin, QueuePropertyTriggers, Cmd
  <2> DEFINE a == StageEvent("early-init")
             b == StageEvent("init")
             c == StageEvent("late-init")
             d == Builtin(QueuePropertyTriggers)
  <2>2. queue = << a, b, c, d >>
    BY DEF Init
  <2> HIDE DEF a, b, c, d
  <2>3. a \in Events /\ b \in Events /\ c \in Events /\ d \in Events
    BY <2>1 DEF a, b, c, d
  <2> QED
    BY <2>2, <2>3
<1>2. todo \in Seq(Rows)
  <2>1. << >> \in Seq(Rows)
    BY EmptySeq
  <2> QED
    BY <2>1 DEF Init
<1>3. PropType(prop)
  <2>1. prop = [p \in Props \cup Services |-> IF p = "adb.root" THEN "1" ELSE ""]
    BY DEF Init, Default
  <2>2. "config" \in Props /\ "state" \in Props /\ "" \in Values /\ "1" \in Values /\ "" \in States
    BY DEF Props, Values, States
  <2>3. \A s \in Services : s # "adb.root"
    BY DEF Services, Oneshots, InitOneshots, WlanOneshots, TouchOneshots,
         ContainerOneshots, ContainerDaemons, UsbDaemons, Daemons
  <2> QED
    BY <2>1, <2>2, <2>3 DEF PropType
<1>4. DevType(dev)
  BY DEF Init, DevType, Devices
<1>5. proc \in [Services -> Phases]
  BY DEF Init, Phases
<1>6. enabled \in BOOLEAN /\ held \subseteq Services
  BY DEF Init
<1> QED
  BY <1>1, <1>2, <1>3, <1>4, <1>5, <1>6 DEF Types, Phases

LEMMA InitBoot ==
  ASSUME Init
  PROVE  BootInv /\ enabled = FALSE
<1>1. /\ queue = << StageEvent("early-init"), StageEvent("init"),
                    StageEvent("late-init"), Builtin(QueuePropertyTriggers) >>
      /\ todo = << >> /\ enabled = FALSE /\ proc = [s \in Services |-> "none"]
      /\ prop = [p \in Props \cup Services |-> IF p = "adb.root" THEN "1" ELSE ""]
      /\ ~dev.launcher /\ dev.f1 = "" /\ ~dev.udc
  BY DEF Init, Default
<1>2. Asleep
  <2>1. \A s \in UsbDaemons \cup {"wifi-helper"} : s \in Services /\ s # "adb.root"
    BY DEF Services, Oneshots, InitOneshots, WlanOneshots, TouchOneshots,
         ContainerOneshots, ContainerDaemons, Daemons, UsbDaemons
  <2>2. "connsys" \in Props
    BY DEF Props
  <2> QED
    BY <1>1, <2>1, <2>2 DEF Asleep, Idle
<1>3. prop["config"] = ""
  <2>1. "config" \in Props
    BY DEF Props
  <2> QED
    BY <1>1, <2>1
<1>4. queue = SubSeq(BootEvents, 1, 4)
  <2> DEFINE b == BootEvents
             q == SubSeq(b, 1, 4)
  <2>1. /\ b \in Seq(Events) /\ Len(b) = 13 /\ b[4] = Builtin(QueuePropertyTriggers)
        /\ b[1] = StageEvent("early-init") /\ b[2] = StageEvent("init")
        /\ b[3] = StageEvent("late-init")
    BY BootEventsAre, StagesAre
  <2> HIDE DEF b
  <2>2. \A i \in 1..4 : b[i] \in Events
    <3>1. \A i \in 1..4 : i \in 1..Len(b)
      BY <2>1
    <3> QED
      BY <2>1, <3>1, ElementOfSeq
  <2>3. /\ q \in Seq(Events) /\ Len(q) = IF 1 <= 4 THEN 4 - 1 + 1 ELSE 0
        /\ \A i \in 1..4 - 1 + 1 : q[i] = b[1 + i - 1]
    <3>1. 1 \in Int /\ 4 \in Int
      OBVIOUS
    <3> QED
      BY <2>2, <3>1, SubSeqProperties
  <2> HIDE DEF q
  <2>4. Len(q) = 4 /\ \A i \in 1..4 : q[i] = b[i]
    BY <2>3
  <2> DEFINE w == StageEvent("early-init")
             x == StageEvent("init")
             y == StageEvent("late-init")
             z == Builtin(QueuePropertyTriggers)
  <2>5. w = b[1] /\ x = b[2] /\ y = b[3] /\ z = b[4] /\ queue = << w, x, y, z >>
    BY <1>1, <2>1
  <2> HIDE DEF w, x, y, z
  <2>6. w \in Events /\ x \in Events /\ y \in Events /\ z \in Events
    BY <2>2, <2>5
  <2>7. queue \in Seq(Events) /\ Len(queue) = 4
        /\ queue[1] = w /\ queue[2] = x /\ queue[3] = y /\ queue[4] = z
    BY <2>5, <2>6
  <2>8. \A i \in 1..4 : queue[i] = q[i]
    BY <2>4, <2>5, <2>7
  <2>9. queue = q
    BY <2>3, <2>4, <2>7, <2>8, SeqEqual
  <2> QED
    BY <2>9 DEF q, b
<1>5. Position(0, 4)
  <2>1. 0 + 1 = 1
    OBVIOUS
  <2>2. queue = SubSeq(BootEvents, 0 + 1, 4)
    BY <1>4, <2>1
  <2>3. ~(0 = 3) /\ ~(0 = 4) /\ ~(0 = 12) /\ ~(0 > 4)
    OBVIOUS
  <2> QED
    BY <1>1, <2>2, <2>3, Zenon DEF Position
<1>6. Effects(0)
  <2>1. LeftOf(todo) = {} /\ \A a, b : ~Unled(todo, a, b)
    BY <1>1, NothingLeft
  <2>2. ~(0 >= 1) /\ 0 < 8 /\ ~(0 >= 8) /\ ~(0 >= 6)
    OBVIOUS
  <2>3. LeftOf(todo) \subseteq CommandsOn(0)
    BY <2>1
  <2> QED
    BY <1>3, <2>1, <2>2, <2>3, Zenon DEF Effects
<1>7. 0 \in 0..12 /\ 4 \in 4..13
  OBVIOUS
<1> QED
  BY <1>1, <1>2, <1>5, <1>6, <1>7 DEF BootInv

(* The step that enables the property triggers.                            *)
LEMMA EnabledSteady ==
  ASSUME Types', JustEnabled, BootInv
  PROVE  SteadyInv'
<1>1. /\ todo' = << >> /\ queue' = << AllProperties >> /\ enabled' = TRUE
      /\ prop' = prop /\ proc' = proc /\ dev' = dev
      /\ prop["configfs"] = "1" /\ prop["config"] = "adb"
      /\ Usb => {"adb", "fastboot"} \subseteq dev.mounted
  BY DEF JustEnabled
<1>2. EventsInv'
  <2>1. Len(queue') = 1 /\ queue'[1] = AllProperties
    BY <1>1
  <2>2. AllProperties.kind = "all"
    BY DEF AllProperties, Event
  <2> QED
    BY <1>1, <2>1, <2>2 DEF EventsInv
<1>3. LeftOf(todo') = {}
  BY <1>1, NothingLeft
<1>4. UsbMounted'
  <2>1. \A s \in UsbDaemons : Idle(s)
    BY DEF BootInv, Asleep
  <2> QED
    BY <1>1, <1>3, <2>1 DEF UsbMounted, Idle, Alone
<1>5. "adb" \in Modes
  BY DEF Modes
<1> QED
  BY <1>1, <1>2, <1>3, <1>4, <1>5 DEF SteadyInv

(* Every step.                                                             *)
LEMMA BootSafeStep ==
  ASSUME BootSafe, Next
  PROVE  BootSafe'
<1>1. Types
  BY DEF BootSafe
<1>2. CASE enabled
  <2>1. SteadyInv
    BY <1>2 DEF BootSafe
  <2> QED
    BY <1>1, <1>2, <2>1, SteadyStep, StepTypes DEF BootSafe
<1>3. CASE ~enabled
  <2>1. BootInv
    BY <1>3 DEF BootSafe
  <2>2. Types' /\ ((~enabled' /\ BootInv') \/ JustEnabled)
    BY <1>1, <1>3, <2>1, BootStep, StepTypes
  <2>3. JustEnabled => enabled' /\ SteadyInv'
    BY <2>1, <2>2, EnabledSteady DEF JustEnabled
  <2> QED
    BY <2>2, <2>3 DEF BootSafe
<1> QED
  BY <1>2, <1>3

LEMMA BootSafeStutter ==
  ASSUME BootSafe, UNCHANGED vars
  PROVE  BootSafe'
<1>1. /\ queue' = queue /\ todo' = todo /\ enabled' = enabled /\ prop' = prop /\ held' = held
      /\ proc' = proc /\ dev' = dev
  BY DEF vars
<1>2. Types'
  BY TypesStutter DEF BootSafe
<1>3. ASSUME ~enabled PROVE BootInv'
  <2>1. SameGadget(dev', dev)
    BY <1>1 DEF SameGadget
  <2>2. BootInv /\ Types
    BY <1>3 DEF BootSafe
  <2> QED
    BY <1>1, <2>1, <2>2, BootKept
<1>4. ASSUME enabled PROVE SteadyInv'
  <2>1. SteadyInv
    BY <1>4 DEF BootSafe
  <2>2. EventsInv' /\ UsbMounted'
    BY <1>1, <2>1 DEF SteadyInv, EventsInv, NoneQueued, Queued, UsbMounted, Idle, Alone
  <2> QED
    BY <1>1, <2>1, <2>2 DEF SteadyInv
<1> QED
  BY <1>1, <1>2, <1>3, <1>4 DEF BootSafe

(* For all scripts that may be installed besides init's, all services that *)
(* may fail, any number of crashes and switches: up to the property        *)
(* triggers the boot's events come in their order and have the effects of  *)
(* their commands, with the USB daemons and WiFi asleep; afterwards only   *)
(* actions of properties are executed, functionfs is mounted and configfs  *)
(* is used.                                                                *)
THEOREM BootIsSafe == Spec => []BootSafe
<1>1. Init => BootSafe
  BY InitTypes, InitBoot DEF BootSafe
<1>2. BootSafe /\ [Next]_vars => BootSafe'
  BY BootSafeStep, BootSafeStutter
<1> QED
  BY <1>1, <1>2, PTL DEF Spec

(* The queue, the actions, the services and the devices keep their types.  *)
THEOREM BootTypes == Spec => []TypeOK
<1>1. BootSafe => TypeOK
  <2> SUFFICES ASSUME BootSafe PROVE TypeOK
    OBVIOUS
  <2>1. /\ queue \in Seq(Events) /\ todo \in Seq(Rows) /\ enabled \in BOOLEAN
        /\ PropType(prop) /\ held \subseteq Services /\ proc \in [Services -> Phases]
        /\ DevType(dev)
    BY TypesGive DEF BootSafe
  <2>2. \A i \in 1..Len(queue) : queue[i].kind \in {"stage", "prop", "all", "builtin"}
    <3>1. \A i \in 1..Len(queue) : queue[i] \in Events
      BY <2>1, ElementOfSeq
    <3>2. \A e \in Events : e.kind \in {"stage", "prop", "all", "builtin"}
      BY DEF Events
    <3> QED
      BY <3>1, <3>2
  <2>3. \A i \in 1..Len(todo) : todo[i].cmds # << >>
    BY <2>1, RowCmds
  <2>4. /\ \A s \in Services : prop[s] \in {"", "running", "stopping", "stopped", "restarting"}
        /\ prop["config"] \in Modes \cup {""} /\ prop["state"] \in Modes \cup {""}
    BY <2>1 DEF PropType, States
  <2>5. \A s \in Services :
          proc[s] \in {"none", "begun", "polling", "powered", "open", "up", "dead"}
    BY <2>1 DEF Phases
  <2>6. /\ dev.mounted \subseteq dev.functions /\ dev.open \subseteq dev.mounted
        /\ dev.f1 \in {"", "adb", "fastboot"}
    BY <2>1, DeviceIs DEF Functions
  <2> QED
    BY <2>1, <2>2, <2>3, <2>4, <2>5, <2>6, Zenon DEF TypeOK
<1> QED
  BY <1>1, BootIsSafe, PTL

(* adbd and fastbootd are never started, by whichever command, restart or  *)
(* switch, before the functionfs that they open is mounted.                *)
THEOREM DaemonsAreStartedLate == Spec => DaemonsFindEndpoints
<1>1. BootSafe /\ BootSafe' /\ Next =>
        \A s \in UsbDaemons : Begins(s) => Function(s) \in dev.mounted
  <2> SUFFICES ASSUME BootSafe, BootSafe', Next, NEW s \in UsbDaemons, Begins(s)
               PROVE  Function(s) \in dev.mounted
    OBVIOUS
  <2>1. prop[s] # "running" /\ prop'[s] = "running"
    BY DEF Begins
  <2>2. CASE enabled
    <3>1. UsbMounted /\ Types /\ SteadyInv
      BY <2>2 DEF BootSafe, SteadyInv
    <3>2. enabled' /\ UsbMounted'
      BY <2>2, <3>1, SteadyStep DEF SteadyInv
    <3>3. ~Usb => prop'[s] \in {"", "stopped"}
      BY <3>2 DEF UsbMounted, Idle
    <3>4. Function(s) \in {"adb", "fastboot"}
      BY DEF Function
    <3> QED
      BY <2>1, <3>1, <3>3, <3>4 DEF UsbMounted
  <2>3. CASE ~enabled
    <3>1. (~enabled' /\ BootInv') \/ JustEnabled
      BY <2>3, BootStep DEF BootSafe
    <3>2. BootInv' => prop'[s] \in {"", "stopped"}
      BY DEF BootInv, Asleep, Idle
    <3>3. JustEnabled => prop' = prop
      BY DEF JustEnabled
    <3> QED
      BY <2>1, <3>1, <3>2, <3>3
  <2> QED
    BY <2>2, <2>3
<1>2. UNCHANGED vars => \A s \in UsbDaemons : Begins(s) => Function(s) \in dev.mounted
  BY DEF vars, Begins
<1>3. BootSafe /\ BootSafe' /\ [Next]_vars =>
        [\A s \in UsbDaemons : Begins(s) => Function(s) \in dev.mounted]_vars
  BY <1>1, <1>2
<1> QED
  BY <1>3, BootIsSafe, PTL DEF Spec, DaemonsFindEndpoints

(* vendor.connsys.driver.ready is not reset after wmt_launcher has set it: *)
(* the action of early-boot that resets it is over before the property     *)
(* triggers are enabled, and without them the launcher does not run.       *)
THEOREM ReadyStays == Spec => ReadyIsKept
<1>1. BootSafe /\ [Next]_vars => (prop["connsys"] = "yes" => prop'["connsys"] = "yes")
  <2> SUFFICES ASSUME BootSafe, [Next]_vars, prop["connsys"] = "yes"
               PROVE  prop'["connsys"] = "yes"
    OBVIOUS
  <2>1. CASE UNCHANGED vars
    BY <2>1 DEF vars
  <2>2. CASE Next
    <3>1. enabled
      BY DEF BootSafe, BootInv, Asleep
    <3> QED
      BY <2>2, <3>1, SteadyStep DEF BootSafe
  <2> QED
    BY <2>1, <2>2
<1>2. BootSafe /\ [Next]_vars => [prop["connsys"] = "yes" => prop'["connsys"] = "yes"]_vars
  BY <1>1
<1> QED
  BY <1>2, BootIsSafe, PTL DEF Spec, ReadyIsKept

-----------------------------------------------------------------------------
(* The processes of the daemons.                                           *)
LEMMA Apart ==
  \A s, x \in UsbDaemons : s # x => Function(s) # Function(x)
BY DEF UsbDaemons, Function

(* A daemon that a step is not about.                                      *)
LEMMA ProcessElsewhere ==
  ASSUME NEW s \in UsbDaemons, OneProcess(s), prop'[s] = prop[s], proc'[s] = proc[s],
         Function(s) \in dev.open => Function(s) \in dev'.open
  PROVE  OneProcess(s)'
BY DEF OneProcess

LEMMA ProcessByFrame ==
  ASSUME Types, NEW x \in Services, Frame(x), NEW s \in UsbDaemons, s # x, OneProcess(s),
         dev'.open = dev.open \/ dev' = dev \/ dev' = WithoutEndpoints(x)
  PROVE  OneProcess(s)'
<1>1. s \in Services
  BY UsbDaemonsAre
<1>2. prop'[s] = prop[s] /\ proc'[s] = proc[s]
  BY <1>1 DEF Frame
<1>3. Function(s) \in dev.open => Function(s) \in dev'.open
  <2>1. CASE dev'.open = dev.open \/ dev' = dev
    BY <2>1
  <2>2. CASE dev' = WithoutEndpoints(x)
    <3>1. CASE x \in UsbDaemons
      <4>1. dev'.open = dev.open \ {Function(x)}
        BY <2>2, <3>1, ClosedStep
      <4> QED
        BY <3>1, <4>1, Apart
    <3>2. CASE x \notin UsbDaemons
      BY <2>2, <3>2, ClosedStep
    <3> QED
      BY <3>1, <3>2
  <2> QED
    BY <2>1, <2>2
<1> QED
  BY <1>2, <1>3, ProcessElsewhere

(* A daemon that is started, stopped or restarted.                         *)
LEMMA ProcessStarted ==
  ASSUME Types, NEW s \in UsbDaemons, OneProcess(s), DoStart(s)
  PROVE  OneProcess(s)'
<1>1. /\ s \in Services /\ dev' = dev
      /\ prop[s] \in {"running", "stopping"} => prop' = prop /\ proc' = proc
      /\ prop[s] \notin {"running", "stopping"} => prop'[s] = "running" /\ proc'[s] = "begun"
  BY UsbDaemonsAre, Started
<1> QED
  BY <1>1 DEF OneProcess

LEMMA ProcessStopped ==
  ASSUME Types, NEW s \in UsbDaemons, OneProcess(s), DoStop(s)
  PROVE  OneProcess(s)'
<1>1. /\ s \in Services
      /\ prop[s] = "running" => prop'[s] = "stopping" /\ proc'[s] = "dead"
      /\ prop[s] # "running" => /\ prop'[s] = IF prop[s] = "stopping" THEN "stopping" ELSE "stopped"
                                /\ proc' = proc /\ dev' = dev
  BY UsbDaemonsAre, Stopped
<1> QED
  BY <1>1 DEF OneProcess

LEMMA ProcessRestarted ==
  ASSUME Types, NEW s \in UsbDaemons, OneProcess(s), DoRestart(s)
  PROVE  OneProcess(s)'
<1>1. /\ s \in Services
      /\ prop[s] = "running" => prop'[s] = "stopping" /\ proc'[s] = "dead"
      /\ prop[s] \in {"restarting", "stopping"} => prop' = prop /\ proc' = proc /\ dev' = dev
      /\ prop[s] \notin {"running", "restarting", "stopping"} =>
              prop'[s] = "running" /\ proc'[s] = "begun"
  BY UsbDaemonsAre, Restarted
<1> QED
  BY <1>1 DEF OneProcess

(* A command.                                                              *)
LEMMA ProcessesExecuted ==
  ASSUME Types, Processes, ExecuteCommand
  PROVE  Processes'
<1> DEFINE c == Current(todo)
<1>1. c \in Commands /\ Execute(c)
  BY Executed
<1> HIDE DEF c
<1>2. \A s \in UsbDaemons : OneProcess(s) /\ s \in Services /\ s \notin Props
  BY UsbDaemonsAre, NamesAre DEF Processes
<1>3. ASSUME NEW s \in UsbDaemons PROVE OneProcess(s)'
  <2>1. ASSUME prop'[s] = prop[s], proc' = proc, dev'.open = dev.open
        PROVE  OneProcess(s)'
    BY <1>2, <2>1, ProcessElsewhere
  <2>2. CASE c.do = "setprop"
    <3>1. /\ \A x \in (Props \cup Services) \ {c.arg} : prop'[x] = prop[x]
          /\ proc' = proc /\ dev' = dev
      BY <1>1, <2>2, SetsProp
    <3>2. c.arg \in Props
      BY <1>1, <2>2, CommandIs DEF Props
    <3> QED
      BY <1>2, <2>1, <3>1, <3>2
  <2>3. CASE c.do = "copyprop"
    <3>1. /\ \A x \in (Props \cup Services) \ {"state"} : prop'[x] = prop[x]
          /\ proc' = proc /\ dev' = dev
      BY <1>1, <2>3, CopiesProp
    <3>2. "state" \in Props
      BY DEF Props
    <3> QED
      BY <1>2, <2>1, <3>1, <3>2
  <2>4. CASE c.do = "start"
    <3>1. c.arg \in Services /\ DoStart(c.arg)
      BY <1>1, <2>4, Starts
    <3>2. CASE c.arg = s
      BY <1>2, <3>1, <3>2, ProcessStarted
    <3>3. CASE c.arg # s
      <4>1. Frame(c.arg) /\ dev' = dev
        BY <3>1, Started
      <4> QED
        BY <1>2, <3>1, <3>3, <4>1, ProcessByFrame
    <3> QED
      BY <3>2, <3>3
  <2>5. CASE c.do = "stop"
    <3>1. c.arg \in Services /\ DoStop(c.arg)
      BY <1>1, <2>5, Stops
    <3>2. CASE c.arg = s
      BY <1>2, <3>1, <3>2, ProcessStopped
    <3>3. CASE c.arg # s
      <4>1. Frame(c.arg) /\ (dev' = dev \/ dev' = WithoutEndpoints(c.arg))
        BY <3>1, Stopped
      <4> QED
        BY <1>2, <3>1, <3>3, <4>1, ProcessByFrame
    <3> QED
      BY <3>2, <3>3
  <2>6. CASE c.do = "restart"
    <3>1. c.arg \in Services /\ DoRestart(c.arg)
      BY <1>1, <2>6, Restarts
    <3>2. CASE c.arg = s
      BY <1>2, <3>1, <3>2, ProcessRestarted
    <3>3. CASE c.arg # s
      <4>1. Frame(c.arg) /\ (dev' = dev \/ dev' = WithoutEndpoints(c.arg))
        BY <3>1, Restarted
      <4> QED
        BY <1>2, <3>1, <3>3, <4>1, ProcessByFrame
    <3> QED
      BY <3>2, <3>3
  <2>7. CASE c.do = "trigger"
    BY <1>1, <2>1, <2>7, TriggersStage
  <2>8. CASE c.do = "queue_property_triggers"
    BY <1>1, <2>1, <2>8, QueuesTriggers
  <2>9. CASE c.do = "enable_property_trigger"
    BY <1>1, <2>1, <2>9, Enables
  <2>10. CASE c.do \in DeviceCommands
    BY <1>1, <2>1, <2>10, Devises, DeviceStep
  <2> QED
    BY <1>1, <2>2, <2>3, <2>4, <2>5, <2>6, <2>7, <2>8, <2>9, <2>10, VerbIs
<1> QED
  BY <1>3 DEF Processes

(* Every step.                                                             *)
LEMMA ProcessesStep ==
  ASSUME Types, Processes, Next
  PROVE  Processes'
<1>1. \A s \in UsbDaemons : OneProcess(s) /\ s \in Services /\ s \notin Props
  BY UsbDaemonsAre, NamesAre DEF Processes
<1>2. CASE TakeEvent
  BY <1>1, <1>2, ProcessElsewhere DEF Processes, TakeEvent
<1>3. CASE ExecuteCommand
  BY <1>3, ProcessesExecuted
<1>4. ASSUME NEW x \in Services \ UsbDaemons, Aside(x), NEW s \in UsbDaemons
      PROVE  OneProcess(s)'
  <2>1. Frame(x) /\ dev'.open = dev.open /\ s # x
    BY <1>4 DEF Aside, SameGadget
  <2> QED
    BY <1>1, <2>1, ProcessByFrame
<1>5. ASSUME NEW x \in UsbDaemons, NEW s \in UsbDaemons,
             Reap(x) \/ RestartTimer(x) \/ OpenEndpoints(x) \/ ReportReady(x) \/ Die(x)
      PROVE  OneProcess(s)'
  <2>1. x \in Services /\ s \in Services /\ s \notin Props
    BY <1>1
  <2>2. CASE Reap(x)
    <3>1. /\ Frame(x) /\ dev' = dev /\ proc'[x] = "none"
          /\ prop'[x] \in {"stopped", "restarting"}
      BY <2>1, <2>2, Reaped
    <3> QED
      BY <1>1, <2>1, <3>1, ProcessByFrame DEF OneProcess
  <2>3. CASE RestartTimer(x)
    <3>1. Frame(x) /\ dev' = dev /\ proc'[x] = "begun" /\ prop'[x] = "running"
      BY <2>1, <2>3, Restarting
    <3> QED
      BY <1>1, <2>1, <3>1, ProcessByFrame DEF OneProcess
  <2>4. CASE OpenEndpoints(x)
    <3>1. /\ Frame(x) /\ prop' = prop /\ proc[x] = "begun" /\ proc'[x] = "open"
          /\ dev'.open = dev.open \cup {Function(x)}
      BY <2>4, OpenedStep
    <3>2. CASE s = x
      BY <1>1, <3>1, <3>2 DEF OneProcess
    <3>3. CASE s # x
      <4>1. prop'[s] = prop[s] /\ proc'[s] = proc[s]
        BY <2>1, <3>1, <3>3 DEF Frame
      <4> QED
        BY <1>1, <3>1, <4>1, ProcessElsewhere
    <3> QED
      BY <3>2, <3>3
  <2>5. CASE ReportReady(x)
    <3>1. /\ \A y \in (Props \cup Services) \ {"ffs.ready"} : prop'[y] = prop[y]
          /\ proc[x] = "open" /\ proc'[x] = "up" /\ dev' = dev
          /\ \A y \in Services \ {x} : proc'[y] = proc[y]
      BY <2>5, Reported
    <3>2. prop'[s] = prop[s]
      <4>1. "ffs.ready" \in Props
        BY DEF Props
      <4> QED
        BY <2>1, <3>1, <4>1
    <3>3. CASE s = x
      BY <1>1, <3>1, <3>2, <3>3 DEF OneProcess
    <3>4. CASE s # x
      BY <1>1, <2>1, <3>1, <3>2, <3>4, ProcessElsewhere
    <3> QED
      BY <3>3, <3>4
  <2>6. CASE Die(x)
    <3>1. /\ Frame(x) /\ dev' = WithoutEndpoints(x) /\ prop' = prop /\ proc'[x] = "dead"
      BY <2>1, <2>6, Died
    <3> QED
      BY <1>1, <2>1, <3>1, ProcessByFrame DEF OneProcess
  <2> QED
    BY <1>5, <2>2, <2>3, <2>4, <2>5, <2>6
<1>6. ASSUME LauncherReady \/ \E mode \in Modes : Switch(mode), NEW s \in UsbDaemons
      PROVE  OneProcess(s)'
  <2>1. "connsys" \in Props /\ "config" \in Props
    BY DEF Props
  <2>2. dev' = dev /\ proc' = proc /\ prop'[s] = prop[s]
    BY <1>1, <1>6, <2>1, LauncherReported, Switched
  <2> QED
    BY <1>1, <2>2, ProcessElsewhere
<1> QED
  BY <1>2, <1>3, <1>4, <1>5, <1>6, Steps DEF Processes

-----------------------------------------------------------------------------
(* The events of the modes, in the order of the switches.                  *)
InOrder(q, m) ==
  /\ \A i \in 1..Len(q) :
       q[i].kind = "prop" /\ q[i].name = "config" /\ q[i].value \notin {"none", m} =>
         \E j \in (i + 1)..Len(q) : q[j] = ConfigEvent("none")
  /\ \A i \in 1..Len(q) :
       q[i] = ConfigEvent("none") /\ m # "none" =>
         \E j \in (i + 1)..Len(q) : q[j] = ConfigEvent(m)

(* It is what SwitchesInOrder says of the queue and the mode.              *)
LEMMA OrderIs ==
  SwitchesInOrder <=> InOrder(queue, prop["config"])
BY DEF SwitchesInOrder, InOrder

LEMMA OrderIsNext ==
  SwitchesInOrder' <=> InOrder(queue', prop'["config"])
BY DEF SwitchesInOrder, InOrder

(* The events of the modes are different from the others.                  *)
LEMMA ConfigEventIs ==
  /\ \A m : ConfigEvent(m).kind = "prop" /\ ConfigEvent(m).name = "config"
              /\ ConfigEvent(m).value = m
  /\ \A m, n : ConfigEvent(m) = ConfigEvent(n) => m = n
  /\ \A m : ConfigEvent(m) # Ready /\ ConfigEvent(m) # AllProperties
BY DEF ConfigEvent, Event, Ready, AllProperties

(* An event of something else changes nothing.                             *)
LEMMA OrderAppended ==
  ASSUME NEW q, NEW r, NEW m, Len(q) \in Nat, Len(r) = Len(q) + 1,
         \A i \in 1..Len(q) : r[i] = q[i], r[Len(q) + 1].name # "config",
         InOrder(q, m)
  PROVE  InOrder(r, m)
<1>1. r[Len(q) + 1] # ConfigEvent("none")
  BY ConfigEventIs
<1>2. ASSUME NEW i \in 1..Len(r),
             r[i].kind = "prop" /\ r[i].name = "config" /\ r[i].value \notin {"none", m}
      PROVE  \E j \in (i + 1)..Len(r) : r[j] = ConfigEvent("none")
  <2>1. i \in 1..Len(q)
    BY <1>2
  <2>2. PICK j \in (i + 1)..Len(q) : q[j] = ConfigEvent("none")
    BY <1>2, <2>1 DEF InOrder
  <2> QED
    BY <2>1, <2>2
<1>3. ASSUME NEW i \in 1..Len(r), r[i] = ConfigEvent("none"), m # "none"
      PROVE  \E j \in (i + 1)..Len(r) : r[j] = ConfigEvent(m)
  <2>1. i \in 1..Len(q)
    BY <1>1, <1>3
  <2>2. PICK j \in (i + 1)..Len(q) : q[j] = ConfigEvent(m)
    BY <1>3, <2>1 DEF InOrder
  <2> QED
    BY <2>1, <2>2
<1> QED
  BY <1>2, <1>3 DEF InOrder

(* It holds of the queue without its first event.                          *)
LEMMA OrderTail ==
  ASSUME NEW q, NEW r, NEW m, Len(q) \in Nat \ {0}, Len(r) = Len(q) - 1,
         \A i \in 1..(Len(q) - 1) : r[i] = q[i + 1],
         InOrder(q, m)
  PROVE  InOrder(r, m)
<1>1. ASSUME NEW i \in 1..Len(r),
             r[i].kind = "prop" /\ r[i].name = "config" /\ r[i].value \notin {"none", m}
      PROVE  \E j \in (i + 1)..Len(r) : r[j] = ConfigEvent("none")
  <2>1. i + 1 \in 1..Len(q) /\ r[i] = q[i + 1]
    OBVIOUS
  <2>2. PICK j \in (i + 1 + 1)..Len(q) : q[j] = ConfigEvent("none")
    BY <1>1, <2>1 DEF InOrder
  <2>3. j - 1 \in (i + 1)..Len(r) /\ j - 1 \in 1..(Len(q) - 1) /\ (j - 1) + 1 = j
    OBVIOUS
  <2> QED
    BY <2>2, <2>3
<1>2. ASSUME NEW i \in 1..Len(r), r[i] = ConfigEvent("none"), m # "none"
      PROVE  \E j \in (i + 1)..Len(r) : r[j] = ConfigEvent(m)
  <2>1. i + 1 \in 1..Len(q) /\ r[i] = q[i + 1]
    OBVIOUS
  <2>2. PICK j \in (i + 1 + 1)..Len(q) : q[j] = ConfigEvent(m)
    BY <1>2, <2>1 DEF InOrder
  <2>3. j - 1 \in (i + 1)..Len(r) /\ j - 1 \in 1..(Len(q) - 1) /\ (j - 1) + 1 = j
    OBVIOUS
  <2> QED
    BY <2>2, <2>3
<1> QED
  BY <1>1, <1>2 DEF InOrder

(* And after a switch, from none or to none.                               *)
LEMMA OrderSwitched ==
  ASSUME NEW q, NEW r, NEW m, NEW n, Len(q) \in Nat, Len(r) = Len(q) + 1,
         \A i \in 1..Len(q) : r[i] = q[i], r[Len(q) + 1] = ConfigEvent(n),
         n = "none" \/ m = "none", n # m,
         InOrder(q, m)
  PROVE  InOrder(r, n)
<1>1. ASSUME NEW i \in 1..Len(r),
             r[i].kind = "prop" /\ r[i].name = "config" /\ r[i].value \notin {"none", n}
      PROVE  \E j \in (i + 1)..Len(r) : r[j] = ConfigEvent("none")
  <2>1. i # Len(q) + 1
    BY <1>1, ConfigEventIs
  <2>2. i \in 1..Len(q)
    BY <2>1
  <2>3. CASE n = "none"
    <3>1. Len(q) + 1 \in (i + 1)..Len(r)
      BY <2>2
    <3> QED
      BY <2>3, <3>1
  <2>4. CASE m = "none"
    <3>1. q[i] = r[i]
      BY <2>2
    <3>2. PICK j \in (i + 1)..Len(q) : q[j] = ConfigEvent("none")
      BY <1>1, <2>2, <2>4, <3>1 DEF InOrder
    <3> QED
      BY <2>2, <3>2
  <2> QED
    BY <2>3, <2>4
<1>2. ASSUME NEW i \in 1..Len(r), r[i] = ConfigEvent("none"), n # "none"
      PROVE  \E j \in (i + 1)..Len(r) : r[j] = ConfigEvent(n)
  <2>1. i # Len(q) + 1
    BY <1>2, ConfigEventIs
  <2>2. Len(q) + 1 \in (i + 1)..Len(r)
    BY <2>1
  <2> QED
    BY <2>2
<1> QED
  BY <1>1, <1>2 DEF InOrder

(* No service announces a mode.                                            *)
LEMMA AnnouncedNames == "config" \notin Announced
BY DEF Announced, Services, Oneshots, InitOneshots, WlanOneshots, TouchOneshots,
         ContainerOneshots, ContainerDaemons, UsbDaemons, Daemons

(* So it is kept by each step.                                             *)
LEMMA OrderGrows ==
  ASSUME Types, SwitchesInOrder, Grows, prop'["config"] = prop["config"]
  PROVE  SwitchesInOrder'
<1>1. /\ Len(queue) \in Nat
      /\ \/ queue' = queue
         \/ /\ Len(queue') = Len(queue) + 1
            /\ \A i \in 1..Len(queue) : queue'[i] = queue[i]
            /\ queue'[Len(queue) + 1].name \in Announced
  BY QueuedMore
<1>2. InOrder(queue, prop["config"])
  BY OrderIs
<1>3. InOrder(queue', prop["config"])
  <2>1. CASE queue' = queue
    BY <1>2, <2>1
  <2>2. CASE queue' # queue
    BY <1>1, <1>2, <2>2, OrderAppended, AnnouncedNames
  <2> QED
    BY <2>1, <2>2
<1> QED
  BY <1>3, OrderIsNext

LEMMA OrderTaken ==
  ASSUME Types, SwitchesInOrder, TakeEvent
  PROVE  SwitchesInOrder'
<1>1. /\ Len(queue) \in Nat \ {0} /\ Len(queue') = Len(queue) - 1 /\ prop' = prop
      /\ \A i \in 1..(Len(queue) - 1) : queue'[i] = queue[i + 1]
  BY QueuedNext
<1>2. InOrder(queue, prop["config"])
  BY OrderIs
<1>3. InOrder(queue', prop["config"])
  BY <1>1, <1>2, OrderTail
<1> QED
  BY <1>1, <1>3, OrderIsNext

LEMMA OrderAfterSwitch ==
  ASSUME Types, Usb, SwitchesInOrder, NEW mode \in Modes, Switch(mode)
  PROVE  SwitchesInOrder' /\ Queued(ConfigEvent(mode))' /\ Elems(queue) \subseteq Elems(queue')
<1>1. /\ prop'["config"] = mode /\ prop["config"] # mode
      /\ mode = "none" \/ prop["config"] = "none"
      /\ ConfigEvent(mode) \in Events /\ queue' = With(queue, ConfigEvent(mode))
  BY Switched
<1>2. queue \in Seq(Events) /\ HasAppended(queue', queue, ConfigEvent(mode))
  BY <1>1, TypesGive, AppendedAll
<1>3. /\ Len(queue') = Len(queue) + 1 /\ Len(queue) \in Nat
      /\ queue'[Len(queue) + 1] = ConfigEvent(mode) /\ \A i \in 1..Len(queue) : queue'[i] = queue[i]
      /\ Elems(queue') = Elems(queue) \cup {ConfigEvent(mode)}
  BY <1>2 DEF HasAppended
<1>4. InOrder(queue, prop["config"])
  BY OrderIs
<1>5. InOrder(queue', mode)
  BY <1>1, <1>3, <1>4, OrderSwitched
<1>6. SwitchesInOrder'
  BY <1>1, <1>5, OrderIsNext
<1> QED
  BY <1>3, <1>6 DEF Queued

-----------------------------------------------------------------------------
(* The commands of a mode undo nothing.                                    *)
Undoes(c) == c \in {UnbindUdc, Stop("adbd"), Stop("fastbootd"), Unlink}

LEMMA CommandsApart ==
  /\ BindUdc \notin DecomposeCommands /\ BindUdc \notin Others
  /\ \A m \in Modes : \A c \in CommandsFor(m) : ~Undoes(c)
  /\ \A m \in Modes : Others \subseteq CommandsFor(m)
  /\ \A c : Undoes(c) => c \in DecomposeCommands
  /\ CopyProp("state", "config") \in DecomposeCommands
  /\ \A m \in Modes \ {"none"} : ComposeCommands(m) \cup StartsOf(m) \subseteq CommandsFor(m)
<1>0. \A c : Undoes(c) => /\ c.do \in {"write_udc", "stop", "rm_f1"}
                          /\ c.do = "write_udc" => c.arg = "none"
  BY Fields DEF Undoes
<1>1. \A c \in Others : ~Undoes(c) /\ c # BindUdc
  <2>1. \A c \in Others : c.do = "start"
    BY Fields DEF Others
  <2> QED
    BY <1>0, <2>1, Fields
<1>2. \A m \in Modes : \A c \in ComposeCommands(m) \cup StartsOf(m) : ~Undoes(c)
  <2>1. \A m \in Modes : \A c \in ComposeCommands(m) :
          /\ c.do \in {"id_product", "symlink_f1", "write_udc", "copyprop"}
          /\ c.do = "write_udc" => c.arg = "controller"
    BY Fields DEF ComposeCommands
  <2>2. \A m \in Modes : \A c \in StartsOf(m) : c.do \in {"start", "restart"}
    BY Fields DEF StartsOf
  <2> QED
    BY <1>0, <2>1, <2>2
<1>3. BindUdc \notin DecomposeCommands
  BY DEF DecomposeCommands, UnbindUdc, Stop, Unlink, Cmd, BindUdc, CopyProp, SetProp
<1>4. /\ \A c : Undoes(c) => c \in DecomposeCommands
      /\ CopyProp("state", "config") \in DecomposeCommands
  BY DEF Undoes, DecomposeCommands
<1>5. /\ \A m \in Modes : Others \subseteq CommandsFor(m)
      /\ \A m \in Modes \ {"none"} : ComposeCommands(m) \cup StartsOf(m) \subseteq CommandsFor(m)
      /\ \A m \in Modes : CommandsFor(m) \subseteq Others \cup ComposeCommands(m) \cup StartsOf(m)
  BY DEF CommandsFor
<1> QED
  BY <1>1, <1>2, <1>3, <1>4, <1>5

(* When no command is left, none is.                                       *)
LEMMA NothingDone ==
  ASSUME todo = << >>
  PROVE  LeftOf(todo) = {}
BY DEF LeftOf, Elems

(* What the event e makes of the mode m.                                   *)
Fits(t, e, m) ==
  /\ LeftOf(t) \subseteq CommandsFor(m)
  /\ ~Unled(t, Link(m), BindUdc)
  /\ m \notin {"none", "sideload"} =>
       (e = ConfigEvent(m) \/ e = AllProperties => Start(DaemonOf(m)) \in LeftOf(t))
  /\ m # "none" => (e = Ready => LeftOf(t) = ComposeCommands(m))

(* The events that are left of other modes come before one of none.        *)
LEMMA TakenFits ==
  ASSUME Types, SteadyInv, Usb, SwitchesInOrder, TakeEvent,
         ~NoneQueued, NEW m, m = prop["config"]
  PROVE  Fits(todo', Head(queue), m)
<1> DEFINE e == Head(queue)
           t == todo'
<1>1. /\ e = queue[1] /\ 1 \in 1..Len(queue) /\ Len(queue) \in Nat \ {0}
      /\ t = Selected(e)
  BY QueuedNext
<1>2. m \in Modes /\ prop["configfs"] = "1" /\ EventsInv
  BY DEF SteadyInv
<1>3. \/ e.kind = "all" /\ m = "adb"
      \/ e.kind = "prop" /\ e.name \in {"config", "ffs.ready"} \cup Services
  BY <1>1, <1>2 DEF EventsInv
<1>4. /\ AllProperties.kind = "all"
      /\ Ready.kind = "prop" /\ Ready.name = "ffs.ready" /\ Ready.value = "1"
      /\ {"config", "ffs.ready"} \cap Services = {}
  BY DEF AllProperties, Ready, Event, Services, Oneshots, InitOneshots, WlanOneshots, TouchOneshots,
         ContainerOneshots, ContainerDaemons, UsbDaemons, Daemons
<1> HIDE DEF e, t
<1>5. CASE e.kind = "all" /\ m = "adb"
  <2>1. /\ LeftOf(t) \subseteq CommandsFor(m) /\ ~Unled(t, Link(m), BindUdc)
        /\ Start("adbd") \in LeftOf(t)
    BY <1>1, <1>2, <1>5, AllSelected
  <2>2. DaemonOf(m) = "adbd" /\ e # Ready
    BY <1>4, <1>5 DEF DaemonOf
  <2> QED
    BY <2>1, <2>2 DEF Fits, e, t
<1>6. CASE e.kind = "prop" /\ e.name = "config"
  <2>1. e # Ready /\ e # AllProperties
    BY <1>4, <1>6
  <2>2. e.value = m
    <3>1. InOrder(queue, m)
      BY OrderIs
    <3>2. ASSUME e.value \notin {"none", m} PROVE FALSE
      <4>1. PICK j \in (1 + 1)..Len(queue) : queue[j] = ConfigEvent("none")
        BY <1>1, <1>6, <3>1, <3>2 DEF InOrder
      <4>2. j \in 1..Len(queue)
        BY <1>1
      <4> QED
        BY <4>1, <4>2 DEF NoneQueued, Queued, Elems
    <3>3. e.value # "none"
      <4>1. e \in Events
        BY <1>1, TypesGive, ElementOfSeq
      <4>2. e = ConfigEvent(e.value)
        BY <1>6, <4>1 DEF Events, ConfigEvent, Event
      <4> QED
        BY <1>1, <4>2 DEF NoneQueued, Queued, Elems
    <3> QED
      BY <3>2, <3>3
  <2>3. m # "none"
    <3>1. e \in Events
      BY <1>1, TypesGive, ElementOfSeq
    <3>2. e = ConfigEvent(e.value)
      BY <1>6, <3>1 DEF Events, ConfigEvent, Event
    <3> QED
      BY <1>1, <2>2, <3>2 DEF NoneQueued, Queued, Elems
  <2>4. /\ LeftOf(t) \subseteq ComposeCommands(m) \cup StartsOf(m)
        /\ ~Unled(t, Link(m), BindUdc)
        /\ m # "sideload" => Start(DaemonOf(m)) \in LeftOf(t)
    BY <1>1, <1>2, <1>6, <2>2, <2>3, ConfigSelected
  <2>5. LeftOf(t) \subseteq CommandsFor(m)
    BY <1>2, <2>3, <2>4, CommandsApart
  <2> QED
    BY <2>1, <2>3, <2>4, <2>5 DEF Fits, e, t
<1>7. CASE e.kind = "prop" /\ e.name = "ffs.ready"
  <2>1. e # AllProperties /\ e # ConfigEvent(m)
    BY <1>4, <1>7, ConfigEventIs
  <2>2. CASE m = "none"
    <3>1. LeftOf(t) = {}
      BY <1>1, <1>2, <1>7, <2>2, ReadySelected
    <3> QED
      BY <2>1, <2>2, <3>1, NotLed DEF Fits, e, t
  <2>3. CASE m # "none"
    <3>1. /\ LeftOf(t) \subseteq ComposeCommands(m) /\ ~Unled(t, Link(m), BindUdc)
          /\ e.value = "1" => LeftOf(t) = ComposeCommands(m)
      BY <1>1, <1>2, <1>7, <2>3, ReadySelected
    <3>2. LeftOf(t) \subseteq CommandsFor(m)
      BY <1>2, <2>3, <3>1, CommandsApart
    <3> QED
      BY <1>4, <2>1, <3>1, <3>2 DEF Fits, e, t
  <2> QED
    BY <2>2, <2>3
<1>8. CASE e.kind = "prop" /\ e.name \in Services
  <2>1. e # AllProperties /\ e # ConfigEvent(m) /\ e # Ready
    BY <1>4, <1>8, ConfigEventIs
  <2>2. LeftOf(t) \subseteq Others
    BY <1>1, <1>8, ServiceSelected
  <2>3. LeftOf(t) \subseteq CommandsFor(m) /\ BindUdc \notin LeftOf(t)
    BY <1>2, <2>2, CommandsApart
  <2> QED
    BY <2>1, <2>3, NotLed DEF Fits, e, t
<1> QED
  BY <1>3, <1>5, <1>6, <1>7, <1>8

(* The decomposing starts: everything is still to be done.                 *)
LEMMA NoneTaken ==
  ASSUME Types, SteadyInv, Usb, SwitchesInOrder, TakeEvent, Head(queue) = ConfigEvent("none")
  PROVE  GadgetCore'
<1>1. /\ Head(queue) = queue[1] /\ 1 \in 1..Len(queue) /\ Len(queue) \in Nat \ {0}
      /\ Len(queue') = Len(queue) - 1 /\ todo' = Selected(Head(queue)) /\ prop' = prop
      /\ \A i \in 1..(Len(queue) - 1) : queue'[i] = queue[i + 1]
  BY QueuedNext
<1>2. LeftOf(todo') = DecomposeCommands
  BY <1>1, ConfigEventIs, ConfigSelected DEF SteadyInv
<1>3. \A m : ~Unled(todo', Link(m), BindUdc)
  BY <1>2, CommandsApart, NotLed
<1>4. LeftInv'
  BY <1>2, <1>3 DEF LeftInv
<1>5. \A c : Undoes(c) => c \in LeftOf(todo')
  BY <1>2, CommandsApart
<1>6. /\ UnbindUdc \in LeftOf(todo') /\ Unlink \in LeftOf(todo')
      /\ CopyProp("state", "config") \in LeftOf(todo')
      /\ \A s \in UsbDaemons : Stop(s) \in LeftOf(todo')
  BY <1>2, <1>5, CommandsApart DEF Undoes, UsbDaemons
<1>7. Undoing' /\ OffInv'
  <2>1. Undoing'
    BY <1>6 DEF Undoing
  <2> QED
    BY <1>6, <2>1 DEF OffInv, Taken
<1>8. prop'["config"] # "none" => StartInv(prop["config"])'
  <2> SUFFICES ASSUME prop["config"] # "none"
               PROVE  Queued(ConfigEvent(prop["config"]))'
    BY <1>1 DEF StartInv
  <2>1. InOrder(queue, prop["config"])
    BY OrderIs
  <2>2. PICK j \in (1 + 1)..Len(queue) : queue[j] = ConfigEvent(prop["config"])
    BY <1>1, <2>1 DEF InOrder
  <2>3. j - 1 \in 1..(Len(queue) - 1) /\ (j - 1) + 1 = j
    BY <1>1
  <2>4. queue'[j - 1] = ConfigEvent(prop["config"])
    BY <1>1, <2>2, <2>3
  <2> QED
    BY <1>1, <2>3, <2>4 DEF Queued, Elems
<1> QED
  BY <1>4, <1>7, <1>8 DEF GadgetCore

(* An event is taken.                                                      *)
LEMMA CoreTaken ==
  ASSUME Types, SteadyInv, Usb, SwitchesInOrder, ~NoneQueued => GadgetCore, TakeEvent,
         ~NoneQueued'
  PROVE  GadgetCore'
<1> DEFINE m == prop["config"]
           e == Head(queue)
           d == DaemonOf(m)
<1>1. /\ Elems(queue) = {e} \cup Elems(queue') /\ todo = << >>
      /\ prop' = prop /\ proc' = proc /\ dev' = dev /\ held' = held
  BY QueuedNext
<1>2. CASE e = ConfigEvent("none")
  BY <1>2, NoneTaken
<1>3. CASE e # ConfigEvent("none")
  <2>1. ~NoneQueued /\ GadgetCore
    BY <1>1, <1>3 DEF NoneQueued, Queued
  <2>2. LeftOf(todo) = {}
    BY <1>1, NothingDone
  <2>3. Fits(todo', e, m)
    BY <2>1, TakenFits
  <2>4. m \in Modes /\ prop'["config"] = m
    BY <1>1 DEF SteadyInv
  <2>5. ~Undoing /\ ~Undoing'
    <3>1. \A c \in LeftOf(todo') : ~Undoes(c)
      BY <2>3, <2>4, CommandsApart DEF Fits
    <3> QED
      BY <2>2, <3>1 DEF Undoing, Undoes
  <2>6. LeftInv'
    BY <1>1, <2>3 DEF LeftInv, Fits
  <2>7. m = "none" => OffInv'
    <3>1. ASSUME m = "none" PROVE OffInv
      BY <2>1, <3>1 DEF GadgetCore
    <3>2. ASSUME m = "none"
          PROVE  /\ ~dev.udc /\ dev.f1 = "" /\ \A s \in UsbDaemons : Off(s)
                 /\ prop["state"] = "none"
      BY <2>2, <3>1, <3>2 DEF OffInv, Taken
    <3> QED
      BY <1>1, <3>2 DEF OffInv, Off
  <2>8. m # "none" => StartInv(m)'
    <3> SUFFICES ASSUME m # "none", m # "sideload"
                 PROVE  \/ Wanted(d)
                        \/ Start(d) \in LeftOf(todo')
                        \/ Queued(ConfigEvent(m))' \/ Queued(AllProperties)'
      BY <1>1, <2>5 DEF StartInv, Wanted
    <3>1. \/ Wanted(d) \/ Queued(ConfigEvent(m)) \/ Queued(AllProperties)
      BY <2>1, <2>2 DEF GadgetCore, StartInv
    <3>2. e = ConfigEvent(m) \/ e = AllProperties => Start(d) \in LeftOf(todo')
      BY <2>3 DEF Fits
    <3> QED
      BY <1>1, <3>1, <3>2 DEF Queued
  <2>9. m # "none" => OnInv(m)'
    <3> SUFFICES ASSUME m # "none" PROVE OnInv(m)'
      OBVIOUS
    <3>1. OnInv(m)
      BY <2>1, <2>5 DEF GadgetCore
    <3>2. \A c : Taken(c)
      BY <2>2 DEF Taken
    <3>3. /\ dev.f1 \in {"", FunctionOf(m)}
          /\ m # "sideload" /\ proc[d] = "up" /\ ~Queued(Ready) =>
               /\ dev.id = m /\ dev.f1 = FunctionOf(m) /\ dev.udc /\ prop["state"] = m
      BY <3>1, <3>2 DEF OnInv
    <3>4. CASE e = Ready
      <4>1. LeftOf(todo') = ComposeCommands(m)
        BY <2>3, <3>4 DEF Fits
      <4>2. /\ IdProduct(m) \in LeftOf(todo') /\ Link(m) \in LeftOf(todo')
            /\ BindUdc \in LeftOf(todo') /\ CopyProp("state", "config") \in LeftOf(todo')
        BY <4>1 DEF ComposeCommands
      <4> QED
        BY <1>1, <3>3, <4>2 DEF OnInv, Taken
    <3>5. CASE e # Ready
      <4>1. Queued(Ready) => Queued(Ready)'
        BY <1>1, <3>5 DEF Queued
      <4> QED
        BY <1>1, <3>3, <4>1 DEF OnInv
    <3> QED
      BY <3>4, <3>5
  <2> QED
    BY <1>1, <2>5, <2>6, <2>7, <2>8, <2>9 DEF GadgetCore
<1> QED
  BY <1>2, <1>3

-----------------------------------------------------------------------------
(* What the steps between two commands leave of the gadget.                *)
DaemonKept(s) ==
  /\ Off(s) => Off(s)'
  /\ Wanted(s) => Wanted(s)'
  /\ proc'[s] = "up" => proc[s] = "up" \/ Queued(Ready)'
  /\ dev.udc /\ dev.f1 \in {"", Function(s)} /\ proc'[s] = "up" => dev'.udc

(* The daemon of a mode opens the function of the mode.                    *)
LEMMA DaemonOfIs ==
  /\ \A m : DaemonOf(m) \in UsbDaemons /\ Function(DaemonOf(m)) = FunctionOf(m)
  /\ \A m : FunctionOf(m) \in Functions /\ FunctionOf(m) # ""
BY DEF DaemonOf, UsbDaemons, Function, FunctionOf, Functions

(* If it leaves all daemons so, the gadget is kept.                        *)
LEMMA CoreKept ==
  ASSUME GadgetCore, todo' = todo, prop'["config"] = prop["config"],
         prop'["state"] = prop["state"], dev'.f1 = dev.f1, dev'.id = dev.id,
         Elems(queue) \subseteq Elems(queue'), dev'.udc => dev.udc,
         \A s \in UsbDaemons : DaemonKept(s)
  PROVE  GadgetCore'
<1> DEFINE m == prop["config"]
           d == DaemonOf(m)
<1>1. LeftInv'
  BY DEF GadgetCore, LeftInv
<1>2. (Undoing' <=> Undoing) /\ (\A c : Taken(c)' <=> Taken(c))
  BY DEF Undoing, Taken
<1>3. OffInv => OffInv'
  BY <1>2 DEF OffInv, DaemonKept
<1>4. \A e : Queued(e) => Queued(e)'
  BY DEF Queued
<1>5. d \in UsbDaemons /\ DaemonKept(d) /\ Function(d) = FunctionOf(m)
  BY DaemonOfIs
<1>6. StartInv(m) => StartInv(m)'
  <2> SUFFICES ASSUME StartInv(m), m # "sideload"
               PROVE  \/ ~Undoing' /\ Wanted(d)'
                      \/ Start(d) \in LeftOf(todo)
                      \/ Queued(ConfigEvent(m))' \/ Queued(AllProperties)'
    BY DEF StartInv
  <2>1. Wanted(d) => Wanted(d)'
    BY <1>5 DEF DaemonKept
  <2> QED
    BY <1>2, <1>4, <2>1 DEF StartInv
<1>7. OnInv(m) => OnInv(m)'
  <2> SUFFICES ASSUME OnInv(m) PROVE OnInv(m)'
    OBVIOUS
  <2>1. dev.f1 \in {"", FunctionOf(m)}
    BY DEF OnInv
  <2>2. ASSUME m # "sideload", proc'[d] = "up", ~Queued(Ready)'
        PROVE  /\ Taken(IdProduct(m)) => dev.id = m
               /\ Taken(Link(m)) => dev.f1 = FunctionOf(m)
               /\ Taken(BindUdc) => dev.udc /\ dev'.udc
               /\ Taken(CopyProp("state", "config")) => prop["state"] = m
    <3>1. proc[d] = "up" /\ ~Queued(Ready)
      BY <1>4, <1>5, <2>2 DEF DaemonKept
    <3>2. /\ Taken(IdProduct(m)) => dev.id = m
          /\ Taken(Link(m)) => dev.f1 = FunctionOf(m)
          /\ Taken(BindUdc) => dev.udc
          /\ Taken(CopyProp("state", "config")) => prop["state"] = m
      BY <2>2, <3>1 DEF OnInv
    <3>3. dev.udc => dev'.udc
      BY <1>5, <2>1, <2>2 DEF DaemonKept
    <3> QED
      BY <3>2, <3>3
  <2> QED
    BY <1>2, <2>1, <2>2 DEF OnInv
<1> QED
  BY <1>1, <1>2, <1>3, <1>6, <1>7 DEF GadgetCore

(* A daemon that a step is not about.                                      *)
LEMMA DaemonElsewhere ==
  ASSUME NEW s \in UsbDaemons, prop'[s] = prop[s], proc'[s] = proc[s],
         s \in held <=> s \in held',
         dev.udc /\ dev.f1 \in {"", Function(s)} => dev'.udc
  PROVE  DaemonKept(s)
BY DEF DaemonKept, Off, Wanted

(* Or that another service is about.                                       *)
LEMMA DaemonByFrame ==
  ASSUME NEW x, NEW s \in UsbDaemons, s # x, Frame(x),
         dev.udc /\ dev.f1 \in {"", Function(s)} => dev'.udc
  PROVE  DaemonKept(s)
<1>1. s \in Services
  BY UsbDaemonsAre
<1> QED
  BY <1>1, DaemonElsewhere DEF Frame

(* A daemon comes up, dies, is reaped or restarted.                        *)
LEMMA DaemonSteps ==
  ASSUME Types, enabled, Usb, NEW s \in UsbDaemons,
         Reap(s) \/ RestartTimer(s) \/ OpenEndpoints(s) \/ ReportReady(s) \/ Die(s)
  PROVE  /\ \A x \in UsbDaemons : DaemonKept(x)
         /\ todo' = todo /\ prop'["config"] = prop["config"] /\ prop'["state"] = prop["state"]
         /\ dev'.f1 = dev.f1 /\ dev'.id = dev.id /\ Grows
         /\ dev'.udc => dev.udc
<1>1. s \in Services /\ s \notin Oneshots
  BY DEF UsbDaemons, Services, Daemons, Oneshots, InitOneshots, WlanOneshots, TouchOneshots,
         ContainerOneshots, ContainerDaemons
<1>2. /\ {"config", "state"} \subseteq (Props \cup Services) \ {s}
      /\ {"config", "state"} \subseteq (Props \cup Services) \ {"ffs.ready"}
  BY <1>1 DEF Props, Services, Daemons, Oneshots, InitOneshots, WlanOneshots, TouchOneshots,
         ContainerOneshots, ContainerDaemons, UsbDaemons
<1>3. CASE Reap(s)
  <2>1. /\ Frame(s) /\ todo' = todo /\ dev' = dev /\ held' = held
        /\ proc[s] = "dead" /\ proc'[s] = "none"
        /\ prop'[s] = IF s \in held THEN "stopped" ELSE "restarting"
    BY <1>1, <1>3, Reaped
  <2>2. DaemonKept(s)
    BY <2>1 DEF DaemonKept, Off, Wanted
  <2>3. \A x \in UsbDaemons : DaemonKept(x)
    BY <2>1, <2>2, DaemonByFrame
  <2> QED
    BY <1>2, <2>1, <2>3 DEF Frame
<1>4. CASE RestartTimer(s)
  <2>1. /\ Frame(s) /\ todo' = todo /\ dev' = dev /\ held' = held
        /\ prop[s] = "restarting" /\ prop'[s] = "running" /\ proc'[s] = "begun"
    BY <1>1, <1>4, Restarting
  <2>2. DaemonKept(s)
    BY <2>1 DEF DaemonKept, Off, Wanted
  <2>3. \A x \in UsbDaemons : DaemonKept(x)
    BY <2>1, <2>2, DaemonByFrame
  <2> QED
    BY <1>2, <2>1, <2>3 DEF Frame
<1>5. CASE OpenEndpoints(s)
  <2>1. /\ Frame(s) /\ prop' = prop /\ todo' = todo
        /\ held' = held /\ proc[s] = "begun" /\ proc'[s] = "open"
        /\ dev'.id = dev.id /\ dev'.f1 = dev.f1 /\ dev'.udc = dev.udc
    BY <1>5, OpenedStep
  <2>2. DaemonKept(s)
    BY <2>1 DEF DaemonKept, Off, Wanted
  <2>3. \A x \in UsbDaemons : DaemonKept(x)
    BY <2>1, <2>2, DaemonByFrame
  <2> QED
    BY <1>2, <2>1, <2>3 DEF Frame
<1>6. CASE ReportReady(s)
  <2>1. /\ \A x \in (Props \cup Services) \ {"ffs.ready"} : prop'[x] = prop[x]
        /\ Grows /\ queue' = With(queue, Ready)
        /\ proc[s] = "open" /\ proc'[s] = "up"
        /\ \A x \in Services \ {s} : proc'[x] = proc[x]
        /\ todo' = todo /\ dev' = dev /\ held' = held
    BY <1>6, Reported, WatchedNames
  <2>2. Queued(Ready)'
    <3>1. Ready \in Events
      BY DEF Ready, Event, Events, Names, Values
    <3>2. HasAppended(queue', queue, Ready)
      BY <2>1, <3>1, TypesGive, AppendedAll
    <3> QED
      BY <3>2 DEF HasAppended, Queued
  <2>3. \A x \in UsbDaemons : x \in Services /\ x # "ffs.ready"
    BY DEF UsbDaemons, Services, Daemons, Oneshots, InitOneshots, WlanOneshots, TouchOneshots,
         ContainerOneshots, ContainerDaemons
  <2>4. DaemonKept(s)
    BY <2>1, <2>2, <2>3 DEF DaemonKept, Off, Wanted
  <2>5. \A x \in UsbDaemons : x # s => DaemonKept(x)
    BY <2>1, <2>3, DaemonElsewhere
  <2> QED
    BY <1>2, <2>1, <2>4, <2>5
<1>7. CASE Die(s)
  <2>1. /\ Frame(s) /\ todo' = todo /\ held' = held
        /\ dev' = WithoutEndpoints(s) /\ prop' = prop
        /\ prop[s] = "running" /\ proc'[s] = "dead"
    BY <1>1, <1>7, Died
  <2>2. /\ dev'.id = dev.id /\ dev'.f1 = dev.f1
        /\ dev'.udc = (dev.udc /\ dev.f1 # Function(s))
    BY <1>1, <2>1, ClosedStep
  <2>3. DaemonKept(s)
    BY <2>1 DEF DaemonKept, Off, Wanted
  <2>4. \A x \in UsbDaemons : x # s => DaemonKept(x)
    <3> SUFFICES ASSUME NEW x \in UsbDaemons, x # s PROVE DaemonKept(x)
      OBVIOUS
    <3>1. Function(x) # Function(s) /\ Function(s) # ""
      BY Apart, UsbDaemonsAre DEF Functions
    <3>2. dev.udc /\ dev.f1 \in {"", Function(x)} => dev'.udc
      BY <2>2, <3>1
    <3> QED
      BY <2>1, <3>2, DaemonByFrame
  <2> QED
    BY <1>2, <2>1, <2>2, <2>3, <2>4 DEF Frame
<1> QED
  BY <1>3, <1>4, <1>5, <1>6, <1>7

(* A step between two commands, but a switch.                              *)
LEMMA CoreBetween ==
  ASSUME Types, enabled, SteadyInv, Usb, ~NoneQueued => GadgetCore,
         \/ \E s \in Services \ UsbDaemons : Aside(s)
         \/ \E s \in UsbDaemons : Reap(s) \/ RestartTimer(s) \/ OpenEndpoints(s)
                                    \/ ReportReady(s) \/ Die(s)
         \/ LauncherReady,
         ~NoneQueued'
  PROVE  GadgetCore'
<1>1. /\ todo' = todo /\ prop'["config"] = prop["config"] /\ prop'["state"] = prop["state"]
      /\ dev'.f1 = dev.f1 /\ dev'.id = dev.id /\ Grows
      /\ dev'.udc => dev.udc
      /\ \A x \in UsbDaemons : DaemonKept(x)
  <2>1. CASE \E s \in Services \ UsbDaemons : Aside(s)
    <3>1. PICK s \in Services \ UsbDaemons : Aside(s)
      BY <2>1
    <3>2. /\ Frame(s) /\ todo' = todo /\ SameGadget(dev', dev)
      BY <3>1 DEF Aside
    <3>3. {"config", "state"} \subseteq (Props \cup Services) \ {s}
      BY DEF Props, Services, Daemons, Oneshots, InitOneshots, WlanOneshots, TouchOneshots,
         ContainerOneshots, ContainerDaemons, UsbDaemons
    <3>4. /\ dev'.f1 = dev.f1 /\ dev'.id = dev.id /\ dev'.udc = dev.udc
      BY <3>2 DEF SameGadget
    <3>5. \A x \in UsbDaemons : DaemonKept(x)
      BY <3>2, <3>4, DaemonByFrame
    <3> QED
      BY <3>2, <3>3, <3>4, <3>5 DEF Frame
  <2>2. CASE \E s \in UsbDaemons : Reap(s) \/ RestartTimer(s) \/ OpenEndpoints(s)
                                    \/ ReportReady(s) \/ Die(s)
    BY <2>2, DaemonSteps
  <2>3. CASE LauncherReady
    <3>1. /\ \A x \in (Props \cup Services) \ {"connsys"} : prop'[x] = prop[x]
          /\ queue' = queue /\ proc' = proc
          /\ todo' = todo /\ dev' = dev /\ held' = held
      BY <2>3, LauncherReported
    <3>2. /\ {"config", "state"} \subseteq (Props \cup Services) \ {"connsys"}
          /\ UsbDaemons \subseteq (Props \cup Services) \ {"connsys"}
      BY DEF Props, Services, Daemons, Oneshots, InitOneshots, WlanOneshots, TouchOneshots,
         ContainerOneshots, ContainerDaemons, UsbDaemons
    <3>3. \A x \in UsbDaemons : DaemonKept(x)
      BY <3>1, <3>2, DaemonElsewhere
    <3> QED
      BY <3>1, <3>2, <3>3 DEF Grows, Longer
  <2> QED
    BY <2>1, <2>2, <2>3
<1>2. Elems(queue) \subseteq Elems(queue')
  BY <1>1, QueuedMore
<1>3. GadgetCore
  BY <1>2 DEF NoneQueued, Queued
<1> QED
  BY <1>1, <1>2, <1>3, CoreKept

(* A switch to a mode other than none comes when none is undone or being   *)
(* undone.                                                                 *)
LEMMA CoreSwitched ==
  ASSUME Types, SteadyInv, Usb, ~NoneQueued => GadgetCore, NEW mode \in Modes, Switch(mode),
         Queued(ConfigEvent(mode))', Elems(queue) \subseteq Elems(queue'), ~NoneQueued'
  PROVE  GadgetCore'
<1> DEFINE d == DaemonOf(mode)
<1>1. /\ prop'["config"] = mode
      /\ mode = "none" \/ prop["config"] = "none"
      /\ prop["config"] # mode
      /\ \A x \in (Props \cup Services) \ {"config"} : prop'[x] = prop[x]
      /\ todo' = todo /\ proc' = proc /\ dev' = dev /\ held' = held
  BY Switched
<1>2. mode # "none" /\ prop["config"] = "none"
  BY <1>1 DEF NoneQueued
<1>3. ~NoneQueued
  BY DEF NoneQueued, Queued
<1>4. GadgetCore
  BY <1>3
<1>5. OffInv /\ LeftInv
  BY <1>2, <1>4 DEF GadgetCore
<1>6. \A s \in UsbDaemons : prop'[s] = prop[s]
  <2>1. \A s \in UsbDaemons : s \in (Props \cup Services) \ {"config"}
    BY DEF UsbDaemons, Services, Daemons, Oneshots, InitOneshots, WlanOneshots, TouchOneshots,
         ContainerOneshots, ContainerDaemons
  <2> QED
    BY <1>1, <2>1
<1>7. (Undoing' <=> Undoing) /\ (\A c : Taken(c)' <=> Taken(c))
  BY <1>1 DEF Undoing, Taken
<1>8. LeftInv'
  <2>1. CommandsFor("none") = Others
    BY DEF CommandsFor
  <2>2. LeftOf(todo) \subseteq DecomposeCommands \/ LeftOf(todo) \subseteq Others
    BY <1>2, <1>5, <2>1 DEF LeftInv
  <2>3. BindUdc \notin LeftOf(todo)
    BY <2>2, CommandsApart
  <2>4. ~Unled(todo, Link(mode), BindUdc)
    BY <2>3, NotLed
  <2>5. LeftOf(todo) \subseteq DecomposeCommands \/ LeftOf(todo) \subseteq CommandsFor(mode)
    BY <2>2, CommandsApart
  <2> QED
    BY <1>1, <2>4, <2>5 DEF LeftInv
<1>9. OffInv'
  BY <1>1, <1>2, <1>5, <1>6, <1>7 DEF OffInv, Off
<1>10. StartInv(mode)'
  BY DEF StartInv
<1>11. ~Undoing => OnInv(mode)'
  <2> SUFFICES ASSUME ~Undoing PROVE OnInv(mode)'
    OBVIOUS
  <2>1. d \in UsbDaemons
    BY DaemonOfIs
  <2>2. Taken(Stop(d)) /\ Taken(Unlink)
    BY <2>1 DEF Undoing, Taken, UsbDaemons
  <2>3. proc[d] # "up" /\ dev.f1 = ""
    BY <1>5, <2>1, <2>2 DEF OffInv, Off
  <2> QED
    BY <1>1, <2>3 DEF OnInv
<1> QED
  BY <1>1, <1>2, <1>7, <1>8, <1>9, <1>10, <1>11 DEF GadgetCore

-----------------------------------------------------------------------------
(* The commands that decompose the gadget.                                 *)
LEMMA ReadyAndState ==
  /\ {"config", "state", "ffs.ready"} \subseteq Props
  /\ \A s \in Services : {"config", "state", "ffs.ready"} \subseteq (Props \cup Services) \ {s}
  /\ \A s \in UsbDaemons, p \in Props : s \in (Props \cup Services) \ {p}
BY DEF Props, Services, Daemons, Oneshots, InitOneshots, WlanOneshots, TouchOneshots,
         ContainerOneshots, ContainerDaemons, UsbDaemons

(* Each does its part of the undoing, and none anything else.              *)
LEMMA Decomposing ==
  ASSUME Types, Processes, ExecuteCommand, NEW c \in DecomposeCommands, c = Current(todo)
  PROVE  /\ dev'.udc => dev.udc /\ c # UnbindUdc
         /\ dev'.f1 = IF c = Unlink THEN "" ELSE dev.f1
         /\ prop'["state"] = IF c = CopyProp("state", "config") THEN prop["config"] ELSE prop["state"]
         /\ \A s \in UsbDaemons : Off(s) \/ c = Stop(s) => Off(s)'
         /\ ~Undoes(c) => /\ dev' = dev /\ proc' = proc /\ held' = held
                          /\ \A s \in UsbDaemons : prop'[s] = prop[s]
<1>1. c \in Commands /\ Execute(c)
  BY Executed
<1>2. CASE c = SetProp("ffs.ready", "0")
  <2>1. c.do = "setprop" /\ c.arg = "ffs.ready"
    BY <1>2, Fields
  <2>2. /\ \A x \in (Props \cup Services) \ {"ffs.ready"} : prop'[x] = prop[x]
        /\ held' = held /\ proc' = proc /\ dev' = dev
    BY <1>1, <2>1, SetsProp
  <2>3. /\ c # Unlink /\ c # UnbindUdc /\ c # CopyProp("state", "config")
        /\ \A s \in UsbDaemons : c # Stop(s)
    BY <2>1, Fields
  <2>4. prop'["state"] = prop["state"] /\ \A s \in UsbDaemons : prop'[s] = prop[s]
    BY <2>2, ReadyAndState
  <2> QED
    BY <2>2, <2>3, <2>4 DEF Off
<1>3. CASE c = CopyProp("state", "config")
  <2>1. c.do = "copyprop"
    BY <1>3, Fields
  <2>2. /\ prop'["state"] = prop["config"]
        /\ \A x \in (Props \cup Services) \ {"state"} : prop'[x] = prop[x]
        /\ held' = held /\ proc' = proc /\ dev' = dev
    BY <1>1, <2>1, CopiesProp
  <2>3. c # Unlink /\ c # UnbindUdc /\ \A s \in UsbDaemons : c # Stop(s)
    BY <2>1, Fields
  <2>4. \A s \in UsbDaemons : prop'[s] = prop[s]
    BY <2>2, ReadyAndState
  <2> QED
    BY <1>3, <2>2, <2>3, <2>4 DEF Off
<1>4. CASE c = UnbindUdc \/ c = Unlink
  <2>1. /\ c.do \in {"write_udc", "rm_f1"}
        /\ c.do = "write_udc" => c.arg = "none"
        /\ c.do = "rm_f1" <=> c = Unlink
    BY <1>4, Fields
  <2>2. c.do \in DeviceCommands
    BY <2>1 DEF DeviceCommands
  <2>3. dev' = DeviceAfter(c) /\ prop' = prop /\ held' = held /\ proc' = proc
    BY <1>1, <2>2, Devises
  <2>4. /\ dev'.f1 = IF c.do = "rm_f1" THEN "" ELSE dev.f1
        /\ ~dev'.udc
    BY <1>1, <2>1, <2>2, <2>3, DeviceStep
  <2>5. c # CopyProp("state", "config") /\ \A s \in UsbDaemons : c # Stop(s)
    BY <2>1, Fields
  <2>6. Undoes(c)
    BY <1>4 DEF Undoes
  <2> QED
    BY <2>1, <2>3, <2>4, <2>5, <2>6 DEF Off
<1>5. ASSUME NEW x \in UsbDaemons, c = Stop(x)
      PROVE  /\ dev'.udc => dev.udc /\ c # UnbindUdc
             /\ dev'.f1 = dev.f1 /\ c # Unlink
             /\ prop'["state"] = prop["state"] /\ c # CopyProp("state", "config")
             /\ \A s \in UsbDaemons : Off(s) \/ c = Stop(s) => Off(s)'
             /\ Undoes(c)
  <2>1. c.do = "stop" /\ c.arg = x /\ x \in Services /\ \A s : c = Stop(s) => s = x
    BY <1>5, Fields, UsbDaemonsAre
  <2>2. DoStop(x)
    BY <1>1, <2>1, Stops
  <2>3. /\ Frame(x) /\ x \in held'
        /\ prop[x] = "running" => /\ prop'[x] = "stopping" /\ proc'[x] = "dead"
                                  /\ dev' = WithoutEndpoints(x)
        /\ prop[x] # "running" => /\ prop'[x] = IF prop[x] = "stopping" THEN "stopping" ELSE "stopped"
                                  /\ proc' = proc /\ dev' = dev
    BY <2>1, <2>2, Stopped
  <2>4. OneProcess(x)
    BY DEF Processes
  <2>5. Off(x)'
    BY <2>3, <2>4 DEF Off, OneProcess
  <2>6. \A s \in UsbDaemons : s # x => (Off(s) => Off(s)')
    BY <2>3, UsbDaemonsAre DEF Off, Frame
  <2>7. dev'.f1 = dev.f1 /\ (dev'.udc => dev.udc)
    BY <2>1, <2>3, ClosedStep
  <2>8. prop'["state"] = prop["state"]
    BY <2>1, <2>3, ReadyAndState DEF Frame
  <2>9. c # UnbindUdc /\ c # Unlink /\ c # CopyProp("state", "config")
    BY <2>1, Fields
  <2>10. Undoes(c)
    BY <1>5 DEF Undoes, UsbDaemons
  <2> QED
    BY <2>1, <2>5, <2>6, <2>7, <2>8, <2>9, <2>10
<1>6. \/ c = SetProp("ffs.ready", "0") \/ c = CopyProp("state", "config")
      \/ c = UnbindUdc \/ c = Unlink
      \/ \E x \in UsbDaemons : c = Stop(x)
  BY DEF DecomposeCommands, UsbDaemons
<1> QED
  BY <1>2, <1>3, <1>4, <1>5, <1>6, Zenon

-----------------------------------------------------------------------------
(* The commands of a mode.                                                 *)
LEMMA CommandForIs ==
  ASSUME NEW m \in Modes \ {"none"}, NEW c \in CommandsFor(m)
  PROVE  \/ c \in Others
         \/ c = IdProduct(m) \/ c = Link(m) \/ c = BindUdc \/ c = CopyProp("state", "config")
         \/ m # "sideload" /\ (c = Start(DaemonOf(m)) \/ c = Restart(DaemonOf(m)))
<1>1. c \in Others \cup ComposeCommands(m) \cup StartsOf(m)
  BY DEF CommandsFor
<1>2. c \in StartsOf(m) =>
        m # "sideload" /\ (c = Start(DaemonOf(m)) \/ c = Restart(DaemonOf(m)))
  BY DEF StartsOf, DaemonOf
<1> QED
  BY <1>1, <1>2 DEF ComposeCommands

(* Starting something else.                                                *)
LEMMA StartsAside ==
  ASSUME Types, ExecuteCommand, NEW c \in Others, c = Current(todo)
  PROVE  /\ dev' = dev /\ prop'["state"] = prop["state"]
         /\ \A s \in UsbDaemons : /\ prop'[s] = prop[s] /\ proc'[s] = proc[s]
                                  /\ s \in held' <=> s \in held
<1>1. c \in Commands /\ Execute(c)
  BY Executed
<1>2. PICK x \in {"wifi-helper", "ubuntu-droidspaces"} : c = Start(x)
  BY DEF Others
<1>3. x \in Services \ UsbDaemons
  BY <1>2, UsbDaemonsAre
<1>4. c.do = "start" /\ c.arg = x
  BY <1>2, Fields
<1>5. Frame(x) /\ dev' = dev
  BY <1>1, <1>3, <1>4, Starts, Started
<1>6. prop'["state"] = prop["state"]
  BY <1>3, <1>5, ReadyAndState DEF Frame
<1>7. \A s \in UsbDaemons : s \in Services \ {x} /\ s \in (Props \cup Services) \ {x}
  BY <1>3, UsbDaemonsAre
<1> QED
  BY <1>5, <1>6, <1>7 DEF Frame

(* What the command c of the mode m may do, d being its daemon.            *)
Composes(c, m, d) ==
  /\ dev'.f1 = IF c = Link(m) /\ dev.f1 = "" THEN FunctionOf(m) ELSE dev.f1
  /\ dev'.id = IF c = IdProduct(m) THEN m ELSE dev.id
  /\ c = BindUdc /\ dev.f1 \in dev.open => dev'.udc
  /\ prop'["state"] = IF c = CopyProp("state", "config") THEN m ELSE prop["state"]
  /\ proc'[d] = "up" => proc[d] = "up"
  /\ proc'[d] = "up" /\ dev.udc => dev'.udc
  /\ Wanted(d) \/ c = Start(d) => Wanted(d)'

(* By kind of command.                                                     *)
LEMMA ComposingDevice ==
  ASSUME Types, ExecuteCommand, NEW m \in Modes \ {"none"}, NEW d \in UsbDaemons, NEW c,
         c = Current(todo), c = IdProduct(m) \/ c = Link(m) \/ c = BindUdc
  PROVE  Composes(c, m, d)
<1>1. c \in Commands /\ Execute(c)
  BY Executed
<1>2. /\ c = IdProduct(m) <=> c.do = "id_product"
      /\ c = Link(m) <=> c.do = "symlink_f1"
      /\ c = BindUdc <=> c.do = "write_udc"
      /\ c.do = "id_product" => c.arg = m
      /\ c.do = "symlink_f1" => c.arg = FunctionOf(m)
      /\ c.do = "write_udc" => c.arg = "controller"
      /\ c.do \in {"id_product", "symlink_f1", "write_udc"}
  BY Fields
<1>3. c # CopyProp("state", "config") /\ c # Start(d)
  BY <1>2, Fields
<1>4. c.do \in DeviceCommands /\ c.do # "rm_f1"
  BY <1>2 DEF DeviceCommands
<1>5. dev' = DeviceAfter(c) /\ prop' = prop /\ held' = held /\ proc' = proc
  BY <1>1, <1>4, Devises
<1>6. /\ dev'.id = IF c.do = "id_product" THEN c.arg ELSE dev.id
      /\ dev'.f1 = IF c.do = "symlink_f1" /\ dev.f1 = "" THEN c.arg ELSE dev.f1
      /\ dev'.udc = IF c.do = "write_udc" THEN c.arg = "controller" /\ (dev.udc \/ dev.f1 \in dev.open)
                    ELSE dev.udc
  BY <1>1, <1>4, <1>5, DeviceStep
<1>7. Wanted(d) => Wanted(d)'
  BY <1>5 DEF Wanted
<1>8. /\ dev'.f1 = IF c = Link(m) /\ dev.f1 = "" THEN FunctionOf(m) ELSE dev.f1
      /\ dev'.id = IF c = IdProduct(m) THEN m ELSE dev.id
      /\ dev.udc => dev'.udc
      /\ c = BindUdc /\ dev.f1 \in dev.open => dev'.udc
  BY <1>2, <1>6
<1> QED
  BY <1>3, <1>5, <1>7, <1>8 DEF Composes

LEMMA ComposingStart ==
  ASSUME Types, ExecuteCommand, NEW m \in Modes \ {"none"}, NEW d \in UsbDaemons, NEW c,
         c = Current(todo), c = Start(d) \/ c = Restart(d)
  PROVE  Composes(c, m, d)
<1>1. c \in Commands /\ Execute(c) /\ d \in Services
  BY Executed, UsbDaemonsAre
<1>2. /\ c.do \in {"start", "restart"} /\ c.arg = d
      /\ c # Link(m) /\ c # IdProduct(m) /\ c # BindUdc /\ c # CopyProp("state", "config")
      /\ c = Start(d) => c.do = "start"
  BY Fields
<1>3. CASE c.do = "start"
  <2>1. /\ Frame(d) /\ dev' = dev /\ d \notin held'
        /\ prop[d] \in {"running", "stopping"} => prop' = prop /\ proc' = proc
        /\ prop[d] \notin {"running", "stopping"} => prop'[d] = "running" /\ proc'[d] = "begun"
    BY <1>1, <1>2, <1>3, Starts, Started
  <2>2. Wanted(d)'
    BY <2>1 DEF Wanted
  <2>3. prop'["state"] = prop["state"]
    BY <1>1, <2>1, ReadyAndState DEF Frame
  <2> QED
    BY <1>2, <2>1, <2>2, <2>3 DEF Composes
<1>4. CASE c.do = "restart"
  <2>1. /\ Frame(d)
        /\ prop[d] = "running" => /\ prop'[d] = "stopping" /\ proc'[d] = "dead" /\ held' = held
                                  /\ dev' = WithoutEndpoints(d)
        /\ prop[d] = "restarting" => /\ prop' = prop /\ proc' = proc /\ held' = held
                                     /\ dev' = dev
        /\ prop[d] = "stopping" => /\ d \notin held' /\ prop' = prop /\ proc' = proc /\ dev' = dev
        /\ prop[d] \notin {"running", "restarting", "stopping"} =>
             d \notin held' /\ prop'[d] = "running" /\ proc'[d] = "begun" /\ dev' = dev
    BY <1>1, <1>2, <1>4, Restarts, Restarted
  <2>2. Wanted(d) => Wanted(d)'
    BY <2>1 DEF Wanted
  <2>3. prop'["state"] = prop["state"]
    BY <1>1, <2>1, ReadyAndState DEF Frame
  <2>4. dev'.f1 = dev.f1 /\ dev'.id = dev.id
    <3>1. dev' = WithoutEndpoints(d) \/ dev' = dev
      BY <2>1
    <3> QED
      BY <1>1, <3>1, ClosedStep
  <2>5. proc'[d] = "up" => proc[d] = "up" /\ dev' = dev
    BY <2>1
  <2>6. c # Start(d)
    BY <1>2, <1>4
  <2> QED
    BY <1>2, <2>2, <2>3, <2>4, <2>5, <2>6 DEF Composes
<1> QED
  BY <1>2, <1>3, <1>4

(* Every command of a mode.                                                *)
LEMMA Composing ==
  ASSUME Types, ExecuteCommand, NEW m \in Modes \ {"none"}, m = prop["config"],
         NEW c \in CommandsFor(m), c = Current(todo), NEW d, d = DaemonOf(m)
  PROVE  Composes(c, m, d)
<1>1. c \in Commands /\ Execute(c) /\ d \in UsbDaemons
  BY Executed, DaemonOfIs
<1>2. CASE c \in Others
  <2>1. /\ dev' = dev /\ prop'["state"] = prop["state"]
        /\ prop'[d] = prop[d] /\ proc'[d] = proc[d] /\ (d \in held' <=> d \in held)
    BY <1>1, <1>2, StartsAside
  <2>2. c.do = "start" /\ c.arg \in {"wifi-helper", "ubuntu-droidspaces"}
    BY <1>2, Fields DEF Others
  <2>3. /\ c # Link(m) /\ c # IdProduct(m) /\ c # BindUdc /\ c # CopyProp("state", "config")
        /\ c # Start(d)
    BY <1>1, <2>2, Fields DEF UsbDaemons
  <2> QED
    BY <2>1, <2>3 DEF Composes, Wanted
<1>3. CASE c = CopyProp("state", "config")
  <2>1. c.do = "copyprop"
    BY <1>3, Fields
  <2>2. /\ prop'["state"] = prop["config"]
        /\ \A x \in (Props \cup Services) \ {"state"} : prop'[x] = prop[x]
        /\ held' = held /\ proc' = proc /\ dev' = dev
    BY <1>1, <2>1, CopiesProp
  <2>3. c # Link(m) /\ c # IdProduct(m) /\ c # BindUdc /\ c # Start(d)
    BY <2>1, Fields
  <2>4. prop'[d] = prop[d]
    BY <1>1, <2>2, ReadyAndState
  <2> QED
    BY <1>3, <2>2, <2>3, <2>4 DEF Composes, Wanted
<1>4. CASE c = IdProduct(m) \/ c = Link(m) \/ c = BindUdc
  BY <1>1, <1>4, ComposingDevice
<1>5. CASE c = Start(d) \/ c = Restart(d)
  BY <1>1, <1>5, ComposingStart
<1> QED
  BY <1>2, <1>3, <1>4, <1>5, CommandForIs

(* A command of the decomposing.                                           *)
LEMMA CoreDecomposing ==
  ASSUME Types, enabled, SteadyInv, Processes, GadgetCore, ExecuteCommand,
         LeftOf(todo) \subseteq DecomposeCommands,
         NEW m, m = prop["config"], NEW d, d = DaemonOf(m)
  PROVE  GadgetCore'
<1> DEFINE c == Current(todo)
           copy == CopyProp("state", "config")
<1>1. /\ LeftOf(todo) = LeftOf(todo') \cup {c}
      /\ c \in DecomposeCommands
  BY Executed
<1>2. /\ prop'["config"] = m /\ Grows /\ m \in Modes
  BY SteadyExecuted DEF SteadyInv
<1>3. \A e : Queued(e) => Queued(e)'
  BY <1>2, QueuedMore DEF Queued
<1>4. /\ dev'.udc => dev.udc /\ c # UnbindUdc
      /\ dev'.f1 = IF c = Unlink THEN "" ELSE dev.f1
      /\ prop'["state"] = IF c = copy THEN m ELSE prop["state"]
      /\ \A s \in UsbDaemons : Off(s) \/ c = Stop(s) => Off(s)'
      /\ ~Undoes(c) => /\ dev' = dev /\ proc' = proc /\ held' = held
                       /\ \A s \in UsbDaemons : prop'[s] = prop[s]
  <2> HIDE DEF c
  <2> QED
    BY <1>1, Decomposing DEF c
<1>5. \A x : Taken(x)' => Taken(x) \/ x = c
  BY <1>1 DEF Taken
<1>6. Undoing' => Undoing
  BY <1>1 DEF Undoing
<1>7. LeftInv'
  <2>1. LeftOf(todo') \subseteq DecomposeCommands
    BY <1>1
  <2>2. BindUdc \notin LeftOf(todo')
    BY <2>1, CommandsApart
  <2>3. \A x : ~Unled(todo', Link(x), BindUdc)
    BY <2>2, NotLed
  <2> QED
    BY <2>1, <2>3 DEF LeftInv
<1> HIDE DEF c
<1>8. m = "none" \/ Undoing => OffInv'
  <2> SUFFICES ASSUME m = "none" \/ Undoing PROVE OffInv'
    OBVIOUS
  <2>1. OffInv
    BY DEF GadgetCore
  <2>2. Taken(UnbindUdc)' => ~dev'.udc
    BY <1>4, <1>5, <2>1 DEF OffInv
  <2>3. \A s \in UsbDaemons : Taken(Stop(s))' => Off(s)'
    BY <1>4, <1>5, <2>1 DEF OffInv
  <2>4. Taken(Unlink)' => dev'.f1 = ""
    BY <1>4, <1>5, <2>1 DEF OffInv
  <2>5. m = "none" /\ Taken(copy)' => prop'["state"] = "none"
    BY <1>4, <1>5, <2>1 DEF OffInv
  <2> QED
    BY <1>2, <2>2, <2>3, <2>4, <2>5 DEF OffInv
<1>9. d \in UsbDaemons /\ (\A s : Start(s) \notin LeftOf(todo))
  <2>1. \A x \in DecomposeCommands : x.do # "start"
    BY Fields DEF DecomposeCommands
  <2> QED
    BY <2>1, Fields, DaemonOfIs
<1>10. m # "none" => StartInv(m)'
  <2> SUFFICES ASSUME m # "none", m # "sideload"
               PROVE  \/ ~Undoing' /\ Wanted(d)'
                      \/ Queued(ConfigEvent(m))' \/ Queued(AllProperties)'
    BY DEF StartInv
  <2>1. \/ ~Undoing /\ Wanted(d)
        \/ Queued(ConfigEvent(m)) \/ Queued(AllProperties)
    BY <1>9 DEF GadgetCore, StartInv
  <2>2. CASE ~Undoing /\ Wanted(d)
    <3>1. ~Undoes(c)
      BY <1>1, <2>2 DEF Undoing, Undoes
    <3>2. Wanted(d)'
      BY <1>4, <1>9, <2>2, <3>1 DEF Wanted
    <3> QED
      BY <1>6, <2>2, <3>2
  <2> QED
    BY <1>3, <2>1, <2>2
<1>11. m # "none" /\ ~Undoing' => OnInv(m)'
  <2> SUFFICES ASSUME m # "none", ~Undoing' PROVE OnInv(m)'
    OBVIOUS
  <2>1. CASE Undoing
    <3>1. OffInv'
      BY <1>8, <2>1
    <3>2. Taken(Unlink)' /\ Taken(Stop(d))'
      BY <1>9 DEF Undoing, Taken, UsbDaemons
    <3>3. dev'.f1 = "" /\ proc'[d] # "up"
      BY <1>9, <3>1, <3>2 DEF OffInv, Off
    <3> QED
      BY <3>3 DEF OnInv
  <2>2. CASE ~Undoing
    <3>1. ~Undoes(c)
      BY <1>1, <2>2 DEF Undoing, Undoes
    <3>2. dev' = dev /\ proc' = proc
      BY <1>4, <3>1
    <3>3. OnInv(m)
      BY <2>2 DEF GadgetCore
    <3>4. \A x \in {IdProduct(m), Link(m), BindUdc} : Taken(x)
      <4>1. \A x \in DecomposeCommands :
              /\ x.do \notin {"id_product", "symlink_f1"}
              /\ x # BindUdc
        BY Fields, CommandsApart DEF DecomposeCommands
      <4>2. IdProduct(m).do = "id_product" /\ Link(m).do = "symlink_f1"
        BY Fields
      <4> QED
        BY <4>1, <4>2 DEF Taken
    <3>5. Taken(copy)' => prop'["state"] = m \/ (Taken(copy) /\ prop'["state"] = prop["state"])
      BY <1>4, <1>5
    <3>6. ~Queued(Ready)' => ~Queued(Ready)
      BY <1>3
    <3>7. /\ dev.f1 \in {"", FunctionOf(m)}
          /\ m # "sideload" /\ proc[d] = "up" /\ ~Queued(Ready) =>
               /\ dev.id = m /\ dev.f1 = FunctionOf(m) /\ dev.udc
               /\ Taken(copy) => prop["state"] = m
      BY <3>3, <3>4 DEF OnInv
    <3> QED
      BY <3>2, <3>5, <3>6, <3>7 DEF OnInv
  <2> QED
    BY <2>1, <2>2
<1> QED
  BY <1>2, <1>6, <1>7, <1>8, <1>10, <1>11 DEF GadgetCore

(* Nothing but services that are not of the gadget is started without one. *)
LEMMA CoreIdle ==
  ASSUME Types, enabled, SteadyInv, GadgetCore, ExecuteCommand, prop["config"] = "none",
         LeftOf(todo) \subseteq CommandsFor("none")
  PROVE  GadgetCore'
<1> DEFINE c == Current(todo)
<1>1. LeftOf(todo) = LeftOf(todo') \cup {c} /\ c \in Others
  BY Executed DEF CommandsFor
<1>2. prop'["config"] = "none"
  BY SteadyExecuted DEF SteadyInv
<1>3. /\ dev' = dev /\ prop'["state"] = prop["state"]
      /\ \A s \in UsbDaemons : prop'[s] = prop[s] /\ proc'[s] = proc[s] /\ (s \in held' <=> s \in held)
  <2> HIDE DEF c
  <2> QED
    BY <1>1, StartsAside DEF c
<1>4. LeftOf(todo) \subseteq Others /\ LeftOf(todo') \subseteq Others
  BY <1>1 DEF CommandsFor
<1>5. LeftInv'
  <2>1. BindUdc \notin LeftOf(todo')
    BY <1>4, CommandsApart
  <2>2. \A x : ~Unled(todo', Link(x), BindUdc)
    BY <2>1, NotLed
  <2> QED
    BY <1>2, <1>4, <2>2 DEF LeftInv, CommandsFor
<1>6. OffInv'
  <2>1. OffInv
    BY DEF GadgetCore
  <2>2. "none" \in Modes
    BY DEF Modes
  <2>3. \A x \in Others : ~Undoes(x) /\ x # CopyProp("state", "config")
    <3>1. \A x \in Others : x.do = "start"
      BY Fields DEF Others
    <3> QED
      BY <2>2, <3>1, Fields, CommandsApart
  <2>4. /\ Taken(UnbindUdc) /\ Taken(Unlink) /\ Taken(CopyProp("state", "config"))
        /\ \A s \in UsbDaemons : Taken(Stop(s))
    BY <1>4, <2>3 DEF Taken, Undoes, UsbDaemons
  <2> QED
    BY <1>2, <1>3, <2>1, <2>4 DEF OffInv, Off
<1> QED
  BY <1>2, <1>5, <1>6 DEF GadgetCore

(* A command of the mode.                                                  *)
LEMMA CoreComposing ==
  ASSUME Types, enabled, SteadyInv, Processes, GadgetCore, ExecuteCommand,
         NEW m \in Modes \ {"none"}, m = prop["config"], NEW d, d = DaemonOf(m),
         LeftOf(todo) \subseteq CommandsFor(m)
  PROVE  GadgetCore'
<1> DEFINE c == Current(todo)
           copy == CopyProp("state", "config")
<1>1. /\ LeftOf(todo) = LeftOf(todo') \cup {c} /\ c \in CommandsFor(m)
      /\ todo \in Seq(Rows) /\ todo # << >> /\ todo' = Advanced(todo)
  BY Executed, TypesGive
<1>2. prop'["config"] = m /\ Grows
  BY SteadyExecuted DEF SteadyInv
<1>3. \A e : Queued(e) => Queued(e)'
  BY <1>2, QueuedMore DEF Queued
<1>4. Unled(todo', Link(m), BindUdc) /\ c # Link(m) => Unled(todo, Link(m), BindUdc)
  BY <1>1, AdvancedUnled
<1>5. c = BindUdc => Unled(todo, Link(m), BindUdc)
  BY <1>1, AdvancedUnled
<1> HIDE DEF c
<1>6. Composes(c, m, d)
  BY <1>1, Composing DEF c
<1>7. \A x : Taken(x)' => Taken(x) \/ x = c
  BY <1>1 DEF Taken
<1>8. ~Undoing /\ ~Undoing'
  <2>1. \A x \in LeftOf(todo) : ~Undoes(x)
    BY CommandsApart
  <2> QED
    BY <1>1, <2>1 DEF Undoing, Undoes
<1>9. LeftInv /\ OnInv(m) /\ StartInv(m)
  BY <1>8 DEF GadgetCore
<1>10. dev.f1 \in {"", FunctionOf(m)} /\ FunctionOf(m) # ""
  BY <1>9, DaemonOfIs DEF OnInv
<1>11. /\ dev'.f1 \in {"", FunctionOf(m)}
       /\ c = Link(m) => dev'.f1 = FunctionOf(m)
       /\ dev.f1 = FunctionOf(m) => dev'.f1 = FunctionOf(m)
  BY <1>6, <1>10 DEF Composes
<1>12. LeftInv'
  <2>1. Unled(todo', Link(m), BindUdc) => dev'.f1 = FunctionOf(m)
    BY <1>4, <1>9, <1>11 DEF LeftInv
  <2> QED
    BY <1>1, <1>2, <2>1 DEF LeftInv
<1>13. StartInv(m)'
  <2> SUFFICES ASSUME m # "sideload"
               PROVE  \/ Wanted(d)'
                      \/ Start(d) \in LeftOf(todo')
                      \/ Queued(ConfigEvent(m))' \/ Queued(AllProperties)'
    BY <1>8 DEF StartInv
  <2>1. \/ Wanted(d) \/ Start(d) \in LeftOf(todo)
        \/ Queued(ConfigEvent(m)) \/ Queued(AllProperties)
    BY <1>9 DEF StartInv
  <2>2. Start(d) \in LeftOf(todo) => Start(d) \in LeftOf(todo') \/ c = Start(d)
    BY <1>1
  <2> QED
    BY <1>3, <1>6, <2>1, <2>2 DEF Composes
<1>14. OnInv(m)'
  <2> SUFFICES ASSUME m # "sideload", proc'[d] = "up", ~Queued(Ready)'
               PROVE  /\ Taken(IdProduct(m))' => dev'.id = m
                      /\ Taken(Link(m))' => dev'.f1 = FunctionOf(m)
                      /\ Taken(BindUdc)' => dev'.udc
                      /\ Taken(copy)' => prop'["state"] = m
    BY <1>11 DEF OnInv
  <2>1. proc[d] = "up" /\ ~Queued(Ready)
    BY <1>3, <1>6 DEF Composes
  <2>2. /\ Taken(IdProduct(m)) => dev.id = m
        /\ Taken(Link(m)) => dev.f1 = FunctionOf(m)
        /\ Taken(BindUdc) => dev.udc
        /\ Taken(copy) => prop["state"] = m
    BY <1>9, <2>1 DEF OnInv
  <2>3. Taken(IdProduct(m))' => dev'.id = m
    BY <1>6, <1>7, <2>2 DEF Composes
  <2>4. Taken(Link(m))' => dev'.f1 = FunctionOf(m)
    BY <1>7, <1>11, <2>2
  <2>5. Taken(BindUdc)' => dev'.udc
    <3>1. dev.udc => dev'.udc
      BY <1>6 DEF Composes
    <3>2. c = BindUdc => dev'.udc
      <4>1. c = BindUdc => dev.f1 = FunctionOf(m)
        BY <1>5, <1>9 DEF LeftInv
      <4>2. d \in UsbDaemons /\ Function(d) = FunctionOf(m)
        BY DaemonOfIs
      <4>3. FunctionOf(m) \in dev.open
        BY <2>1, <4>2 DEF Processes, OneProcess
      <4> QED
        BY <1>6, <4>1, <4>3 DEF Composes
    <3> QED
      BY <1>7, <2>2, <3>1, <3>2
  <2>6. Taken(copy)' => prop'["state"] = m
    BY <1>6, <1>7, <2>2 DEF Composes
  <2> QED
    BY <2>3, <2>4, <2>5, <2>6
<1> QED
  BY <1>2, <1>8, <1>12, <1>13, <1>14 DEF GadgetCore

-----------------------------------------------------------------------------
(* The gadget is kept by every step.                                       *)
LEMMA GadgetStep ==
  ASSUME Types, enabled, SteadyInv, Usb, Processes, GadgetInv, Next
  PROVE  GadgetInv'
<1>1. SwitchesInOrder /\ (~NoneQueued => GadgetCore)
  BY DEF GadgetInv
<1>2. CASE TakeEvent
  BY <1>1, <1>2, OrderTaken, CoreTaken DEF GadgetInv
<1>3. CASE ExecuteCommand
  <2>1. prop'["config"] = prop["config"] /\ Grows
    BY <1>3, SteadyExecuted DEF SteadyInv
  <2>2. SwitchesInOrder' /\ (NoneQueued => NoneQueued')
    BY <1>1, <2>1, OrderGrows, EventsKept DEF SteadyInv
  <2>3. ASSUME GadgetCore PROVE GadgetCore'
    <3>1. LeftInv /\ prop["config"] \in Modes
      BY <2>3 DEF GadgetCore, SteadyInv
    <3>2. CASE LeftOf(todo) \subseteq DecomposeCommands
      BY <1>3, <2>3, <3>2, CoreDecomposing
    <3>3. CASE LeftOf(todo) \subseteq CommandsFor(prop["config"])
      <4>1. CASE prop["config"] = "none"
        BY <1>3, <2>3, <3>3, <4>1, CoreIdle
      <4>2. CASE prop["config"] # "none"
        BY <1>3, <2>3, <3>1, <3>3, <4>2, CoreComposing
      <4> QED
        BY <4>1, <4>2
    <3> QED
      BY <3>1, <3>2, <3>3 DEF LeftInv
  <2> QED
    BY <1>1, <2>2, <2>3 DEF GadgetInv
<1>4. CASE \/ \E s \in Services \ UsbDaemons : Aside(s)
           \/ \E s \in UsbDaemons : Reap(s) \/ RestartTimer(s) \/ OpenEndpoints(s)
                                      \/ ReportReady(s) \/ Die(s)
           \/ LauncherReady
  <2>1. prop'["config"] = prop["config"] /\ Grows
    <3>1. CASE \E s \in Services \ UsbDaemons : Aside(s)
      BY <3>1, ReadyAndState DEF Aside, Frame
    <3>2. CASE \E s \in UsbDaemons : Reap(s) \/ RestartTimer(s) \/ OpenEndpoints(s)
                                      \/ ReportReady(s) \/ Die(s)
      BY <3>2, DaemonSteps
    <3>3. CASE LauncherReady
      <4>1. "config" \in (Props \cup Services) \ {"connsys"}
        BY DEF Props
      <4> QED
        BY <3>3, <4>1, LauncherReported DEF Grows, Longer
    <3> QED
      BY <1>4, <3>1, <3>2, <3>3
  <2>2. SwitchesInOrder'
    BY <1>1, <2>1, OrderGrows
  <2>3. ~NoneQueued' => GadgetCore'
    BY <1>1, <1>4, CoreBetween
  <2> QED
    BY <2>2, <2>3 DEF GadgetInv
<1>5. ASSUME NEW mode \in Modes, Switch(mode) PROVE GadgetInv'
  <2>1. SwitchesInOrder' /\ Queued(ConfigEvent(mode))' /\ Elems(queue) \subseteq Elems(queue')
    BY <1>1, <1>5, OrderAfterSwitch
  <2>2. ~NoneQueued' => GadgetCore'
    BY <1>1, <1>5, <2>1, CoreSwitched
  <2> QED
    BY <2>1, <2>2 DEF GadgetInv
<1> QED
  BY <1>2, <1>3, <1>4, <1>5, Steps

(* When the property triggers are enabled all properties are looked at.    *)
LEMMA EnabledGadget ==
  ASSUME Types, JustEnabled, BootInv
  PROVE  GadgetInv'
<1>1. /\ todo' = << >> /\ queue' = << AllProperties >>
      /\ prop' = prop /\ proc' = proc /\ dev' = dev /\ prop["config"] = "adb"
  BY DEF JustEnabled
<1>2. Len(queue') = 1 /\ queue'[1] = AllProperties /\ Elems(queue') = {AllProperties}
  BY <1>1 DEF Elems
<1>3. AllProperties.kind = "all" /\ AllProperties # ConfigEvent("none")
  BY ConfigEventIs DEF AllProperties, Event
<1>4. SwitchesInOrder'
  BY <1>2, <1>3 DEF SwitchesInOrder
<1>5. LeftOf(todo') = {}
  BY <1>1 DEF LeftOf, Elems
<1>6. ~Undoing' /\ LeftInv'
  <2>1. ~Unled(todo', Link("adb"), BindUdc)
    BY <1>5, NotLed
  <2> QED
    BY <1>1, <1>5, <2>1 DEF Undoing, LeftInv
<1>7. StartInv("adb")'
  BY <1>2 DEF StartInv, Queued
<1>8. OnInv("adb")'
  <2>1. dev.f1 = "" /\ proc["adbd"] = "none"
    BY DEF BootInv, Asleep, Idle, UsbDaemons
  <2>2. DaemonOf("adb") = "adbd"
    BY DEF DaemonOf
  <2> QED
    BY <1>1, <2>1, <2>2 DEF OnInv
<1>9. GadgetCore'
  BY <1>1, <1>6, <1>7, <1>8 DEF GadgetCore
<1> QED
  BY <1>4, <1>9 DEF GadgetInv

(* At the start no daemon runs.                                            *)
LEMMA InitProcesses ==
  ASSUME Init
  PROVE  Processes
<1>1. \A s \in UsbDaemons : proc[s] = "none" /\ prop[s] = ""
  BY DEF Init, Default, UsbDaemons, Services, Daemons, Oneshots, InitOneshots, WlanOneshots, TouchOneshots,
         ContainerOneshots, ContainerDaemons
<1> QED
  BY <1>1 DEF Processes, OneProcess

-----------------------------------------------------------------------------

(* Every step, whatever it is about.                                       *)
LEMMA IInvStep ==
  ASSUME IInv, [Next]_vars
  PROVE  IInv'
<1>1. CASE UNCHANGED vars
  <2>1. BootSafe'
    BY <1>1, BootSafeStutter DEF IInv
  <2>2. /\ queue' = queue /\ todo' = todo /\ enabled' = enabled /\ prop' = prop
        /\ held' = held /\ proc' = proc /\ dev' = dev
    BY <1>1 DEF vars
  <2>3. Processes => Processes'
    BY <2>2 DEF Processes, OneProcess
  <2>4. GadgetInv => GadgetInv'
    <3>1. SwitchesInOrder => SwitchesInOrder'
      BY <2>2 DEF SwitchesInOrder
    <3>2. NoneQueued <=> NoneQueued'
      BY <2>2 DEF NoneQueued, Queued
    <3>3. \A s \in UsbDaemons : DaemonKept(s)
      BY <2>2 DEF DaemonKept, Off, Wanted
    <3>4. GadgetCore => GadgetCore'
      BY <2>2, <3>3, CoreKept
    <3> QED
      BY <3>1, <3>2, <3>4 DEF GadgetInv
  <2> QED
    BY <2>1, <2>2, <2>3, <2>4 DEF IInv
<1>2. CASE Next
  <2>1. BootSafe' /\ BootSafe /\ Types
    BY <1>2, BootSafeStep DEF IInv, BootSafe
  <2>2. Usb => Processes'
    BY <1>2, <2>1, ProcessesStep DEF IInv
  <2>3. Usb /\ enabled => GadgetInv'
    BY <1>2, <2>1, GadgetStep DEF IInv, BootSafe
  <2>4. ~enabled /\ enabled' => GadgetInv'
    BY <1>2, <2>1, BootStep, EnabledGadget DEF BootSafe
  <2> QED
    BY <2>1, <2>2, <2>3, <2>4 DEF IInv
<1> QED
  BY <1>1, <1>2

(* With the scripts of the gadget, whatever else is installed, fails,      *)
(* crashes or is switched: when the boot has settled, the gadget is what   *)
(* sys.usb.config asks for and sys.usb.state says.                         *)
THEOREM GadgetIsWhatItSays ==
  ASSUME "usb" \in Installed
  PROVE  Spec => []GadgetIsTruthful
<1> Usb
  BY DEF Usb
<1>1. Init => IInv
  <2> SUFFICES ASSUME Init PROVE IInv
    OBVIOUS
  <2> QED
    BY InitTypes, InitBoot, InitProcesses DEF IInv, BootSafe
<1>2. IInv /\ [Next]_vars => IInv'
  BY IInvStep
<1>3. IInv => GadgetIsTruthful
  <2> SUFFICES ASSUME IInv, Quiet,
                      NEW m, m = prop["config"], NEW d, d = DaemonOf(m)
               PROVE  /\ m \in {"adb", "fastboot"} =>
                           /\ dev.udc /\ dev.f1 = FunctionOf(m)
                           /\ dev.id = m /\ prop["state"] = m
                      /\ m = "none" =>
                           /\ ~dev.udc /\ dev.f1 = "" /\ prop["state"] = "none"
                           /\ \A s \in UsbDaemons : prop[s] # "running"
    BY DEF GadgetIsTruthful
  <2>1. queue = << >> /\ todo = << >> /\ enabled
    BY DEF Quiet
  <2>2. \A e : ~Queued(e)
    BY <2>1 DEF Queued, Elems
  <2>3. LeftOf(todo) = {}
    BY <2>1, NothingDone
  <2>4. ~Undoing /\ \A c : Taken(c)
    BY <2>3 DEF Undoing, Taken
  <2>5. GadgetCore
    BY <2>1, <2>2 DEF IInv, GadgetInv, NoneQueued
  <2>6. \A s \in UsbDaemons : /\ prop[s] \in {"", "running", "stopped"}
                              /\ prop[s] = "running" => proc[s] = "up"
    BY UsbDaemonsAre DEF Quiet
  <2>7. CASE m = "none"
    BY <2>4, <2>5, <2>7 DEF GadgetCore, OffInv, Off
  <2>8. CASE m \in {"adb", "fastboot"}
    <3>1. StartInv(m) /\ OnInv(m)
      BY <2>4, <2>5, <2>8 DEF GadgetCore
    <3>2. Wanted(d)
      BY <2>2, <2>3, <2>8, <3>1 DEF StartInv
    <3>3. proc[d] = "up"
      BY <2>6, <3>2, DaemonOfIs DEF Wanted
    <3> QED
      BY <2>2, <2>4, <2>8, <3>1, <3>3 DEF OnInv
  <2> QED
    BY <2>7, <2>8
<1> QED
  BY <1>1, <1>2, <1>3, PTL DEF Spec
===============================================================================
