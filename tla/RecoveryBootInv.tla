--------------------------- MODULE RecoveryBootInv ----------------------------
(***************************************************************************)
(* The inductive invariant of RecoveryBoot, in three parts: types; where   *)
(* the boot is, up to the property triggers, and what its commands have    *)
(* done; afterwards, where init is in composing or decomposing the gadget  *)
(* and what that leaves of it.                                             *)
(***************************************************************************)
EXTENDS MCRecoveryBoot

-----------------------------------------------------------------------------
(* Types: what the commands, actions, events and devices may be.           *)
BootStages == {"early-init", "init", "late-init", "early-fs", "fs", "post-fs",
               "post-fs-data", "firmware_mounts_complete", "early-boot", "boot"}
Functions == {"adb", "fastboot"}
Values == {"", "0", "1", "no", "yes", "running", "stopping", "stopped", "restarting"}
            \cup Modes

(* The arguments that go with each verb.                                   *)
Good(c) ==
  CASE c.do = "setprop" ->
         \/ c.arg = "configfs" /\ c.val = "1"
         \/ c.arg = "config" /\ c.val = "adb"
         \/ c.arg = "ffs.ready" /\ c.val = "0"
         \/ c.arg = "connsys" /\ c.val = "no"
    [] c.do = "copyprop" -> c.arg = "state" /\ c.val = "config"
    [] c.do \in {"start", "stop", "restart"} -> c.arg \in Services
    [] c.do = "trigger" -> c.arg \in BootStages
    [] c.do \in {"mkfunction", "mount_ffs", "symlink_f1"} -> c.arg \in Functions
    [] c.do = "id_product" -> c.arg \in Modes
    [] c.do = "write_udc" -> c.arg \in {"controller", "none"}
    [] OTHER -> c.do \in {"queue_property_triggers", "enable_property_trigger",
                          "mount_configfs", "rm_f1", "mount_nvdata"}

Verbs == {"setprop", "copyprop", "start", "stop", "restart", "trigger",
          "queue_property_triggers", "enable_property_trigger"} \cup DeviceCommands
Names == {"", "configfs", "config", "state", "ffs.ready", "adb.root", "connsys", "controller",
          "queue_property_triggers", "enable_property_trigger"}
           \cup Services \cup Modes \cup BootStages
Commands == {c \in [do : Verbs, arg : Names, val : Names \cup Values] : Good(c)}
Rows == [stage : BootStages \cup {""}, props : SUBSET (Names \X Values),
         cmds : Seq(Commands) \ {<< >>}]
Events == [kind : {"stage", "prop", "all", "builtin"}, name : Names, value : Values]
Devices ==
  [configfs : BOOLEAN, functions : SUBSET Functions, mounted : SUBSET Functions,
   open : SUBSET Functions, id : Modes \cup {""}, f1 : Functions \cup {""}, udc : BOOLEAN,
   nvdata : BOOLEAN, module : BOOLEAN, touch : BOOLEAN, launcher : BOOLEAN,
   wlan0 : BOOLEAN, permissive : BOOLEAN]

(* The states of a service.                                                *)
States == {"", "running", "stopping", "stopped", "restarting"}

PropType(p) ==
  /\ p \in [Props \cup Services -> Values]
  /\ \A s \in Services : p[s] \in States
  /\ p["config"] \in Modes \cup {""} /\ p["state"] \in Modes \cup {""}

DevType(d) ==
  d \in Devices /\ d.mounted \subseteq d.functions /\ d.open \subseteq d.mounted

(* The state.                                                              *)
Types ==
  /\ queue \in Seq(Events) /\ todo \in Seq(Rows) /\ enabled \in BOOLEAN
  /\ PropType(prop) /\ held \subseteq Services
  /\ proc \in [Services -> {"none", "begun", "polling", "powered", "open", "up", "dead"}]
  /\ DevType(dev)

-----------------------------------------------------------------------------
(* What is left of the actions that init executes.                         *)
Elems(s) == {s[i] : i \in 1..Len(s)}
LeftOf(t) == UNION {Elems(r.cmds) : r \in Elems(t)}

(* b is among them, and no a before it.                                    *)
Unled(t, a, b) ==
  \E k \in 1..Len(t) : \E i \in 1..Len(t[k].cmds) :
    /\ t[k].cmds[i] = b
    /\ \A j \in 1..(i - 1) : t[k].cmds[j] # a
    /\ \A l \in 1..(k - 1) : \A j \in 1..Len(t[l].cmds) : t[l].cmds[j] # a

-----------------------------------------------------------------------------
(* The boot, up to the property triggers.                                  *)
Stages == << "early-init", "init", "late-init", "", "early-fs", "fs", "post-fs",
             "post-fs-data", "firmware_mounts_complete", "early-boot", "boot", "" >>
(* The events of the boot, and what late-init triggers.                    *)
BootEvents ==
  [i \in 1..13 |-> IF i = 4 THEN Builtin(QueuePropertyTriggers)
                   ELSE IF i = 12 THEN Builtin(EnablePropertyTrigger)
                   ELSE IF i = 13 THEN AllProperties ELSE StageEvent(Stages[i])]

Triggers == [i \in 1..7 |-> Trigger(Stages[i + 4])]

(* The commands of the actions of each of these events.                    *)
CommandsOn(cur) ==
  CASE cur = 1 -> {SetProp("configfs", "1")}
    [] cur = 2 -> {Start("selinux-permissive")}
    [] cur = 3 -> {Triggers[i] : i \in 1..7}
    [] cur = 4 -> {QueuePropertyTriggers}
    [] cur = 6 -> {MountConfigfs} \cup {MakeFunction(f) : f \in {"adb", "fastboot"}}
                    \cup {MountFunctionfs(f) : f \in {"adb", "fastboot"}}
    [] cur = 8 -> {SetProp("config", "adb")}
    [] cur = 10 -> {SetProp("connsys", "no")}
    [] cur = 11 -> {MountNvdata, Start("load_wlan_driver"), Start("focaltech-tp"),
                    Start("droidspacesd")}
    [] cur = 12 -> {EnablePropertyTrigger}
    [] OTHER -> {}

Idle(s) == prop[s] \in {"", "stopped"} /\ proc[s] = "none"
Usb == "usb" \in Installed

(* init executes the actions of the event number cur; the events up to last*)
(* have been queued.                                                       *)
Position(cur, last) ==
  /\ queue = SubSeq(BootEvents, cur + 1, last)
  /\ cur = 0 => todo = << >>
  /\ cur < 3 => last = 4
  /\ cur = 3 => IF todo = << >> THEN last = 11
                ELSE Len(todo) = 1 /\ last \in 4..10
                     /\ todo[1].cmds = SubSeq(Triggers, last - 3, 7)
  /\ cur = 4 => last = IF todo = << >> THEN 13 ELSE 11
  /\ cur = 4 /\ todo # << >> => Len(todo) = 1 /\ Len(todo[1].cmds) = 1
  /\ cur = 12 => Len(todo) = 1 /\ Len(todo[1].cmds) = 1
  /\ cur > 4 => last = 13

(* What the commands have done, or what is left of them will do.           *)
Effects(cur) ==
  /\ LeftOf(todo) \subseteq CommandsOn(cur)
  /\ cur >= 1 => prop["configfs"] = "1" \/ SetProp("configfs", "1") \in LeftOf(todo)
  /\ cur < 8 => prop["config"] = ""
  /\ cur >= 8 => prop["config"] = "adb" \/ SetProp("config", "adb") \in LeftOf(todo)
  /\ cur >= 6 /\ Usb => \A f \in {"adb", "fastboot"} :
       f \in dev.mounted \/ MountFunctionfs(f) \in LeftOf(todo)
  /\ Usb => \A f \in {"adb", "fastboot"} :
       /\ Unled(todo, MakeFunction(f), MountFunctionfs(f)) => f \in dev.functions
       /\ Unled(todo, MountConfigfs, MakeFunction(f)) => dev.configfs

(* Nothing of the USB gadget and of WiFi has been started.                 *)
Asleep ==
  /\ \A s \in UsbDaemons \cup {"wifi-helper"} : Idle(s)
  /\ ~dev.launcher /\ prop["connsys"] # "yes"
  /\ dev.f1 = "" /\ ~dev.udc

BootInv ==
  /\ \E cur \in 0..12, last \in 4..13 : Position(cur, last) /\ Effects(cur)
  /\ Asleep

-----------------------------------------------------------------------------
(* After it.                                                               *)
ConfigEvent(m) == Event("prop", "config", m)
Ready == Event("prop", "ffs.ready", "1")
Queued(e) == e \in Elems(queue)
NoneQueued == Queued(ConfigEvent("none"))

(* What an action on properties may do, by the mode that is asked for.     *)
Others == {Start("wifi-helper"), Start("ubuntu-droidspaces")}
DecomposeCommands ==
  {UnbindUdc, Stop("adbd"), Stop("fastbootd"), SetProp("ffs.ready", "0"), Unlink,
   CopyProp("state", "config")}
ComposeCommands(m) == {IdProduct(m), Link(m), BindUdc, CopyProp("state", "config")}
StartsOf(m) ==
  IF m = "adb" THEN {Restart("adbd"), Start("adbd")}
  ELSE IF m = "fastboot" THEN {Start("fastbootd")} ELSE {}
CommandsFor(m) ==
  Others \cup (IF m = "none" THEN {} ELSE ComposeCommands(m) \cup StartsOf(m))
SteadyCommands == DecomposeCommands \cup UNION {CommandsFor(m) : m \in Modes}

(* Nothing that is left starts the service.                                *)
Alone(s) == \A c \in LeftOf(todo) : c.do \in {"start", "restart"} => c.arg # s

(* functionfs is mounted, or without usb.rc nobody starts its daemons.     *)
UsbMounted ==
  \/ Usb /\ {"adb", "fastboot"} \subseteq dev.mounted
  \/ ~Usb /\ \A s \in UsbDaemons : Idle(s) /\ Alone(s)

(* Events of properties, the first perhaps that of all: with adb asked     *)
(* for, or an event of none behind it.                                     *)
EventsInv ==
  \A i \in 1..Len(queue) :
    \/ queue[i].kind = "all" /\ i = 1 /\ (prop["config"] = "adb" \/ (Usb => NoneQueued))
    \/ queue[i].kind = "prop" /\ queue[i].name \in {"config", "ffs.ready"} \cup Services

SteadyInv ==
  /\ EventsInv
  /\ LeftOf(todo) \subseteq SteadyCommands
  /\ prop["configfs"] = "1" /\ prop["config"] \in Modes
  /\ UsbMounted

BootSafe ==
  /\ Types
  /\ ~enabled => BootInv
  /\ enabled => SteadyInv

-----------------------------------------------------------------------------
(* The gadget.                                                             *)
(* Off: the daemon was stopped, and nobody has started it since. Wanted:   *)
(* it runs, or starts again when it has died.                              *)
Off(s) == s \in held /\ prop[s] \in {"stopped", "stopping"} /\ proc[s] \in {"none", "dead"}
Wanted(s) == s \notin held /\ prop[s] \in {"running", "stopping", "restarting"}
DaemonOf(m) == IF m = "fastboot" THEN "fastbootd" ELSE "adbd"

(* An event of a mode that is not the last one asked for is followed by one*)
(* of none; one of none by that of the mode that was asked for since.      *)
SwitchesInOrder ==
  /\ \A i \in 1..Len(queue) :
       queue[i].kind = "prop" /\ queue[i].name = "config"
           /\ queue[i].value \notin {"none", prop["config"]} =>
         \E j \in (i + 1)..Len(queue) : queue[j] = ConfigEvent("none")
  /\ \A i \in 1..Len(queue) :
       queue[i] = ConfigEvent("none") /\ prop["config"] # "none" =>
         \E j \in (i + 1)..Len(queue) : queue[j] = ConfigEvent(prop["config"])

(* A service that does not run has no process, or one to be reaped; a      *)
(* daemon that came up has its endpoints open.                             *)
OneProcess(s) ==
  /\ prop[s] # "running" => proc[s] \in {"none", "dead"}
  /\ proc[s] \in {"open", "up"} => Function(s) \in dev.open
  /\ prop[s] = "stopping" => proc[s] = "dead"
Processes == \A s \in UsbDaemons : OneProcess(s)

(* Something of the gadget is still to be undone; a command is done, or    *)
(* was not to be done.                                                     *)
Undoing == \E c \in LeftOf(todo) : c \in {UnbindUdc, Stop("adbd"), Stop("fastbootd"), Unlink}
Taken(c) == c \notin LeftOf(todo)

(* What is left is to decompose the gadget, or of the mode asked for; when *)
(* BindUdc is left without Link before it, f1 is linked.                   *)
LeftInv ==
  /\ \/ LeftOf(todo) \subseteq DecomposeCommands
     \/ LeftOf(todo) \subseteq CommandsFor(prop["config"])
  /\ Unled(todo, Link(prop["config"]), BindUdc) => dev.f1 = FunctionOf(prop["config"])

(* Of a gadget being decomposed, or in mode none: what has been done.      *)
OffInv ==
  /\ Taken(UnbindUdc) => ~dev.udc
  /\ \A s \in UsbDaemons : Taken(Stop(s)) => Off(s)
  /\ Taken(Unlink) => dev.f1 = ""
  /\ prop["config"] = "none" /\ Taken(CopyProp("state", "config")) => prop["state"] = "none"

(* Of a gadget being composed: f1 is of no other mode, and once the daemon *)
(* is up and init has seen that, what has been done.                       *)
OnInv(m) ==
  /\ dev.f1 \in {"", FunctionOf(m)}
  /\ m # "sideload" /\ proc[DaemonOf(m)] = "up" /\ ~Queued(Ready) =>
       /\ Taken(IdProduct(m)) => dev.id = m
       /\ Taken(Link(m)) => dev.f1 = FunctionOf(m)
       /\ Taken(BindUdc) => dev.udc
       /\ Taken(CopyProp("state", "config")) => prop["state"] = m

(* The mode's daemon runs or will, or is about to be started. For sideload *)
(* no action starts one.                                                   *)
StartInv(m) ==
  m # "sideload" =>
    \/ ~Undoing /\ Wanted(DaemonOf(m))
    \/ Start(DaemonOf(m)) \in LeftOf(todo)
    \/ Queued(ConfigEvent(m)) \/ Queued(AllProperties)

(* All of that; it says nothing while an event of none waits, which will   *)
(* undo whatever there is.                                                 *)
GadgetCore ==
  /\ LeftInv
  /\ prop["config"] = "none" \/ Undoing => OffInv
  /\ prop["config"] # "none" => StartInv(prop["config"])
  /\ prop["config"] # "none" /\ ~Undoing => OnInv(prop["config"])

GadgetInv == SwitchesInOrder /\ (~NoneQueued => GadgetCore)

(* The inductive invariant.                                                *)
IInv ==
  /\ BootSafe
  /\ Usb => Processes
  /\ Usb /\ enabled => GadgetInv
=============================================================================
