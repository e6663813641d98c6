--------------------------- MODULE MCRecoveryBoot ---------------------------
(***************************************************************************)
(* What the scripts are written for, what the documents say of them, and   *)
(* the bounds under which TLC looks.                                       *)
(***************************************************************************)
EXTENDS RecoveryBoot

TypeOK ==
  /\ \A i \in 1..Len(queue) : queue[i].kind \in {"stage", "prop", "all", "builtin"}
  /\ \A i \in 1..Len(todo) : todo[i].cmds # << >>
  /\ enabled \in BOOLEAN
  /\ \A s \in Services : prop[s] \in {"", "running", "stopping", "stopped", "restarting"}
  /\ prop["config"] \in Modes \cup {""} /\ prop["state"] \in Modes \cup {""}
  /\ held \subseteq Services
  /\ \A s \in Services :
       proc[s] \in {"none", "begun", "polling", "powered", "open", "up", "dead"}
  /\ dev.mounted \subseteq dev.functions /\ dev.open \subseteq dev.mounted
  /\ dev.f1 \in {"", "adb", "fastboot"}

(* Nothing is left to do: no event, no command, no process to reap, to     *)
(* restart or that still comes up.                                         *)
Quiet ==
  /\ queue = << >> /\ todo = << >> /\ enabled
  /\ \A s \in Services : prop[s] \in {"", "running", "stopped"} /\ proc[s] # "dead"
  /\ \A s \in UsbDaemons : prop[s] = "running" => proc[s] = "up"

(* When the boot has settled, the USB gadget is what sys.usb.config asks   *)
(* for and what sys.usb.state says: on the bus with the function, the      *)
(* product id and the daemon of the mode, or off the bus.                  *)
GadgetIsTruthful ==
  Quiet =>
    /\ prop["config"] \in {"adb", "fastboot"} =>
         /\ dev.udc /\ dev.f1 = FunctionOf(prop["config"])
         /\ dev.id = prop["config"] /\ prop["state"] = prop["config"]
    /\ prop["config"] = "none" =>
         /\ ~dev.udc /\ dev.f1 = "" /\ prop["state"] = "none"
         /\ \A s \in UsbDaemons : prop[s] # "running"

Begins(s) == prop[s] # "running" /\ prop'[s] = "running"

(* adbd and fastbootd are never started before functionfs is mounted.      *)
DaemonsFindEndpoints ==
  [][\A s \in UsbDaemons : Begins(s) => Function(s) \in dev.mounted]_vars

(* vendor.connsys.driver.ready, reset once at early-boot, is not reset     *)
(* after wmt_launcher has set it: wifi-helper does not poll in vain.       *)
ReadyIsKept == [][prop["connsys"] = "yes" => prop'["connsys"] = "yes"]_vars

(* The boot reaches its goals although its property triggers are enabled   *)
(* only after the boot stage: adb on the bus, the container launched, the  *)
(* WiFi script run.                                                        *)
AdbComes == <>[](dev.udc /\ dev.f1 = "adb" /\ "adb" \in dev.open)
ContainerComes == <>[](proc["ubuntu-droidspaces"] = "up")
WifiHelperRuns == <>(proc["wifi-helper"] = "powered")

(* A USB mode that is set and left alone takes effect, however often the   *)
(* mode was switched and daemons crashed before.                           *)
SwitchTakesEffect ==
  \A mode \in {"adb", "fastboot"} :
    <>[](prop["config"] = mode) =>
      <>[](dev.udc /\ dev.f1 = FunctionOf(mode) /\ prop["state"] = mode)

-----------------------------------------------------------------------------
(* What the documents say: SELinux is permissive before any filesystem is  *)
(* mounted and any driver started (docs/security-model.md), the daemon has *)
(* made its socket before the container is launched                        *)
(* (docs/droidspaces-container.md), WiFi and touch are initialized before  *)
(* it (docs/hardware-drivers.md).  This asks for one of the three only.    *)
SomethingIsWaitedFor ==
  [][Begins("ubuntu-droidspaces") =>
       \/ dev.permissive
       \/ proc["droidspacesd"] = "up"
       \/ dev.touch /\ dev.wlan0]_vars
=============================================================================
