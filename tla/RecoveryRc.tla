----------------------------- MODULE RecoveryRc -----------------------------
(***************************************************************************)
(* The init scripts of the recovery ramdisk (build/unzip_boot/root) as     *)
(* data: which actions there are, on which trigger, and the commands of    *)
(* each in their order.  Commands that only set a permission, a label or a *)
(* string are left out.  RecoveryBoot executes the table.                  *)
(***************************************************************************)
EXTENDS Integers, Sequences, FiniteSets

CONSTANT Installed   \* bound: the scripts of /system/etc/init there are

ASSUME InstalledAssumption == Installed \subseteq {"wlan", "usb", "touch", "droidspaces"}

(* sys.usb.config names a mode; a mode uses the endpoints of one function. *)
Modes == {"none", "adb", "sideload", "fastboot"}
FunctionOf(mode) == IF mode = "fastboot" THEN "fastboot" ELSE "adb"

(* The services each script declares: those with "oneshot" run once, the   *)
(* others are restarted when they exit.                                    *)
InitOneshots == {"selinux-permissive"}
WlanOneshots == {"load_wlan_driver", "wifi-helper"}
TouchOneshots == {"focaltech-tp"}
ContainerOneshots == {"ubuntu-droidspaces"}
Oneshots == InitOneshots \cup WlanOneshots \cup TouchOneshots \cup ContainerOneshots

UsbDaemons == {"adbd", "fastbootd"}
ContainerDaemons == {"droidspacesd"}
Daemons == UsbDaemons \cup ContainerDaemons
Services == Oneshots \cup Daemons

-----------------------------------------------------------------------------
(* Commands.                                                               *)
Cmd(do, arg, val) == [do |-> do, arg |-> arg, val |-> val]

SetProp(name, value) == Cmd("setprop", name, value)
CopyProp(name, from) == Cmd("copyprop", name, from)   \* setprop a ${b}
Start(s)   == Cmd("start", s, "")
Stop(s)    == Cmd("stop", s, "")
Restart(s) == Cmd("restart", s, "")
Trigger(stage) == Cmd("trigger", stage, "")

MountConfigfs == Cmd("mount_configfs", "", "")
MakeFunction(f) == Cmd("mkfunction", f, "")       \* mkdir functions/ffs.*
MountFunctionfs(f) == Cmd("mount_ffs", f, "")
IdProduct(mode) == Cmd("id_product", mode, "")
Link(mode) == Cmd("symlink_f1", FunctionOf(mode), "")
Unlink == Cmd("rm_f1", "", "")
BindUdc == Cmd("write_udc", "controller", "")
UnbindUdc == Cmd("write_udc", "none", "")
MountNvdata == Cmd("mount_nvdata", "", "")

(* What init itself does between late-init and the property triggers.      *)
QueuePropertyTriggers == Cmd("queue_property_triggers", "", "")
EnablePropertyTrigger == Cmd("enable_property_trigger", "", "")

-----------------------------------------------------------------------------
(* Actions: "on stage && property:...", "on property:... && property:...". *)
On(stage, props, cmds) == [stage |-> stage, props |-> props, cmds |-> cmds]
OnStage(stage, cmds) == On(stage, {}, cmds)
OnProps(props, cmds) == On("", props, cmds)

(* Mutant: sys.usb.configfs is set with sys.usb.config, after the fs stage. *)
InitRcConfigfsLate ==
  << OnStage("init", << Start("selinux-permissive") >>),
     OnStage("late-init",
             << Trigger("early-fs"), Trigger("fs"), Trigger("post-fs"),
                Trigger("post-fs-data"), Trigger("firmware_mounts_complete"),
                Trigger("early-boot"), Trigger("boot") >>),
     OnStage("post-fs-data", << SetProp("configfs", "1"), SetProp("config", "adb") >>) >>

InitRc ==
  << OnStage("early-init", << SetProp("configfs", "1") >>),
     OnStage("init", << Start("selinux-permissive") >>),
     OnStage("late-init",
             << Trigger("early-fs"), Trigger("fs"), Trigger("post-fs"),
                Trigger("post-fs-data"), Trigger("firmware_mounts_complete"),
                Trigger("early-boot"), Trigger("boot") >>),
     OnStage("post-fs-data", << SetProp("config", "adb") >>) >>

(* Mutant: the helper waits for the driver to be loading, an event that    *)
(* passes before the property triggers are enabled.                        *)
WlanRcOnRunning ==
  << OnStage("early-boot", << SetProp("connsys", "no") >>),
     OnStage("boot", << MountNvdata, Start("load_wlan_driver") >>),
     OnProps({<< "load_wlan_driver", "running" >>}, << Start("wifi-helper") >>) >>

(* Mutant: the ready flag is reset when the helper was started.            *)
WlanRcResetLate ==
  << OnStage("boot", << MountNvdata, Start("load_wlan_driver") >>),
     OnProps({<< "load_wlan_driver", "stopped" >>},
             << Start("wifi-helper"), SetProp("connsys", "no") >>) >>

WlanRc ==
  << OnStage("early-boot", << SetProp("connsys", "no") >>),
     OnStage("boot", << MountNvdata, Start("load_wlan_driver") >>),
     OnProps({<< "load_wlan_driver", "stopped" >>}, << Start("wifi-helper") >>) >>

(* Composing the gadget for a mode.                                        *)
Compose(mode) ==
  OnProps({<< "config", mode >>, << "ffs.ready", "1" >>, << "configfs", "1" >>},
          << IdProduct(mode), Link(mode), BindUdc, CopyProp("state", "config") >>)

(* Mutant: f1 survives the mode, as f2 does.                               *)
DecomposeKeepingF1 ==
  OnProps({<< "config", "none" >>, << "configfs", "1" >>},
          << UnbindUdc, Stop("adbd"), Stop("fastbootd"),
             SetProp("ffs.ready", "0"), CopyProp("state", "config") >>)

(* Mutant: sys.usb.ffs.ready stays what the last daemon has set it to, and *)
(* the daemons go on.                                                      *)
DecomposeWithoutStop ==
  OnProps({<< "config", "none" >>, << "configfs", "1" >>},
          << UnbindUdc, SetProp("ffs.ready", "0"), Unlink,
             CopyProp("state", "config") >>)

(* Mutant: the two properties at the end are mixed up.                     *)
DecomposeMixedUp ==
  OnProps({<< "config", "none" >>, << "configfs", "1" >>},
          << UnbindUdc, Stop("adbd"), Stop("fastbootd"),
             CopyProp("ffs.ready", "config"), Unlink, SetProp("state", "0") >>)

Decompose ==
  OnProps({<< "config", "none" >>, << "configfs", "1" >>},
          << UnbindUdc, Stop("adbd"), Stop("fastbootd"),
             SetProp("ffs.ready", "0"), Unlink, CopyProp("state", "config") >>)

(* Mutant: functionfs is mounted before its functions exist.               *)
UsbRcMountFirst ==
  << OnProps({<< "adb.root", "1" >>}, << Restart("adbd") >>),
     OnStage("fs", << MountFunctionfs("adb"), MountFunctionfs("fastboot") >>),
     On("fs", {<< "configfs", "1" >>},
        << MountConfigfs, MakeFunction("adb"), MakeFunction("fastboot") >>),
     OnProps({<< "config", "adb" >>}, << Start("adbd") >>),
     OnProps({<< "config", "fastboot" >>}, << Start("fastbootd") >>),
     Decompose, Compose("sideload"), Compose("adb"), Compose("fastboot") >>

(* The legacy branches for sys.usb.configfs=0 never apply: early-init sets *)
(* the property to 1 and nothing resets it.                                *)
UsbRc ==
  << OnProps({<< "adb.root", "1" >>}, << Restart("adbd") >>),
     On("fs", {<< "configfs", "1" >>},
        << MountConfigfs, MakeFunction("adb"), MakeFunction("fastboot") >>),
     OnStage("fs", << MountFunctionfs("adb"), MountFunctionfs("fastboot") >>),
     OnProps({<< "config", "adb" >>}, << Start("adbd") >>),
     OnProps({<< "config", "fastboot" >>}, << Start("fastbootd") >>),
     Decompose, Compose("sideload"), Compose("adb"), Compose("fastboot") >>

TouchRc == << OnStage("boot", << Start("focaltech-tp") >>) >>

(* Mutant: the container waits for a state that init does not report.      *)
DroidspacesRcOnReady ==
  << OnStage("boot", << Start("droidspacesd") >>),
     OnProps({<< "droidspacesd", "ready" >>}, << Start("ubuntu-droidspaces") >>) >>

DroidspacesRc ==
  << OnStage("boot", << Start("droidspacesd") >>),
     OnProps({<< "droidspacesd", "running" >>}, << Start("ubuntu-droidspaces") >>) >>

(* In the order init parses them: init.rc, then /system/etc/init by name.  *)
Script(name, actions) == IF name \in Installed THEN actions ELSE << >>
Rc == InitRc \o Script("wlan", WlanRc) \o Script("usb", UsbRc)
        \o Script("touch", TouchRc) \o Script("droidspaces", DroidspacesRc)

(* Properties; init.svc.<service> goes by the name of the service.  Before *)
(* the first stage only those of prop.default are set.                     *)
Props == {"configfs", "config", "state", "ffs.ready", "adb.root", "connsys"}
Default == [p \in Props \cup Services |-> IF p = "adb.root" THEN "1" ELSE ""]
=============================================================================
