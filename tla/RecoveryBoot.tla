---------------------------- MODULE RecoveryBoot ----------------------------
(***************************************************************************)
(* The recovery ramdisk boots: init works through the actions of           *)
(* RecoveryRc, one command at a time, while the services it has started    *)
(* run, finish, crash and set properties.  init itself, the kernel and the *)
(* binaries are not in the repository: they are modelled as far as the     *)
(* scripts rely on them.                                                   *)
(*                                                                         *)
(* init keeps one queue of events.  A trigger or, once they are enabled, a *)
(* property change is appended to it; the oldest event selects the actions *)
(* that match, in the order of the files, and their commands are executed  *)
(* before the next event is looked at.                                     *)
(***************************************************************************)
EXTENDS RecoveryRc

CONSTANTS
  MayFail,      \* the oneshot services that may fail
  MaxCrashes,   \* bound: how many processes die on their own
  MaxSwitches   \* bound: how often somebody sets sys.usb.config

ASSUME BootAssumption ==
  MayFail \subseteq Oneshots /\ MaxCrashes \in Nat /\ MaxSwitches \in Nat

VARIABLES
  queue,     \* init's events
  todo,      \* the actions it is executing, with the commands left of each
  enabled,   \* whether property changes queue events yet
  prop,      \* the property store; prop[s] is init.svc.s
  held,      \* the services init does not restart: SVC_DISABLED
  proc,      \* how far the process of a service is
  dev,       \* what the kernel has mounted, loaded and bound
  crashes, switches

init_vars == << queue, todo, enabled >>
vars == << queue, todo, enabled, prop, held, proc, dev, crashes, switches >>

-----------------------------------------------------------------------------
(* Events and the actions they select.                                     *)
Event(kind, name, value) == [kind |-> kind, name |-> name, value |-> value]
StageEvent(stage) == Event("stage", stage, "")
AllProperties == Event("all", "", "")
Builtin(cmd) == Event("builtin", cmd.do, "")

Holds(props, store) == \A q \in props : store[q[1]] = q[2]

(* A property event selects with the value it was queued with; the other   *)
(* conditions are looked up now.                                           *)
Selects(e, a, store) ==
  CASE e.kind = "stage" -> a.stage = e.name /\ Holds(a.props, store)
    [] e.kind = "prop"  ->
         /\ a.stage = "" /\ << e.name, e.value >> \in a.props
         /\ Holds({q \in a.props : q[1] # e.name}, store)
    [] e.kind = "all"   -> a.stage = "" /\ Holds(a.props, store)
    [] e.kind = "builtin" -> FALSE

(* The k-th of a set of numbers.                                           *)
Nth(S, k) == CHOOSE i \in S : Cardinality({j \in S : j <= i}) = k

Selected(e) ==
  IF e.kind = "builtin" THEN << OnStage("", << Cmd(e.name, "", "") >>) >>
  ELSE LET chosen == {i \in DOMAIN Rc : Selects(e, Rc[i], prop)}
       IN  [k \in 1..Cardinality(chosen) |-> Rc[Nth(chosen, k)]]

(* Nothing happens on an event no action names: it is not queued.          *)
Watched == UNION {Rc[i].props : i \in 1..Len(Rc)}

Changed(name, value) ==
  IF enabled /\ << name, value >> \in Watched
  THEN << Event("prop", name, value) >> ELSE << >>

-----------------------------------------------------------------------------
(* Services.  Begin and Kill give the store, the processes and the events  *)
(* after a service was started or killed.                                  *)
Begin(s) ==
  /\ prop' = [prop EXCEPT ![s] = "running"]
  /\ proc' = [proc EXCEPT ![s] = "begun"]
  /\ queue' = queue \o Changed(s, "running")

(* The endpoints of a dead daemon are closed, and the gadget that uses     *)
(* them is taken off the bus.                                              *)
Function(s) == IF s = "adbd" THEN "adb" ELSE "fastboot"
WithoutEndpoints(s) ==
  IF s \notin {"adbd", "fastbootd"} THEN dev
  ELSE [dev EXCEPT !.open = @ \ {Function(s)},
                   !.udc = @ /\ dev.f1 # Function(s)]

Kill(s) ==
  /\ prop' = [prop EXCEPT ![s] = "stopping"]
  /\ proc' = [proc EXCEPT ![s] = "dead"]
  /\ dev' = WithoutEndpoints(s)
  /\ queue' = queue

(* A service that still runs, or is being stopped, is only taken out of    *)
(* the disabled ones: it is restarted when it has died.                    *)
DoStart(s) ==
  /\ held' = held \ {s}
  /\ IF prop[s] \in {"running", "stopping"} THEN UNCHANGED << prop, proc, queue >>
     ELSE Begin(s)
  /\ UNCHANGED dev

DoStop(s) ==
  /\ held' = held \cup {s}
  /\ IF prop[s] = "running" THEN Kill(s)
     ELSE /\ prop' = [prop EXCEPT ![s] = IF @ = "stopping" THEN @ ELSE "stopped"]
          /\ UNCHANGED << proc, dev, queue >>

DoRestart(s) ==
  CASE prop[s] = "running"    -> Kill(s) /\ UNCHANGED held
    [] prop[s] = "restarting" -> UNCHANGED << prop, proc, queue, held, dev >>
    [] OTHER                  -> DoStart(s)

-----------------------------------------------------------------------------
(* The commands that reach the kernel.  One that fails is logged and the   *)
(* action goes on: a symlink that exists stays what it is, a function is   *)
(* mounted only when it was made, the controller is bound only to a linked *)
(* function whose endpoints are open.                                      *)
DeviceAfter(c) ==
  CASE c.do = "mount_configfs" -> [dev EXCEPT !.configfs = TRUE]
    [] c.do = "mkfunction" ->
         [dev EXCEPT !.functions = IF dev.configfs THEN @ \cup {c.arg} ELSE @]
    [] c.do = "mount_ffs" ->
         [dev EXCEPT !.mounted = IF c.arg \in dev.functions THEN @ \cup {c.arg} ELSE @]
    [] c.do = "id_product" -> [dev EXCEPT !.id = c.arg]
    [] c.do = "symlink_f1" -> [dev EXCEPT !.f1 = IF @ = "" THEN c.arg ELSE @]
    [] c.do = "rm_f1" -> [dev EXCEPT !.f1 = "", !.udc = FALSE]
    [] c.do = "write_udc" ->
         [dev EXCEPT !.udc = c.arg = "controller" /\ (@ \/ dev.f1 \in dev.open)]
    [] c.do = "mount_nvdata" -> [dev EXCEPT !.nvdata = TRUE]

DeviceCommands == {"mount_configfs", "mkfunction", "mount_ffs", "id_product",
                   "symlink_f1", "rm_f1", "write_udc", "mount_nvdata"}

-----------------------------------------------------------------------------
(* One turn of init's loop: the next event, or the next command.           *)
TakeEvent ==
  /\ todo = << >> /\ queue # << >>
  /\ todo' = Selected(Head(queue))
  /\ queue' = Tail(queue)
  /\ UNCHANGED << enabled, prop, held, proc, dev, crashes, switches >>

Advance ==
  todo' = IF Len(Head(todo).cmds) = 1 THEN Tail(todo)
          ELSE << [Head(todo) EXCEPT !.cmds = Tail(@)] >> \o Tail(todo)

Execute(c) ==
  \/ /\ c.do \in {"setprop", "copyprop"}
     /\ LET value == IF c.do = "setprop" THEN c.val ELSE prop[c.val]
        IN  /\ prop' = [prop EXCEPT ![c.arg] = value]
            /\ queue' = queue \o Changed(c.arg, value)
     /\ UNCHANGED << enabled, held, proc, dev >>
  \/ c.do = "start" /\ DoStart(c.arg) /\ UNCHANGED enabled
  \/ c.do = "stop" /\ DoStop(c.arg) /\ UNCHANGED enabled
  \/ c.do = "restart" /\ DoRestart(c.arg) /\ UNCHANGED enabled
  \/ /\ c.do = "trigger"
     /\ queue' = queue \o << StageEvent(c.arg) >>
     /\ UNCHANGED << enabled, prop, held, proc, dev >>
  \/ /\ c.do = "queue_property_triggers"
     /\ queue' = queue \o << Builtin(EnablePropertyTrigger), AllProperties >>
     /\ UNCHANGED << enabled, prop, held, proc, dev >>
  \/ /\ c.do = "enable_property_trigger"
     /\ enabled' = TRUE
     /\ UNCHANGED << queue, prop, held, proc, dev >>
  \/ /\ c.do \in DeviceCommands
     /\ dev' = DeviceAfter(c)
     /\ UNCHANGED << queue, enabled, prop, held, proc >>

ExecuteCommand ==
  /\ todo # << >>
  /\ Execute(Head(Head(todo).cmds))
  /\ Advance
  /\ UNCHANGED << crashes, switches >>

(* init reaps a child between two commands.                                *)
Reap(s) ==
  /\ proc[s] = "dead"
  /\ LET state == IF s \in Oneshots \cup held THEN "stopped" ELSE "restarting"
     IN  /\ prop' = [prop EXCEPT ![s] = state]
         /\ queue' = queue \o Changed(s, state)
  /\ proc' = [proc EXCEPT ![s] = "none"]
  /\ UNCHANGED << todo, enabled, held, dev, crashes, switches >>

RestartTimer(s) ==
  /\ prop[s] = "restarting"
  /\ Begin(s)
  /\ UNCHANGED << todo, enabled, held, dev, crashes, switches >>

-----------------------------------------------------------------------------
(* Processes.                                                              *)
Proceed(s, from, to, dev1) ==
  /\ proc[s] = from
  /\ proc' = [proc EXCEPT ![s] = to]
  /\ dev' = dev1
  /\ UNCHANGED << queue, todo, enabled, prop, held, crashes, switches >>

(* The script /system/bin/selinux-permissive.                              *)
TurnPermissive ==
  Proceed("selinux-permissive", "begun", "dead", [dev EXCEPT !.permissive = TRUE])

(* modprobe loads the modules, or fails.                                   *)
LoadWlan(ok) ==
  Proceed("load_wlan_driver", "begun", "dead", [dev EXCEPT !.module = @ \/ ok])
LoadTouch(ok) ==
  Proceed("focaltech-tp", "begun", "dead", [dev EXCEPT !.touch = @ \/ ok])

(* wlan_init.sh: the launcher in the background, at most twenty polls of   *)
(* vendor.connsys.driver.ready, power, then wlan0 if there is one.  It     *)
(* powers the chip on whether or not the launcher got ready.               *)
LaunchWmt == Proceed("wifi-helper", "begun", "polling", [dev EXCEPT !.launcher = TRUE])
PowerOn == Proceed("wifi-helper", "polling", "powered", dev)
IfconfigUp ==
  Proceed("wifi-helper", "powered", "dead",
          [dev EXCEPT !.wlan0 = @ \/ (dev.module /\ prop["connsys"] = "yes")])

(* A process sets a property: the event is queued at once.                 *)
SetByProcess(name, value) ==
  /\ prop' = [prop EXCEPT ![name] = value]
  /\ queue' = queue \o Changed(name, value)

LauncherReady ==
  /\ dev.launcher /\ prop["connsys"] # "yes"
  /\ SetByProcess("connsys", "yes")
  /\ UNCHANGED << todo, enabled, held, proc, dev, crashes, switches >>

(* adbd and fastbootd open the endpoints of their function, once it is     *)
(* mounted, and then say so.                                               *)
OpenEndpoints(s) ==
  /\ Function(s) \in dev.mounted
  /\ Proceed(s, "begun", "open", [dev EXCEPT !.open = @ \cup {Function(s)}])

ReportReady(s) ==
  /\ proc[s] = "open"
  /\ proc' = [proc EXCEPT ![s] = "up"]
  /\ SetByProcess("ffs.ready", "1")
  /\ UNCHANGED << todo, enabled, held, dev, crashes, switches >>

(* droidspacesd makes its socket; boot-ubuntu.sh starts the container.     *)
MakeSocket == Proceed("droidspacesd", "begun", "up", dev)
RunContainer == Proceed("ubuntu-droidspaces", "begun", "up", dev)

(* A daemon crashes, or the container is shut down.                        *)
Die(s) ==
  /\ crashes < MaxCrashes
  /\ prop[s] = "running" /\ proc[s] # "dead"
  /\ proc' = [proc EXCEPT ![s] = "dead"]
  /\ dev' = WithoutEndpoints(s)
  /\ crashes' = crashes + 1
  /\ UNCHANGED << queue, todo, enabled, prop, held, switches >>

(* Somebody switches the USB mode, by way of none: as soon as the property *)
(* is none, not when the gadget is gone.                                   *)
Switch(mode) ==
  /\ enabled /\ switches < MaxSwitches
  /\ prop["config"] # mode /\ "none" \in {mode, prop["config"]}
  /\ SetByProcess("config", mode)
  /\ switches' = switches + 1
  /\ UNCHANGED << todo, enabled, held, proc, dev, crashes >>

-----------------------------------------------------------------------------
Init ==
  /\ queue = << StageEvent("early-init"), StageEvent("init"),
                StageEvent("late-init"), Builtin(QueuePropertyTriggers) >>
  /\ todo = << >> /\ enabled = FALSE
  /\ prop = Default
  /\ held = Services
  /\ proc = [s \in Services |-> "none"]
  /\ dev = [configfs |-> FALSE, functions |-> {}, mounted |-> {}, open |-> {},
            id |-> "", f1 |-> "", udc |-> FALSE, nvdata |-> FALSE,
            module |-> FALSE, touch |-> FALSE, launcher |-> FALSE,
            wlan0 |-> FALSE, permissive |-> FALSE]
  /\ crashes = 0 /\ switches = 0

InitLoop ==
  \/ TakeEvent \/ ExecuteCommand
  \/ \E s \in Services : Reap(s)
  \/ \E s \in Daemons : RestartTimer(s)

Outcomes(s) == IF s \in MayFail THEN {TRUE, FALSE} ELSE {TRUE}

ProcessStep ==
  \/ TurnPermissive
  \/ \E ok \in Outcomes("load_wlan_driver") : LoadWlan(ok)
  \/ \E ok \in Outcomes("focaltech-tp") : LoadTouch(ok)
  \/ LaunchWmt \/ PowerOn \/ IfconfigUp \/ LauncherReady
  \/ \E s \in UsbDaemons : OpenEndpoints(s) \/ ReportReady(s)
  \/ MakeSocket \/ RunContainer

Environment ==
  \/ \E s \in Daemons \cup {"ubuntu-droidspaces"} : Die(s)
  \/ \E mode \in Modes : Switch(mode)

Next == InitLoop \/ ProcessStep \/ Environment

(* init's loop never waits for a process, and the kernel runs every        *)
(* process that can run.                                                   *)
Fairness ==
  /\ WF_vars(TakeEvent) /\ WF_vars(ExecuteCommand)
  /\ \A s \in Services : WF_vars(Reap(s))
  /\ \A s \in Daemons : WF_vars(RestartTimer(s))
  /\ WF_vars(TurnPermissive)
  /\ WF_vars(\E ok \in Outcomes("load_wlan_driver") : LoadWlan(ok))
  /\ WF_vars(\E ok \in Outcomes("focaltech-tp") : LoadTouch(ok))
  /\ WF_vars(LaunchWmt) /\ WF_vars(PowerOn) /\ WF_vars(IfconfigUp)
  /\ \A s \in UsbDaemons : WF_vars(OpenEndpoints(s)) /\ WF_vars(ReportReady(s))
  /\ WF_vars(MakeSocket) /\ WF_vars(RunContainer)

Spec == Init /\ [][Next]_vars /\ Fairness
=============================================================================
