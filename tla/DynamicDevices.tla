--------------------------- MODULE DynamicDevices ---------------------------
(***************************************************************************)
(* The devices that come and go while the guests run: the uevents of the   *)
(* kernel, the rules that give each event to one guest                     *)
(* (device-control-dynamic-udev.c), the device node and the permission     *)
(* that this guest gets (lxc-util.c), and the copy of the event that is    *)
(* injected into its network namespace (uevent_injection.c).               *)
(*                                                                         *)
(* The manager keeps no list of the devices it has given away: each event, *)
(* the removal too, is judged anew by the rules and by the state the       *)
(* guests are in when it is handled.                                       *)
(***************************************************************************)
EXTENDS Integers, Sequences, SequencesExt, FiniteSetsExt

CONSTANTS
  NumContainers,
  Device,      \* devices, each with its own devpath and number
  Kind,        \* [Device -> Kinds], by subsystem and number
  FsOf,        \* [Device -> Filesystems]
  Items,       \* [Container -> sequence of ItemType]
  MaxStarts,   \* bound on the starts of the guests
  MaxPlugs,    \* bound on how often devices are plugged
  MaxUevents,  \* bound on the events that wait
  Faults       \* what may fail, a subset of AllFaults

Container == 1 .. NumContainers
AllFaults == {"overrun", "cgroup", "mknod", "fork", "inject"}

\* DEVNODE_TYPE_BLK, _CHR and _NET; a bus device has no device number.
Kinds == {"blk", "chr", "net", "bus"}
Filesystems == {"ext4", "vfat", "exfat", "none"}

\* The other actions are handled like change: nothing but an injection.
Actions == {"add", "remove", "change"}

\* dynamic_device_entry_items_t with the devpath of its entry: the devices that its
\* devpath, subsystem and devtypes name, its actions, its extra rule, its behavior.
Checkers == {"none", "exclude-fs", "include-fs"}
ItemType ==
  [devices : SUBSET Device, actions : SUBSET Actions, checker : Checkers, value : Filesystems,
   devnode : BOOLEAN, allow : BOOLEAN, injection : BOOLEAN]

ASSUME DevicesAssumption ==
  /\ NumContainers \in Nat \ {0}
  /\ Kind \in [Device -> Kinds] /\ FsOf \in [Device -> Filesystems]
  /\ \A c \in Container : Items[c] \in Seq(ItemType)
  /\ MaxStarts \in Nat /\ MaxPlugs \in Nat /\ MaxUevents \in Nat
  /\ Faults \subseteq AllFaults

VARIABLES
  status,    \* of each guest: STARTED, STOPPING (reboot and shutdown), or DOWN
  running,   \* the guests whose processes exist
  starts,    \* starts of guests so far
  present,   \* the devices that are plugged, with their node on the host
  plugs,     \* how often a device was plugged
  uevents,   \* events that wait in the udev monitor
  missed,    \* devices whose last add or remove the kernel has dropped
  error,     \* the error of such a drop waits at the socket of the monitor
  monitored, \* the event source of the monitor is enabled
  node,      \* [Container -> devices with a node in the guest]
  allowed,   \* [Container -> devices the cgroup of the guest allows]
  unwritten, \* [Container -> devices for which the last write to the cgroup has failed]
  known      \* [Container -> devices whose add was injected and whose remove was not]

guestVars == <<status, running, starts>>
hostVars == <<present, plugs>>
monitorVars == <<uevents, missed, error, monitored>>
accessVars == <<node, allowed, unwritten, known>>
vars == <<guestVars, hostVars, monitorVars, accessVars>>

Uevent == [action : Actions, device : Device]

TypeOK ==
  /\ status \in [Container -> {"STARTED", "STOPPING", "DOWN"}]
  /\ running \subseteq Container
  /\ starts \in 0 .. MaxStarts
  /\ present \subseteq Device /\ plugs \in 0 .. MaxPlugs
  /\ uevents \in Seq(Uevent) /\ missed \subseteq Device
  /\ error \in BOOLEAN /\ monitored \in BOOLEAN
  /\ node \in [Container -> SUBSET Device]
  /\ allowed \in [Container -> SUBSET Device]
  /\ unwritten \in [Container -> SUBSET Device]
  /\ known \in [Container -> SUBSET Device]

Nothing == [c \in Container |-> {}]

Init ==
  /\ status = [c \in Container |-> "DOWN"] /\ running = {}
  /\ starts = 0
  /\ present = {} /\ plugs = 0
  /\ uevents = <<>> /\ missed = {} /\ error = FALSE /\ monitored = TRUE
  /\ node = Nothing /\ allowed = Nothing /\ unwritten = Nothing /\ known = Nothing

\* The outcomes of a call that may fail in the named way.
Outcome(fault) == IF fault \in Faults THEN BOOLEAN ELSE {TRUE}

-----------------------------------------------------------------------------
(***************************************************************************)
(* The kernel.                                                             *)
(***************************************************************************)

\* An event is sent to the monitor.  When the buffer of its socket is full, which the
\* events of other devices may do to it, the kernel drops the event and sets the error
\* of the socket.
Send(action, d) ==
  \/ /\ Len(uevents) < MaxUevents
     /\ uevents' = Append(uevents, [action |-> action, device |-> d])
     /\ missed' = IF action = "change" THEN missed ELSE missed \ {d}
     /\ UNCHANGED <<error, monitored>>
  \/ /\ "overrun" \in Faults
     /\ missed' = IF action = "change" THEN missed ELSE missed \cup {d}
     /\ error' = TRUE
     /\ UNCHANGED <<uevents, monitored>>

Plug(d) ==
  /\ d \notin present /\ plugs < MaxPlugs
  /\ present' = present \cup {d} /\ plugs' = plugs + 1
  /\ Send("add", d)
  /\ UNCHANGED <<guestVars, accessVars>>

Change(d) ==
  /\ d \in present /\ Send("change", d)
  /\ UNCHANGED <<guestVars, hostVars, accessVars>>

Unplug(d) ==
  /\ d \in present /\ present' = present \ {d}
  /\ Send("remove", d)
  /\ UNCHANGED <<guestVars, plugs, accessVars>>

-----------------------------------------------------------------------------
(***************************************************************************)
(* The rules.                                                              *)
(***************************************************************************)

\* Mutant of ExtraChecker: the file system of a removed device is looked at.
ExtraCheckerAlways(item, e) ==
  \/ item.checker = "none" \/ Kind[e.device] # "blk"
  \/ /\ e.device \in present /\ FsOf[e.device] \notin {"none", "ext4"}
     /\ (FsOf[e.device] = item.value) <=> (item.checker = "include-fs")

\* The extra rule of an item: extra_checker_block_device reads the file system of
\* an added block device, which fails when the device is gone or has none, and
\* excludes ext4 always.  Other subsystems have no checker.
ExtraChecker(item, e) ==
  \/ item.checker = "none" \/ Kind[e.device] # "blk" \/ e.action # "add"
  \/ /\ e.device \in present /\ FsOf[e.device] \notin {"none", "ext4"}
     /\ (FsOf[e.device] = item.value) <=> (item.checker = "include-fs")

Matches(item, e) ==
  e.device \in item.devices /\ e.action \in item.actions /\ ExtraChecker(item, e)

\* device_control_dynamic_udev_rule_judgment: the items of a started guest that
\* match; the first of them gives the behavior.
RuleJudgment(c, e) ==
  {k \in DOMAIN Items[c] : status[c] = "STARTED" /\ Matches(Items[c][k], e)}

\* device_control_dynamic_udev_get_target_container: the first guest with a match.
Candidates(e) == {c \in Container : RuleJudgment(c, e) # {}}
Target(e) == Min(Candidates(e))
Behavior(e) == Items[Target(e)][Min(RuleJudgment(Target(e), e))]

-----------------------------------------------------------------------------
(***************************************************************************)
(* The event.                                                              *)
(***************************************************************************)

\* Does lxcutil_dynamic_device_operation write the permission?  That of a removed block
\* device stays, because the guest has to unmount it.
WorksOnCgroup(c, e, b) ==
  /\ b.allow /\ Kind[e.device] \notin {"net", "bus"} /\ c \in running
  /\ e.action = "add" \/ (e.action = "remove" /\ Kind[e.device] # "blk")

\* lxcutil_cgroup_device_operation, which looks at no result of its writes.
CgroupOperation(c, e, b, written) ==
  /\ allowed' =
       [allowed EXCEPT ![c] =
          IF ~ (WorksOnCgroup(c, e, b) /\ written) THEN @
          ELSE IF e.action = "add" THEN @ \cup {e.device} ELSE @ \ {e.device}]
  /\ unwritten' =
       [unwritten EXCEPT ![c] =
          IF ~ WorksOnCgroup(c, e, b) THEN @
          ELSE IF written THEN @ \ {e.device} ELSE @ \cup {e.device}]

\* Does lxcutil_dynamic_device_operation make or remove a node?
WorksOnNode(e, b) ==
  b.devnode /\ Kind[e.device] \notin {"net", "bus"} /\ e.action \in {"add", "remove"}

\* lxcutil_add_remove_guest_node comes to the child that changes its root to that of
\* the guest: a device that is added must still have its node on the host.
ReachesGuest(c, e, fork) ==
  fork /\ c \in running /\ (e.action = "add" => e.device \in present)

\* lxcutil_add_remove_guest_node_child: the node is unlinked, and made anew for a device
\* that is added.
NodeOperation(c, e, b, mknod, fork) ==
  node' =
    [node EXCEPT ![c] =
       IF ~ (WorksOnNode(e, b) /\ ReachesGuest(c, e, fork)) THEN @
       ELSE IF e.action = "add" /\ mknod THEN @ \cup {e.device} ELSE @ \ {e.device}]

\* Mutant of OperationSucceeds: what the operation returns is not looked at.
OperationUnchecked(c, e, b, mknod, fork) == Kind[e.device] # "net" \/ ~ (b.devnode \/ b.allow)

\* What lxcutil_dynamic_device_operation returns, called when there is something to do:
\* the node decides, nothing is known of the permission.
OperationSucceeds(c, e, b, mknod, fork) ==
  (b.devnode \/ b.allow) =>
    /\ Kind[e.device] # "net"
    /\ WorksOnNode(e, b) => ReachesGuest(c, e, fork) /\ (e.action = "add" => mknod)

\* uevent_injection_to_pid: a child enters the network namespace of the guest and
\* sends the event there.
Inject(c, e, b, sent) ==
  known' =
    [known EXCEPT ![c] =
       IF ~ (b.injection /\ sent /\ c \in running) \/ e.action = "change" THEN @
       ELSE IF e.action = "add" THEN @ \cup {e.device}
       ELSE @ \ {e.device}]

\* device_control_dynamic_udev_devevent for an event that matches a rule.  The
\* event of a failed operation is not injected.
Assign(e) ==
  LET c == Target(e) b == Behavior(e) IN
    \E written \in Outcome("cgroup"), mknod \in Outcome("mknod"),
       fork \in Outcome("fork"), sent \in Outcome("inject") :
      /\ CgroupOperation(c, e, b, written) /\ NodeOperation(c, e, b, mknod, fork)
      /\ IF OperationSucceeds(c, e, b, mknod, fork) THEN Inject(c, e, b, sent)
         ELSE UNCHANGED known

\* udev_event_handler that was called for input.  With an error at the socket the
\* receive fails and nothing is read, but the error is gone: the next call reads on,
\* and nobody asks for what was dropped.
UdevEvent ==
  /\ monitored /\ (error \/ uevents # <<>>)
  /\ IF error THEN error' = FALSE /\ UNCHANGED <<uevents, accessVars>>
     ELSE /\ uevents' = Tail(uevents)
          /\ IF Candidates(Head(uevents)) = {} THEN UNCHANGED accessVars
             ELSE Assign(Head(uevents))
          /\ UNCHANGED error
  /\ UNCHANGED <<guestVars, hostVars, missed, monitored>>

\* udev_event_handler that was called with EPOLLERR: the monitor is not listened to any
\* more, whatever it holds.
UdevError ==
  /\ monitored /\ error
  /\ monitored' = FALSE
  /\ UNCHANGED <<guestVars, hostVars, uevents, missed, error, accessVars>>

-----------------------------------------------------------------------------
(***************************************************************************)
(* The life of the guests, which ContainerControl describes in full.       *)
(***************************************************************************)

\* A guest is started.  Of the devices only the network interfaces are notified
\* anew (container_all_dynamic_device_update_notification).
StartGuest(c) ==
  /\ status[c] = "DOWN" /\ c \notin running /\ starts < MaxStarts
  /\ status' = [status EXCEPT ![c] = "STARTED"]
  /\ running' = running \cup {c}
  /\ starts' = starts + 1
  /\ UNCHANGED <<hostVars, monitorVars, accessVars>>

StopGuest(c) ==
  /\ status[c] = "STARTED"
  /\ status' = [status EXCEPT ![c] = "STOPPING"]
  /\ UNCHANGED <<running, starts, hostVars, monitorVars, accessVars>>

\* The processes of guest c end, and with them its /dev and its cgroup.
EndGuest(c) ==
  /\ c \in running /\ running' = running \ {c}
  /\ node' = [node EXCEPT ![c] = {}]
  /\ allowed' = [allowed EXCEPT ![c] = {}]
  /\ unwritten' = [unwritten EXCEPT ![c] = {}]
  /\ known' = [known EXCEPT ![c] = {}]

GuestDies(c) ==
  EndGuest(c) /\ UNCHANGED <<status, starts, hostVars, monitorVars>>

GuestExited(c) ==
  /\ status[c] # "DOWN" /\ c \notin running
  /\ status' = [status EXCEPT ![c] = "DOWN"]
  /\ UNCHANGED <<running, starts, hostVars, monitorVars, accessVars>>

\* The deadline of guest c passes: it is sent SIGKILL and terminated, and its
\* processes end some time later.
GuestKilled(c) ==
  /\ status[c] = "STOPPING" /\ c \in running
  /\ status' = [status EXCEPT ![c] = "DOWN"]
  /\ UNCHANGED <<running, starts, hostVars, monitorVars, accessVars>>

-----------------------------------------------------------------------------

Next ==
  \/ \E d \in Device : Plug(d) \/ Change(d) \/ Unplug(d)
  \/ UdevEvent \/ UdevError
  \/ \E c \in Container :
       StartGuest(c) \/ StopGuest(c) \/ GuestDies(c) \/ GuestExited(c) \/ GuestKilled(c)

Spec == Init /\ [][Next]_vars

-----------------------------------------------------------------------------
(***************************************************************************)
(* What must hold.                                                         *)
(***************************************************************************)

\* A guest that is told of a device has what the item that gave it this device promises,
\* however late the event was handled: its node, whatever failed, and its permission, but
\* for a write to the cgroup that failed and was not looked at.
InjectedIsUsable ==
  [][\A c \in Container : \A d \in known'[c] \ known[c] :
       LET e == Head(uevents) b == Behavior(e) IN
         /\ e.action = "add" /\ e.device = d /\ Target(e) = c
         /\ b.devnode /\ Kind[d] # "bus" => d \in node'[c] /\ d \in present
         /\ b.allow /\ Kind[d] # "bus" => d \in allowed'[c] \/ d \in unwritten'[c]]_vars

ItemsFor(c, d, action) ==
  {k \in DOMAIN Items[c] : d \in Items[c][k].devices /\ action \in Items[c][k].actions}

\* The rules give device d to guest c alone, and what an item of c adds each of its
\* items for the removal takes back.
ForGuest(c, d) ==
  /\ \A o \in Container \ {c} : \A k \in DOMAIN Items[o] : d \notin Items[o][k].devices
  /\ ItemsFor(c, d, "add") # {} => ItemsFor(c, d, "remove") # {}
  /\ \A j \in ItemsFor(c, d, "add"), k \in ItemsFor(c, d, "remove") :
       /\ Items[c][j].devnode => Items[c][k].devnode
       /\ Items[c][j].allow => Items[c][k].allow

\* When the removal of a device has been handled the guest it was for has lost its
\* node, and the permission: the number may come back as another device of another
\* guest.  No removal is lost because the device can no longer be read or because the
\* guest was restarted.  Exempt are the permission of a block device, which stays by
\* intent, what could not be taken back (no child was forked, the write to the cgroup
\* failed), and a removal that the kernel dropped, which nobody asks for later.  It
\* concerns devices that the rules give to one guest: a removal of a shared device goes
\* to the first guest that is started, and the one that has the device keeps its access.
AccessRevoked ==
  \A c \in running : \A d \in Device \ (present \cup missed) :
    /\ ForGuest(c, d) /\ status[c] = "STARTED" /\ "fork" \notin Faults
    /\ \A k \in DOMAIN uevents : uevents[k].device # d
    => /\ d \notin node[c]
       /\ Kind[d] # "blk" => d \notin allowed[c] \/ d \in unwritten[c]
=============================================================================
