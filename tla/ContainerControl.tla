-------------------------- MODULE ContainerControl --------------------------
(***************************************************************************)
(* The guest life cycle of the container manager: the internal event loop  *)
(* of container-control.c, the status handlers and the cyclic event of     *)
(* container-control-exec.c, the pidfd monitor of                          *)
(* container-control-monitor.c and the commands of                         *)
(* container-external-interface.c that act on guests.                      *)
(*                                                                         *)
(* The manager is one thread: an sd-event loop whose handlers run to       *)
(* completion.  The module makes a handler one step, except that           *)
(* container_exec_internal_event in the run state is one step per          *)
(* container ("sweep") and one for the rest ("timeouts"), so that guests,  *)
(* devices and worker threads may move between the calls it makes.         *)
(***************************************************************************)
EXTENDS Integers, Sequences, Workqueue

CONSTANTS
  NumContainers,   \* guests in the configuration, in order of boot priority
  NumRoles,        \* roles in the configuration
  RoleOf,          \* role of each container
  FirstActive,     \* head of the container list of each role, 0: the dummy
  Redundancy,      \* extra disk of each container, "none": it has no extra disk
  TestTargets,     \* containers the test command schedules a worker for
  Faults           \* calls to the outside world that may fail

Container == 1 .. NumContainers
Role == 1 .. NumRoles
RedundancyTypes == {"none", "ab", "failover", "fsck", "mkfs"}
FaultTypes == {"start", "shutdown", "monitor", "thread", "plugin", "repair", "manager"}

ASSUME ConfigAssumption ==
  /\ NumContainers \in Nat \ {0}
  /\ NumRoles \in Nat \ {0}
  /\ RoleOf \in [Container -> Role]
  /\ FirstActive \in [Role -> Container \cup {0}]
  /\ \A r \in Role : FirstActive[r] # 0 => RoleOf[FirstActive[r]] = r
  /\ Redundancy \in [Container -> RedundancyTypes]
  /\ TestTargets \subseteq Container
  /\ Faults \subseteq FaultTypes

VARIABLES
  sys_state,  \* cs->sys_state
  cc,         \* runtime part of each container_config_t
  active,     \* head of the container list of each role, 0: the dummy element
  queue,      \* messages in the internal socket pair
  mng,        \* worker of the manager operations (ManagerOperations)
  leaked,     \* an event source that no container refers to is in the loop
  pc,         \* what the main thread does
  idx,        \* loop variable of the main thread
  guest,      \* init process of each guest: outside the manager
  rootdev,    \* is the device of the rootfs there: outside the manager
  disk_ok     \* can the extra disk be mounted: outside the manager

vars == <<sys_state, cc, active, queue, mng, leaked, pc, idx, guest, rootdev, disk_ok>>

Status == {"DISABLE", "NOT_STARTED", "STARTED", "REBOOT", "SHUTDOWN", "DEAD", "EXIT", "RUN_WORKER"}

\* lxc # NULL; deadline passed; rootfs.is_mounted; extra disk is_mounted and
\* error_count > 0; the event source on the pidfd ("live": the guest it watches
\* runs, "dead": it has exited, so that the source is ready); the workqueue.
ContainerType ==
  [status : Status, lxc : BOOLEAN, expired : BOOLEAN, rootfs : BOOLEAN, disk : BOOLEAN,
   disk_err : BOOLEAN, source : {"none", "live", "dead"}, wq : WorkqueueType]

\* GUEST_EXIT names the container, the other messages have no payload.
Messages ==
  [command : {"GUEST_EXIT"}, container : Container]
  \cup [command : {"NETIFUPDATED", "SYSTEM_SHUTDOWN", "TIMER_TICK"}, container : {0}]

Message(command, c) == [command |-> command, container |-> c]

ProgramCounter == {"boot", "idle", "sweep", "timeouts", "shutdown", "exited"}

TypeOK ==
  /\ sys_state \in {"RUN", "SHUTDOWN"}
  /\ cc \in [Container -> ContainerType]
  /\ active \in [Role -> Container \cup {0}]
  /\ \A r \in Role : active[r] # 0 => RoleOf[active[r]] = r
  /\ queue \in Seq(Messages)
  /\ mng \in {"none", "running", "finished"}
  /\ leaked \in BOOLEAN
  /\ pc \in ProgramCounter
  /\ idx \in Nat
  /\ pc = "boot" => idx \in 1 .. NumRoles + 1
  /\ pc = "sweep" => idx \in 1 .. NumContainers
  /\ guest \in [Container -> {"none", "up", "killed"}]
  /\ rootdev \in [Container -> BOOLEAN]
  /\ disk_ok \in [Container -> BOOLEAN]

\* Every container is DISABLE after create_container_configs.  The devices may or may not
\* be there yet.
Init ==
  /\ sys_state = "RUN"
  /\ cc = [c \in Container |->
             [status |-> "DISABLE", lxc |-> FALSE, expired |-> TRUE, rootfs |-> FALSE,
              disk |-> FALSE, disk_err |-> FALSE, source |-> "none", wq |-> InitialWorkqueue]]
  /\ active = FirstActive
  /\ queue = <<>>
  /\ mng = "none"
  /\ leaked = FALSE
  /\ pc = "boot" /\ idx = 1
  /\ guest = [c \in Container |-> "none"]
  /\ rootdev \in [Container -> BOOLEAN]
  /\ disk_ok \in [Container -> BOOLEAN]
  /\ \A c \in Container : Redundancy[c] = "none" => disk_ok[c]

-----------------------------------------------------------------------------
(***************************************************************************)
(* Operations on one container_config_t.  k is the value before the call.  *)
(***************************************************************************)

\* Mutant of Terminate: the instance is not released.
TerminateKeepsInstance(k) == k

\* container_terminate: releases the liblxc instance, not the pidfd source.
Terminate(k) == [k EXCEPT !.lxc = FALSE]

\* Mutant of CleanupContainer: only the extra disk is unmounted.
CleanupKeepsRootfs(k) == [Terminate(k) EXCEPT !.disk = FALSE]

\* container_cleanup: container_terminate, and unmounts what is mounted.
CleanupContainer(k) ==
  [Terminate(k) EXCEPT !.rootfs = FALSE, !.disk = FALSE,
                       !.disk_err = IF k.disk THEN FALSE ELSE @]

\* container_timeout_set
TimeoutSet(k) == [k EXCEPT !.expired = FALSE]

\* Mutant of ForceKill: it comes after container_terminate, when the instance it
\* needs is gone.
ForceKillTooLate(k, g) == g

\* lxcutil_container_forcekill sends SIGKILL to the init of an existing
\* instance; the process goes away later.
ForceKill(k, g) == IF k.lxc /\ g = "up" THEN "killed" ELSE g

\* Mutant of Preprocess: every extra disk is optional, as a failover disk is.
PreprocessOptionalDisk(c, k) ==
  IF k.rootfs \/ rootdev[c]
  THEN [ok |-> TRUE, cc |-> [k EXCEPT !.rootfs = TRUE, !.disk = @ \/ (Redundancy[c] # "none" /\ disk_ok[c])]]
  ELSE [ok |-> FALSE, cc |-> k]

\* container_start_preprocess_base: the rootfs is mandatory; a failover disk is
\* optional; the error count of a disk says that its last mount has failed.
Preprocess(c, k) ==
  LET r == [k EXCEPT !.rootfs = TRUE] IN
  IF ~ (k.rootfs \/ rootdev[c]) THEN [ok |-> FALSE, cc |-> k]
  ELSE IF Redundancy[c] = "none" \/ k.disk THEN [ok |-> TRUE, cc |-> r]
  ELSE IF disk_ok[c] THEN [ok |-> TRUE, cc |-> [r EXCEPT !.disk = TRUE, !.disk_err = FALSE]]
  ELSE [ok |-> Redundancy[c] = "failover", cc |-> [r EXCEPT !.disk_err = TRUE]]

\* container_workqueue_schedule of a job, with the plugin that may not load.
ScheduleOutcomes(k, job) ==
  {[k EXCEPT !.wq = Schedule(@, job, TRUE)]} \cup (IF "plugin" \in Faults THEN {k} ELSE {})

\* container_start_preprocess_base_recovery: only for fsck and mkfs disks.
RecoveryOutcomes(c, k) ==
  IF ~ k.disk /\ k.disk_err /\ Redundancy[c] \in {"fsck", "mkfs"}
  THEN ScheduleOutcomes(k, "recovery")
  ELSE {k}

\* container_launch fails while the former guest of that name is alive.  A
\* container that cannot be launched is DEAD.
LaunchOutcomes(c, k) ==
  (IF guest[c] = "none" THEN {[k EXCEPT !.status = "STARTED", !.lxc = TRUE]} ELSE {})
  \cup
  (IF guest[c] # "none" \/ "start" \in Faults THEN {[k EXCEPT !.status = "DEAD", !.lxc = FALSE]} ELSE {})

\* container_start; when a mandatory mount fails the status stays as it is.
StartOutcomes(c, k) ==
  LET p == Preprocess(c, k) IN
  IF k.status = "DISABLE" THEN {k}
  ELSE IF p.ok THEN LaunchOutcomes(c, p.cc)
  ELSE RecoveryOutcomes(c, p.cc)

\* Mutants of MonitorOutcomes: a container that has a source keeps it; a started
\* guest is not monitored.
MonitorOnce(k) == {[k EXCEPT !.source = IF @ = "none" THEN "live" ELSE @]}
MonitorForgotten(k) == {k}

\* container_monitor_addguest replaces the source without releasing the old one.
MonitorOutcomes(k) ==
  {[k EXCEPT !.source = "live"]} \cup (IF "monitor" \in Faults THEN {k} ELSE {})

-----------------------------------------------------------------------------
(***************************************************************************)
(* Starting a guest.                                                       *)
(***************************************************************************)

\* container_start of c, and container_monitor_addguest when it succeeds; ccs is
\* cc with what the caller has changed before.  In the cyclic event a started
\* guest then gets its devices, through a message to the loop
\* (container_all_dynamic_device_update_notification).
StartGuest(c, ccs, notify) ==
  \E k \in StartOutcomes(c, ccs[c]) :
    IF k.status = "STARTED"
    THEN \E m \in MonitorOutcomes(k) :
           /\ cc' = [ccs EXCEPT ![c] = m]
           /\ guest' = [guest EXCEPT ![c] = "up"]
           /\ leaked' = (leaked \/ (m.source = "live" /\ k.source # "none"))
           /\ queue' = IF notify THEN Append(queue, Message("NETIFUPDATED", 0)) ELSE queue
    ELSE /\ cc' = [ccs EXCEPT ![c] = k]
         /\ UNCHANGED <<guest, leaked, queue>>

\* container_mngsm_start: container_start_by_role for each role.
Boot ==
  /\ pc = "boot" /\ idx <= NumRoles
  /\ LET c == active[idx] IN
     IF c = 0 THEN UNCHANGED <<cc, guest, leaked, queue>>
     ELSE StartGuest(c, [cc EXCEPT ![c].status = "NOT_STARTED"], FALSE)
  /\ idx' = idx + 1
  /\ UNCHANGED <<sys_state, active, mng, pc, rootdev, disk_ok>>

\* container_mngsm_exit, and container_mngsm_terminate after the loop.
ExitManager(ccs) ==
  /\ pc' = "exited"
  /\ cc' = [c \in Container |-> CleanupContainer(ccs[c])]

\* The end of container_mngsm_start and the start of the delayed mounts of the
\* manager: nothing to mount, a worker, or a failure that ends the program.
BootDone ==
  /\ pc = "boot" /\ idx = NumRoles + 1
  /\ queue' = Append(queue, Message("NETIFUPDATED", 0))
  /\ \/ /\ mng' \in {"none", "running"}
        /\ pc' = "idle" /\ UNCHANGED cc
     \/ /\ "manager" \in Faults
        /\ mng' = "none" /\ ExitManager(cc)
  /\ UNCHANGED <<sys_state, active, leaked, idx, guest, rootdev, disk_ok>>

-----------------------------------------------------------------------------
(***************************************************************************)
(* The event sources.  The internal socket pair has the highest priority,  *)
(* so the handlers of the other sources run while the queue is empty, and  *)
(* their writes find room in it.                                           *)
(***************************************************************************)

Idle == pc = "idle" /\ queue = <<>>

\* container_mngsm_timer_handler: the time has come, which the tick itself sets again.
\* The source stays enabled, so that it fires anew whatever becomes of a tick.
TimerFires ==
  /\ Idle
  /\ queue' = <<Message("TIMER_TICK", 0)>>
  /\ UNCHANGED <<sys_state, cc, active, mng, leaked, pc, idx, guest, rootdev, disk_ok>>

\* container_monitor_pidfd_handler for the source that c refers to.  A leaked
\* source matches no container: its handler changes nothing.
PidfdReady(c) ==
  /\ Idle /\ cc[c].source = "dead"
  /\ queue' = <<Message("GUEST_EXIT", c)>>
  /\ cc' = [cc EXCEPT ![c].source = "none"]
  /\ UNCHANGED <<sys_state, active, mng, leaked, pc, idx, guest, rootdev, disk_ok>>

\* The SIGTERM handler of container-manager.c, any number of times.
Sigterm ==
  /\ Idle
  /\ queue' = <<Message("SYSTEM_SHUTDOWN", 0)>>
  /\ UNCHANGED <<sys_state, cc, active, mng, leaked, pc, idx, guest, rootdev, disk_ok>>

-----------------------------------------------------------------------------
(***************************************************************************)
(* container_mngsm_state_machine: one message, then the internal event.    *)
(***************************************************************************)

\* Takes the next message, of this command, sets the system state and goes to
\* the internal event of that state.
Receive(command, state) ==
  /\ pc = "idle" /\ queue # <<>>
  /\ Head(queue).command = command
  /\ queue' = Tail(queue)
  /\ idx' = 1
  /\ sys_state' = state
  /\ pc' = IF state = "RUN" THEN "sweep" ELSE "shutdown"

\* container_netif_updated: only the network interfaces of the guests.
NetifUpdated ==
  /\ Receive("NETIFUPDATED", sys_state)
  /\ UNCHANGED <<cc, active, mng, leaked, guest, rootdev, disk_ok>>

\* The tick is handled by setting the time of the next one.
TimerTick ==
  /\ Receive("TIMER_TICK", sys_state)
  /\ UNCHANGED <<cc, active, mng, leaked, guest, rootdev, disk_ok>>

\* Mutant of ExitedStatus: the same in every system state.
ExitedStatusInRun(status) ==
  CASE status \in {"STARTED", "REBOOT"} -> "DEAD"
    [] status = "SHUTDOWN" -> "NOT_STARTED"
    [] OTHER -> status

\* The status after the exit of the guest, in each system state.
ExitedStatus(status) ==
  IF status = "DISABLE" THEN status
  ELSE IF sys_state = "SHUTDOWN" THEN "EXIT"
  ELSE CASE status \in {"STARTED", "REBOOT"} -> "DEAD"
         [] status = "SHUTDOWN" -> "NOT_STARTED"
         [] OTHER -> status

\* container_exited
GuestExited ==
  LET c == Head(queue).container IN
  /\ Receive("GUEST_EXIT", sys_state)
  /\ cc' = [cc EXCEPT ![c] = [Terminate(cc[c]) EXCEPT !.status = ExitedStatus(@)]]
  /\ UNCHANGED <<active, mng, leaked, guest, rootdev, disk_ok>>

\* A request to stop the guest of k in a state where it runs: ok says that
\* liblxc took the shutdown request, otherwise the guest is killed.
StopGuest(k, ok, waiting, stopped) ==
  IF ok THEN [TimeoutSet(k) EXCEPT !.status = waiting]
  ELSE [Terminate(k) EXCEPT !.status = stopped]

\* container_request_shutdown.  Cancelling a worker only asks its plugin to
\* return early, which it may do at any time anyway.
RequestShutdown(k, state, ok) ==
  IF state = "RUN"
  THEN CASE k.status = "STARTED" -> StopGuest(k, ok, "SHUTDOWN", "NOT_STARTED")
         [] k.status = "DEAD" -> [k EXCEPT !.status = "NOT_STARTED"]
         [] OTHER -> k
  ELSE CASE k.status = "STARTED" -> StopGuest(k, ok, "SHUTDOWN", "EXIT")
         [] k.status = "REBOOT" -> [k EXCEPT !.status = "SHUTDOWN"]
         [] k.status \in {"NOT_STARTED", "DEAD"} -> [k EXCEPT !.status = "EXIT"]
         [] k.status = "RUN_WORKER" -> TimeoutSet(k)
         [] OTHER -> k

\* container_request_reboot
RequestReboot(k, state, ok) ==
  IF state = "RUN"
  THEN IF k.status = "STARTED" THEN StopGuest(k, ok, "REBOOT", "DEAD") ELSE k
  ELSE IF k.status = "REBOOT" THEN k ELSE RequestShutdown(k, state, ok)

\* Does a request on k kill the guest?
Kills(k, ok) == k.status = "STARTED" /\ ~ ok

\* The answers liblxc may give to a shutdown request.
ShutdownAnswers == IF "shutdown" \in Faults THEN BOOLEAN ELSE {TRUE}

\* container_manager_shutdown, for every container.
SystemShutdown ==
  /\ Receive("SYSTEM_SHUTDOWN", "SHUTDOWN")
  /\ \E ok \in [Container -> ShutdownAnswers] :
       /\ cc' = [c \in Container |-> RequestShutdown(cc[c], "SHUTDOWN", ok[c])]
       /\ guest' = [c \in Container |->
                      IF Kills(cc[c], ok[c]) THEN ForceKill(cc[c], guest[c]) ELSE guest[c]]
  /\ UNCHANGED <<active, mng, leaked, rootdev, disk_ok>>

-----------------------------------------------------------------------------
(***************************************************************************)
(* container_exec_internal_event in the run state.  The first loop: one    *)
(* step per container.                                                     *)
(***************************************************************************)

\* Mutants of NextInSweep: the loop runs once too often, or once too few.
NextInSweepOneMore ==
  /\ idx' = IF idx <= NumContainers THEN idx + 1 ELSE 1
  /\ pc' = IF idx <= NumContainers THEN "sweep" ELSE "timeouts"
NextInSweepOneLess ==
  /\ idx' = IF idx + 1 < NumContainers THEN idx + 1 ELSE 1
  /\ pc' = IF idx + 1 < NumContainers THEN "sweep" ELSE "timeouts"

\* The loop goes on to the next container, or to the rest of the event.
NextInSweep ==
  /\ idx' = IF idx < NumContainers THEN idx + 1 ELSE 1
  /\ pc' = IF idx < NumContainers THEN "sweep" ELSE "timeouts"

SweepUnchanged == UNCHANGED <<sys_state, active, mng, rootdev, disk_ok>>

\* Dead state -> relaunch.
Relaunch(c) ==
  /\ cc[c].status = "DEAD"
  /\ StartGuest(c, cc, TRUE)

\* The active guest of the role of c, 0 when the head of the list is the dummy.
ActiveOf(c) == active[RoleOf[c]]

\* Mutant of Exchange: the guest that gives its place is not disabled.
ExchangeKeepsOld(c) ==
  LET a == ActiveOf(c) IN
  /\ cc[c].status = "NOT_STARTED" /\ a \notin {0, c}
  /\ StartGuest(a, [cc EXCEPT ![c] = CleanupContainer(@), ![a].status = "NOT_STARTED"], TRUE)

\* Mutant of Exchange: it does not wait for the end of the guest that is asked to
\* stop.
ExchangeEarly(c) ==
  LET a == ActiveOf(c) IN
  /\ cc[c].status \in {"NOT_STARTED", "SHUTDOWN"} /\ a \notin {0, c}
  /\ StartGuest(a, [cc EXCEPT ![c] = [CleanupContainer(@) EXCEPT !.status = "DISABLE"],
                             ![a].status = "NOT_STARTED"], TRUE)

\* Another guest of the role became active: c gives its place to that guest.
Exchange(c) ==
  LET a == ActiveOf(c) IN
  /\ cc[c].status = "NOT_STARTED" /\ a \notin {0, c}
  /\ StartGuest(a, [cc EXCEPT ![c] = [CleanupContainer(@) EXCEPT !.status = "DISABLE"],
                             ![a].status = "NOT_STARTED"], TRUE)

\* The guest of c is stopped: unmount its disks, and run a scheduled worker.  The
\* branch for a worker that cannot run at all (-2, -3) is left out: the workqueue is
\* not NULL and the errors of pthread_create are positive.
RunWorker(c) ==
  LET k == CleanupContainer(cc[c]) IN
  /\ cc[c].status = "NOT_STARTED" /\ ActiveOf(c) = c
  /\ IF k.wq.status = "SCHEDULED"
     THEN \E created \in IF "thread" \in Faults THEN BOOLEAN ELSE {TRUE} :
            cc' = [cc EXCEPT ![c] = [k EXCEPT !.wq = Run(@, created), !.status = "RUN_WORKER"]]
     ELSE cc' = [cc EXCEPT ![c] = k]
  /\ UNCHANGED <<guest, leaked, queue>>

\* Mutant of FinishWorker: the result of container_workqueue_get_status is not
\* looked at.
FinishWorkerEarly(c) ==
  LET k == cc[c] IN
  /\ k.status = "RUN_WORKER"
  /\ cc' = [cc EXCEPT ![c].wq = Cleanup(@),
                      ![c].status = IF k.wq.after THEN "DEAD" ELSE "NOT_STARTED"]
  /\ UNCHANGED <<guest, leaked, queue>>

\* The worker of c is completed: DEAD makes the next event launch the guest.
FinishWorker(c) ==
  LET k == cc[c] IN
  /\ k.status = "RUN_WORKER" /\ CanCleanup(k.wq)
  /\ cc' = [cc EXCEPT ![c].wq = Cleanup(@),
                      ![c].status = IF k.wq.after THEN "DEAD" ELSE "NOT_STARTED"]
  /\ UNCHANGED <<guest, leaked, queue>>

\* Nothing to do for c in this state.
SkipContainer(c) ==
  LET k == cc[c] IN
  /\ k.status # "DEAD"
  /\ k.status = "NOT_STARTED" => ActiveOf(c) = 0
  /\ k.status = "RUN_WORKER" => ~ CanCleanup(k.wq)
  /\ UNCHANGED <<cc, guest, leaked, queue>>

Sweep ==
  /\ pc = "sweep"
  /\ \/ Relaunch(idx)
     \/ Exchange(idx)
     \/ RunWorker(idx)
     \/ FinishWorker(idx)
     \/ SkipContainer(idx)
  /\ NextInSweep
  /\ SweepUnchanged

\* Mutant of TimedOut: a reboot has no deadline.
TimedOutShutdownOnly(k) == k.status = "SHUTDOWN" /\ k.expired

\* A shutdown or reboot of the guest of k has reached its deadline.
TimedOut(k) == k.status \in {"SHUTDOWN", "REBOOT"} /\ k.expired

\* The second loop kills the guests that did not stop in time; then the event
\* polls the worker of the manager (container_mngsm_do_cyclic_operation).
Timeouts ==
  /\ pc = "timeouts"
  /\ cc' = [c \in Container |->
              IF TimedOut(cc[c])
              THEN [Terminate(cc[c]) EXCEPT !.status = IF @ = "REBOOT" THEN "DEAD" ELSE "NOT_STARTED"]
              ELSE cc[c]]
  /\ guest' = [c \in Container |-> IF TimedOut(cc[c]) THEN ForceKill(cc[c], guest[c]) ELSE guest[c]]
  /\ mng' = IF mng = "finished" THEN "none" ELSE mng
  /\ pc' = "idle"
  /\ UNCHANGED <<sys_state, active, queue, leaked, idx, rootdev, disk_ok>>

-----------------------------------------------------------------------------
(***************************************************************************)
(* container_exec_internal_event in the shutdown state.                    *)
(***************************************************************************)

\* Mutants of AllExited: the guests that are asked to stop count as exited; the
\* disabled guests do not.
AllExitedOrStopping == \A c \in Container : cc[c].status \in {"EXIT", "DISABLE", "SHUTDOWN"}
AllExitedButDisabled == \A c \in Container : cc[c].status = "EXIT"

AllExited == \A c \in Container : cc[c].status \in {"EXIT", "DISABLE"}

\* All guests exited: unmount with the worker of the manager, then exit.  The
\* worker is not needed (1), fails to start (-3), starts (0) or runs (-1).
ManagerTerminate ==
  /\ pc = "shutdown" /\ AllExited
  /\ \/ /\ mng = "none"
        /\ ExitManager(cc) /\ UNCHANGED mng
     \/ /\ mng = "none"
        /\ mng' = "running" /\ pc' = "idle" /\ UNCHANGED cc
     \/ /\ mng = "running"
        /\ pc' = "idle" /\ UNCHANGED <<cc, mng>>
     \/ /\ mng = "finished"
        /\ mng' = "none" /\ ExitManager(cc)
  /\ UNCHANGED <<sys_state, active, queue, leaked, idx, guest, rootdev, disk_ok>>

\* Some guest has not exited: clean up completed workers, kill the guests that
\* did not stop in time and give up the workers that did not.
AfterShutdownEvent(k) ==
  CASE k.status = "RUN_WORKER" /\ CanCleanup(k.wq) -> [k EXCEPT !.wq = Cleanup(@), !.status = "EXIT"]
    [] k.status = "RUN_WORKER" /\ ~ CanCleanup(k.wq) /\ k.expired -> [k EXCEPT !.status = "EXIT"]
    [] TimedOut(k) -> [Terminate(k) EXCEPT !.status = "EXIT"]
    [] OTHER -> k

WaitForExit ==
  /\ pc = "shutdown" /\ ~ AllExited
  /\ cc' = [c \in Container |-> AfterShutdownEvent(cc[c])]
  /\ guest' = [c \in Container |-> IF TimedOut(cc[c]) THEN ForceKill(cc[c], guest[c]) ELSE guest[c]]
  /\ pc' = "idle"
  /\ UNCHANGED <<sys_state, active, queue, mng, leaked, idx, rootdev, disk_ok>>

-----------------------------------------------------------------------------
(***************************************************************************)
(* Commands of the external interface: handlers of the same loop that act  *)
(* on the containers directly, without an internal event after them.       *)
(***************************************************************************)

CommandUnchanged == UNCHANGED <<sys_state, queue, mng, leaked, pc, idx, rootdev, disk_ok>>

\* container_external_interface_shutdown_guest, reboot_guest and
\* force_reboot_guest, for the guest they find; the forms that name a role
\* act on its guests in state STARTED in the same way.
CommandShutdown(c) ==
  /\ Idle
  /\ \E ok \in ShutdownAnswers :
       /\ cc' = [cc EXCEPT ![c] = RequestShutdown(@, sys_state, ok)]
       /\ guest' = [guest EXCEPT ![c] = IF Kills(cc[c], ok) THEN ForceKill(cc[c], @) ELSE @]
  /\ CommandUnchanged /\ UNCHANGED active

CommandReboot(c) ==
  /\ Idle
  /\ \E ok \in ShutdownAnswers :
       /\ cc' = [cc EXCEPT ![c] = RequestReboot(@, sys_state, ok)]
       /\ guest' = [guest EXCEPT ![c] = IF Kills(cc[c], ok) THEN ForceKill(cc[c], @) ELSE @]
  /\ CommandUnchanged /\ UNCHANGED active

CommandForceReboot(c) ==
  /\ Idle
  /\ guest' = [guest EXCEPT ![c] = ForceKill(cc[c], @)]
  /\ CommandUnchanged /\ UNCHANGED <<active, cc>>

\* container_external_interface_command_change: c becomes the head of the list
\* of its role, unless that head is the dummy.
CommandChange(c) ==
  /\ Idle /\ ActiveOf(c) # 0
  /\ active' = [active EXCEPT ![RoleOf[c]] = c]
  /\ CommandUnchanged /\ UNCHANGED <<cc, guest>>

\* container_external_interface_command_test schedules in any state.
CommandTest(c) ==
  /\ Idle
  /\ \E k \in ScheduleOutcomes(cc[c], "test") : cc' = [cc EXCEPT ![c] = k]
  /\ CommandUnchanged /\ UNCHANGED <<active, guest>>

-----------------------------------------------------------------------------
(***************************************************************************)
(* The world outside the main thread.                                      *)
(***************************************************************************)

ManagerUnchanged == UNCHANGED <<sys_state, active, queue, leaked, pc, idx>>

\* The init process of a guest ends: by itself, on the shutdown request, or
\* killed.  The pidfd of the source that watches it becomes readable.
GuestExits(c) ==
  /\ guest[c] # "none"
  /\ guest' = [guest EXCEPT ![c] = "none"]
  /\ cc' = [cc EXCEPT ![c].source = IF @ = "live" THEN "dead" ELSE @]
  /\ ManagerUnchanged /\ UNCHANGED <<mng, rootdev, disk_ok>>

\* A process that got SIGKILL ends.
KilledGuestExits(c) == guest[c] = "killed" /\ GuestExits(c)

\* The clock passes the deadline of a stopping guest or a cancelled worker.  The
\* internal event reads the clock once, as it starts, so a deadline that passes
\* while it runs is one that passes after it.
DeadlinePasses(c) ==
  /\ pc = "idle"
  /\ cc[c].status \in {"SHUTDOWN", "REBOOT", "RUN_WORKER"} /\ ~ cc[c].expired
  /\ cc' = [cc EXCEPT ![c].expired = TRUE]
  /\ ManagerUnchanged /\ UNCHANGED <<mng, guest, rootdev, disk_ok>>

\* The worker thread of c ends: a recovery makes the disk usable, or fails to.
WorkerEnds(c) ==
  LET w == cc[c].wq IN
  /\ w.thread
  /\ cc' = [cc EXCEPT ![c].wq = Complete(@)]
  /\ \E repaired \in IF "repair" \in Faults THEN BOOLEAN ELSE {TRUE} :
       disk_ok' = [disk_ok EXCEPT ![c] = @ \/ (w.job = "recovery" /\ repaired)]
  /\ ManagerUnchanged /\ UNCHANGED <<mng, guest, rootdev>>

\* The worker of the manager ends and has reported all its mounts.
ManagerWorkerEnds ==
  /\ mng = "running" /\ pc # "exited"
  /\ mng' = "finished"
  /\ ManagerUnchanged /\ UNCHANGED <<cc, guest, rootdev, disk_ok>>

\* The device of a rootfs shows up after the start of the manager.
RootDeviceAppears(c) ==
  /\ ~ rootdev[c]
  /\ rootdev' = [rootdev EXCEPT ![c] = TRUE]
  /\ ManagerUnchanged /\ UNCHANGED <<cc, mng, guest, disk_ok>>

\* A running guest leaves its disk in need of a check.
DiskDamaged(c) ==
  /\ guest[c] = "up" /\ cc[c].disk /\ disk_ok[c]
  /\ disk_ok' = [disk_ok EXCEPT ![c] = FALSE]
  /\ ManagerUnchanged /\ UNCHANGED <<cc, mng, guest, rootdev>>

\* After the exit of the program.
Terminated == pc = "exited" /\ UNCHANGED vars

-----------------------------------------------------------------------------

\* The rest of a handler that has begun, and the messages of the state machine.
EventLoop ==
  \/ Boot \/ BootDone
  \/ NetifUpdated \/ TimerTick \/ GuestExited \/ SystemShutdown
  \/ Sweep \/ Timeouts
  \/ ManagerTerminate \/ WaitForExit

Command ==
  \/ \E c \in Container : CommandShutdown(c) \/ CommandReboot(c) \/ CommandForceReboot(c) \/ CommandChange(c)
  \/ \E c \in TestTargets : CommandTest(c)

Environment ==
  \/ \E c \in Container : GuestExits(c) \/ DeadlinePasses(c) \/ WorkerEnds(c)
                          \/ RootDeviceAppears(c) \/ DiskDamaged(c)
  \/ ManagerWorkerEnds

Next ==
  \/ EventLoop
  \/ TimerFires \/ Sigterm
  \/ \E c \in Container : PidfdReady(c)
  \/ Command
  \/ Environment
  \/ Terminated

Spec == Init /\ [][Next]_vars

\* The thread of the loop runs; sd-event dispatches pending sources of equal
\* priority in turn, so a ready source is not passed over for ever; the clock
\* advances, killed processes end and worker threads return.  Nothing is
\* assumed of SIGTERM, of commands, and of guests that are not killed.
Fairness ==
  /\ WF_vars(EventLoop)
  /\ SF_vars(TimerFires)
  /\ \A c \in Container :
       /\ SF_vars(PidfdReady(c))
       /\ SF_vars(DeadlinePasses(c))
       /\ WF_vars(KilledGuestExits(c))
       /\ WF_vars(WorkerEnds(c))
       /\ WF_vars(RootDeviceAppears(c))
  /\ WF_vars(ManagerWorkerEnds)

FairSpec == Spec /\ Fairness

\* Nobody gives a command and nobody sends SIGTERM.
Unattended == EventLoop \/ TimerFires \/ (\E c \in Container : PidfdReady(c)) \/ Environment

UnattendedSpec == Init /\ [][Unattended]_vars /\ Fairness

-----------------------------------------------------------------------------
(***************************************************************************)
(* Safety.                                                                 *)
(***************************************************************************)

\* A role is served by one guest: of the containers of a role at most one is
\* not DISABLE, also in the middle of an exchange of the active guest.
RoleExclusive ==
  \A c, d \in Container :
    c # d /\ RoleOf[c] = RoleOf[d] => cc[c].status = "DISABLE" \/ cc[d].status = "DISABLE"

\* The manager holds a liblxc instance exactly for the guests it runs or waits
\* for: container_launch never overwrites an instance that nobody released.
InstanceMatchesStatus ==
  pc # "exited" =>
    \A c \in Container : cc[c].lxc <=> cc[c].status \in {"STARTED", "SHUTDOWN", "REBOOT"}

\* While a worker (fsck, mkfs, erase) may run, the disks of its guest are not
\* mounted, and its guest has not been left running.
WorkerOwnsDisk ==
  \A c \in Container :
    cc[c].wq.status = "STARTED" => ~ cc[c].rootfs /\ ~ cc[c].disk /\ guest[c] # "up"

\* After the SYSTEM_SHUTDOWN message no container is left in a state from which
\* it is launched again, whatever was in progress when the message came.
NoLaunchInShutdown ==
  sys_state = "SHUTDOWN" =>
    \A c \in Container : cc[c].status \in {"SHUTDOWN", "EXIT", "DISABLE", "RUN_WORKER"}

\* A guest that runs and was not killed is watched: the manager holds its
\* instance and the source on its pidfd, so it will learn of its exit.
RunningGuestWatched ==
  \A c \in Container :
    guest[c] = "up" /\ pc # "exited" => cc[c].lxc /\ cc[c].source = "live"

\* A GUEST_EXIT message is about the guest that ended: it is never handled
\* after that container was launched again.
NoStaleExit ==
  \A i \in 1 .. Len(queue) :
    queue[i].command = "GUEST_EXIT" => guest[queue[i].container] # "up"

\* The program leaves no guest running behind it.
ExitLeavesNoGuest == pc = "exited" => \A c \in Container : guest[c] # "up"

\* A guest is launched only when it is due: by the start of the manager or the first
\* loop of the cyclic event, in the run state; as the active guest of its role, which was
\* disabled before, or as a dead one that comes back; in a role whose other guests are
\* disabled; and with its mandatory mounts in place.
LaunchIsDue ==
  [][\A c \in Container :
       guest[c] # "up" /\ guest'[c] = "up" =>
         /\ sys_state = "RUN" /\ pc \in {"boot", "sweep"}
         /\ cc[c].status = "DEAD" \/ (cc[c].status = "DISABLE" /\ ActiveOf(c) = c)
         /\ \A d \in Container \ {c} : RoleOf[d] = RoleOf[c] => cc'[d].status = "DISABLE"
         /\ cc'[c].rootfs
         /\ Redundancy[c] \in {"ab", "fsck", "mkfs"} => cc'[c].disk]_vars

-----------------------------------------------------------------------------
(***************************************************************************)
(* The abstract specifications: the service of each role, and the use of   *)
(* the workqueue of each container.                                        *)
(***************************************************************************)

GuestsOf(r) == {c \in Container : RoleOf[c] = r}

Service(r) == INSTANCE RoleService WITH
  Members <- GuestsOf(r),
  service <- {[container |-> c, status |-> cc[c].status] :
                c \in {d \in GuestsOf(r) : cc[d].status # "DISABLE"}},
  running <- {c \in GuestsOf(r) : guest[c] = "up"},
  chosen <- active[r],
  state <- sys_state

\* Each role is served as RoleService promises, also by the handlers that change
\* several roles in one step.
RoleServices ==
  /\ \A r \in Role : Service(r)!Init
  /\ [][\A r \in Role : [Service(r)!Next]_(Service(r)!vars)]_vars

Queue(c) == INSTANCE WorkqueueService WITH w <- cc[c].wq

\* The handlers keep to the protocol of container-workqueue.c: a job is run once
\* after it was scheduled and cleaned up once after its thread has ended.
WorkqueueUse ==
  /\ \A c \in Container : Queue(c)!Init
  /\ [][\A c \in Container : [Queue(c)!Next]_(cc[c].wq)]_vars

-----------------------------------------------------------------------------
(***************************************************************************)
(* Liveness.                                                               *)
(***************************************************************************)

\* The manager ends after a SYSTEM_SHUTDOWN, whatever its guests and workers do,
\* if the commands and signals that set new deadlines come to an end.
ShutdownCompletes ==
  (<>[][~ (Command \/ Sigterm)]_vars) => (sys_state = "SHUTDOWN" ~> pc = "exited")

\* A dead guest does not stay dead: it is launched again, or somebody asks for
\* it to be stopped.
DeadIsRelaunched == \A c \in Container : cc[c].status = "DEAD" ~> cc[c].status # "DEAD"

\* A guest that is asked to stop or to reboot leaves that state, by itself or by
\* the deadline.
StopIsBounded ==
  \A c \in Container : cc[c].status \in {"SHUTDOWN", "REBOOT"} ~> cc[c].status \notin {"SHUTDOWN", "REBOOT"}

\* A stopped guest gives its role to the guest that has become active.
ExchangeHappens ==
  \A c \in Container :
    (cc[c].status = "NOT_STARTED" /\ ActiveOf(c) \notin {0, c})
      ~> (cc[c].status # "NOT_STARTED" \/ ActiveOf(c) = c)

\* The manager notices the end of a guest it has launched.
CrashIsNoticed ==
  \A c \in Container : (cc[c].status = "STARTED" /\ guest[c] = "none") ~> cc[c].status # "STARTED"

\* A container does not stay in the state RUN_WORKER: its worker ends and is
\* cleaned up, or is given up in a system shutdown.
WorkerIsReaped == \A c \in Container : cc[c].status = "RUN_WORKER" ~> cc[c].status # "RUN_WORKER"

\* container_mngsm_start: a guest that could not be started is recovered by the
\* cyclic event; nobody stops it.
StartIsRetried ==
  \A r \in Role : FirstActive[r] # 0 => <>(cc[FirstActive[r]].status = "STARTED")

\* If the mount of a disk fails then its check is executed: a scheduled worker
\* does not wait for ever.
ScheduledWorkerRuns ==
  \A c \in Container : cc[c].wq.status = "SCHEDULED" ~> cc[c].wq.status # "SCHEDULED"
=============================================================================
