# Verification of the container manager

TLA+ specifications, TLC runs and machine-checked proofs for the container
manager of AGL: the daemon that starts one guest container per role, watches
them, exchanges, stops and restarts them on request, gives them network
interfaces and devices as these come and go, repairs their disks and shuts
everything down with the system.

Contents

1. Inventory of the system
2. The modules and how they correspond to the code
3. Runs: what is checked, on which instances, and what it shows
4. Fairness
5. Proofs
6. Divergences found
7. What is not modelled
8. Plan

## 1. Inventory of the system

The daemon is one thread that runs an sd-event loop (`container-manager.c`).
Everything below happens in handlers of that loop, except the worker threads of
the two worker components. "Correct" is what the properties of the project say
of the component, or would say of one that is not modelled.

| Component | State | Operations | Correct when |
|---|---|---|---|
| Guest life cycle and event loop: `container-control.c`, `container-control-exec.c`, `container-control-monitor.c` | `containers_t.sys_state`; per guest `runtime_stat` (status, liblxc instance, deadline, pidfd source), `is_mounted` and `error_count` of its disks; the socket pair of internal messages; the tick timer; the active guest of each role | boot, state machine (GUEST_EXIT, SYSTEM_SHUTDOWN, NETIFUPDATED, TIMER_TICK), internal event of the run and of the shutdown state, exit | a role is served by one guest; no launch in a shutdown; exits and deadlines are never confused; dead guests come back; a shutdown ends and leaves nothing running |
| Per container workqueue: `container-workqueue.c` | status, plugin handle, result, `state_after_execute`, mutex, thread | schedule, run, poll, cancel, cleanup, deinitialize | no plugin is unloaded and no memory released under its thread; every job ends and is reaped |
| Disk plugins: `plugin/*.c` | device, cancel flag, child process | fsck, mkfs, erase with the wait for the unmount and cancel | nothing works on a mounted disk; no tool outlives its job; only an erased disk is formatted |
| Manager worker: `container-manager-operations.c` | per mount element `is_mounted`, `is_dispatched`, `error_count`; request and response sockets; private copy of the thread | launch, poll, terminate; mount, fsck and unmount in the thread | the thread's report and the manager's flags agree with the mount table; the work ends |
| External interface: `container-external-interface.c`, `command/cmcontrol.c` | the listening socket, one session | list, shutdown, reboot, force reboot, change of the active guest, test | a client is told what was done; nobody waits for another's session |
| Configuration: `container-config.c` | array of guests in boot order; container list of each role | sort by priority, bind to roles | a role list has each guest once and an active guest first where there is one |
| Network interfaces: `net-util.c`, `container-control-exec.c:81-218` | list of interfaces, netlink source, `ifindex` of each element of a guest | netlink add and remove, update of the guests | an interface is where the manager believes it is; none stays on the host while a guest wants it |
| Dynamic devices: `device-control-dynamic-udev.c`, `uevent_injection.c` | none: each event is judged anew | udev event, choice of the guest, node, permission, injection | a guest is told of devices it can use and loses its access when its device goes |
| Static devices: `device-control-static.c` | the numbers of the nodes that exist, exported gpio | one pass before the first start | what exists is known, and an error ends the program before a guest runs |
| Mounts: `cm-utils.c`, `block-util.c` | none (kernel mount table) | fail over, A/B, once, bind, unmount with retries | the right device is mounted, a busy one is detached in bounded time |
| liblxc adapter, parsers, cgroup, proc and CAN helpers | none of their own | | |

Interactions. Commands, SIGTERM, pidfd events, netlink and udev events and the
timer are handlers of the loop. Most of them write a message to the internal
socket pair, whose handler has the highest priority and runs the state machine:
it handles the message and then the *internal event*, a scan of all guests that
launches, exchanges, repairs and times out. Commands change the guests directly
and leave the rest to the next internal event. The workqueue of a guest runs a
plugin in a detached thread; the manager worker is a thread with a socket to
the loop. Guests are processes that end when they like, and with them their
namespaces, nodes and permissions.

What is hard to test here: the order of guest exits, deadlines, ticks, commands
and SIGTERM between two scans; the long distance between the decision to stop,
repair or exchange a guest and the scan that carries it out; failures in the
middle of a start; worker threads that outlive what they were started for;
reports of the kernel that are older than what they report on; clients that
give up while they are served. The `hazards` of `PROJECT.json` list each one
with its line.

## 2. The modules and how they correspond to the code

`ContainerControl` EXTENDS `Workqueue`, whose operators are the calls on the job
of a guest. `WorkqueueThread` EXTENDS it too, has the thread and the tool behind
those calls, and is shown to implement `WorkqueueService`; `ContainerControl` is
shown to use each of its queues as `WorkqueueService` specifies, so that the two
meet in it. What the life cycle promises of a role is `RoleService`, which
`ContainerControl` implements for each role. `NetworkInterfaces`, `DynamicDevices` and
`ExternalInterface` each have the life of the guests only as far as their
component reads it. `ManagerOperations` has the manager's worker, which
`ContainerControl` sees as one variable.

### ContainerControl

The guest life cycle and the loop. One container is a record `cc[c]` with the
fields of `runtime_stat` and of its disks that decide anything; `active[r]` is
the head of the container list of role `r`; `queue` holds the internal
messages; `pc` says where the main thread is: `boot` (in
`container_mngsm_start`, one step per role), `idle` (in the loop), `sweep` and
`timeouts` (in the internal event of the run state), `shutdown` (in that of the
shutdown state), `exited`.

A handler is one step, because nothing else of the manager runs beside it. The
internal event of the run state is the exception: its first loop is one step
per container and the rest one more, so that guests die, deadlines pass and
worker threads end between the calls it makes. `Relaunch`, `Exchange`,
`RunWorker`, `FinishWorker` and `SkipContainer` are the branches of that loop.

| Actions | Code |
|---|---|
| `Boot`, `BootDone` | `container_start_by_role` per role, end of `container_mngsm_start`, `container_mngsm_exec_delayed_operation` in `main` |
| `NetifUpdated`, `TimerTick`, `GuestExited`, `SystemShutdown` | the cases of `container_mngsm_state_machine`, with the guard `Receive` |
| `Sweep`, `Timeouts` | `container_exec_internal_event` in the run state |
| `ManagerTerminate`, `WaitForExit` | the same in the shutdown state |
| `TimerFires`, `PidfdReady`, `Sigterm` | the other sources of the loop; each needs an empty queue, for the socket has priority |
| `CommandShutdown`, `CommandReboot`, `CommandForceReboot`, `CommandChange`, `CommandTest` | the commands of the external interface |
| `GuestExits`, `DeadlinePasses`, `WorkerEnds`, `ManagerWorkerEnds`, `RootDeviceAppears`, `DiskDamaged` | the world outside the main thread |

Abstractions, each made so that no behaviour of the loop is lost:

* Time is a flag per guest, `expired`: the deadline has passed. The internal
  event reads the clock once, so a deadline passes only while the loop is idle.
* The tick timer has no state: its source stays enabled (`SD_EVENT_ON`) and only
  its time is set anew (`container_mngsm_update_timertick`), so that it fires again
  and again while the loop is idle.
* The pidfd source is `none`, `live` (its guest runs) or `dead` (its guest has
  ended, the source is ready). A source that is overwritten while it is in the
  loop sets `leaked`; its handler finds no container and does nothing.
* A guest outside is `none`, `up` or `killed`: SIGKILL was sent and the process
  has not ended yet. liblxc refuses to start a name whose former guest is
  alive, so a launch fails while the guest is not `none`.
* The disks of a guest are its rootfs and at most one extra disk, whose kind is
  the constant `Redundancy`. Unmounting always succeeds (`unmount_disk` falls
  back to a lazy unmount and the flags are cleared).
* `Faults` names the calls that may fail: start of a guest, the request to shut
  down, its monitor, creation of a worker thread, load of a plugin, the repair
  itself, start of the manager worker.
* The manager worker is one of `none`, `running`, `finished`.
* Of a role list only the head is kept, which is what relaunch and exchange
  read; `ExternalInterface` has the whole lists.

Commands that name a role act as the same command on each started guest of the
role: roles have one enabled guest (`RoleExclusive`), so this is the command on
that guest.

### RoleService

The promise of the manager for one role, without boot, scan, messages, deadlines,
monitors and disks. `service` is the container that serves the role with its
status (a set of at most one record; empty before the start of the manager and
for a role whose containers are all disabled), `running` the containers whose
guest runs, `chosen` the head of the container list, `state` the system state.

| Actions | Implemented by |
|---|---|
| `Take`, `Relaunch`, `HandOver` | `Boot`; `Relaunch` of a dead guest; `Exchange` in the scan. Each launches only while no guest of the role runs, and leaves the container DEAD when it cannot be launched |
| `LifeCycle`, `StartWorker` | requests and forced kills, deadlines, GUEST_EXIT; `RunWorker` and `FinishWorker` |
| `SystemShutdown`, `ShutdownGoesOn` | the SYSTEM_SHUTDOWN message, which reaches all roles in one step; exits and deadlines after it |
| `GuestEnds`, `Choose` | a guest ends or is killed before the manager learns of it; the change command |

The refinement mapping (`Service(r)` in `ContainerControl`) reads the containers of
role `r`: `service` is the set of those that are not DISABLE, so that two enabled
containers of a role would be two records, which no action of `RoleService`
permits. One step of the code may be a step of several roles (`Timeouts`,
`SystemShutdown`), hence the form of the property `RoleServices`: the initial
condition of every role, and of every step that it is for each role a step of
`RoleService` or none. `WorkqueueUse` has the same form for the queues.

### Workqueue, WorkqueueService, WorkqueueThread

`Workqueue` has the operations of `container-workqueue.c` as operators on a
record. The main thread reads the status once per call and the only write of
the thread is STARTED to COMPLETED, so that a call is one step.
`WorkqueueService` is that record with these steps as a specification.

`WorkqueueThread` is one workqueue in full.

| Actions | Code |
|---|---|
| `ScheduleWork`, `RunWork`, `CancelWork`, `CleanupWork`, `GiveUpWork`, `DeinitializeWork` | the calls of the main thread, each from the states of the guest in which its callers make it |
| `CheckUnmounted`, `SleepUnmount` | `cm_worker_wait_unmount`, with its `retry_count` |
| `EraseBlock` | the loop of `cm_worker_exec_erase` |
| `StartTool`, `PollTool`, `WaitTool`, `ReapTool` | fork, poll and reap in `cm_worker_exec` of fsck and mkfs and `cm_worker_exec_mkfs` of erase |
| `PublishResult`, `UnlockResult` | the end of `container_workqueue_thread`, under and after the mutex |
| `GuestMounts`, `DiskUnmounted`, `GuestEnds` | what the rest of the manager does with the disk and the guest; an unmount may be lazy, so that it ends later |
| `ToolExits`, `StrayExits` | fsck.ext4 and mkfs.ext4 |

`object` is the plugin with the job it was given, `lost` counts plugins no
pointer leads to any more, `stray` is a tool no thread waits for. Left out: the
path of the device, the exit code of the tool, which no caller uses, and
`container_workqueue_remove`: its one caller (`container-control-exec.c:679`) is on
the path of a `container_workqueue_run` that returned -2 or -3, which it does not,
because the queue is not NULL and the errors of `pthread_create` are positive.
`RunWorker` of `ContainerControl` leaves this branch out for the same reason.
`container_workqueue_initialize` returns -1 also when it succeeds; no caller
reads it. `Faults` names refused arguments, `pthread_create`, a missing device,
`open`, `write`, `fork`, `pidfd_open` and `poll`.

### ManagerOperations

The delayed mounts of the manager: the main thread with its list (`elem`) and
its `storage`, the two threads that it may start (`worker["launch"]`,
`worker["terminate"]`), the responses on their way (`chan`), the repair process
(`child`) and the mount table (`mounted`). A thread walks its list by index, one
element per step, as `dl_list_for_each_safe` does; `list[i]` is the state of the
element or `absent`.

| Actions | Code |
|---|---|
| `DelayedLaunch`, `DelayedTerminate` with `Dispatch` | `manager_operation_delayed_launch` as `main` calls it and `manager_operation_delayed_terminate` as the shutdown state does, with their early returns |
| `DelayedPoll` in `CyclicOperation`, `PollAtShutdown` | `manager_operation_delayed_poll` at the end of the internal event and in the shutdown state |
| `MountElement`, `UnmountElement`, `MountPassEnds` | first call of `manager_mount_operation` |
| `ForkChild`, `PollChild`, `ReapChild`, `ExecPassEnds` | `manager_worker_exec` |
| `RetakeElement`, `RetakePassEnds`, `CloseWorker` | second call of `manager_mount_operation` and end of the thread |
| `ChildExits`, `GuestsExited` | fsck or mkfs ends; the guests have ended in a shutdown |

`mount` succeeds or fails by chance, `unmount_disk` always succeeds. Left out:
requests to the thread, because the manager never writes one, with the
cancellation they would cause; `error_count`, which is written and never read.
`Faults` names memory and `socketpair` (`setup`), `pthread_create` (`thread`),
`fork`, `pidfd_open` (`pidfd`) and `poll`.

`ContainerControl` sees this component as `mng`: `none` while `storage` is NULL,
`running` and `finished` while it is not. It assumes that a running worker
finishes, which the finding ManagerRetake below shows to be false for a disk
that was repaired.

### NetworkInterfaces

The interfaces that guests name in `dynamic_netiflist`. `where` and `owner` are
what the kernel knows of an interface, `socket` the netlink messages on their
way, `nllist` the list of the monitor with the name under which it has each
ifindex, `element[c][n]` the `ifindex` of the element of name `n` in guest `c`.
`pos` is the position of the loop in `container_netif_updated`: each guest is one
step, so that the kernel and the guests go on between them.

| Actions | Code |
|---|---|
| `NetlinkEvent`, `NetlinkError` | `nml_event_handler` with `data_cb`: called for input, or for EPOLLERR, after which it is not called again |
| `BeginUpdate`, `UpdateGuest` | `container_netif_updated` and `container_netif_update_guest`, with `lxcutil_dynamic_networkif_add_to_guest` |
| `StartGuest`, `StopGuest`, `GuestExited`, `GuestKilled` | the steps of the life cycle that read or write elements or notify an update |
| `Plug`, `Unplug`, `GuestDies`, `Return` | the kernel: a name is used once in a namespace, the interfaces of a namespace that is gone come back to the host, or are renamed when their name is taken |

An update finds interfaces by the list and attaches them by name, as
`lxc-util.c:417` does: `Listing(n)` are the ifindexes that the list has under the
name, `CanAttach(c, n)` says that the host has an interface of the name, whichever
it is, and that one is moved. The element gets one of the listed ifindexes
(`UpdatedElement`); when the list is old this may be another than that of the
interface in the guest.

The socket holds a bounded number of messages. When it is full, which messages
about other interfaces may bring about at any time, a message is dropped and the
error of the socket set (`Report`, `Detach`); `missed` is the set of interfaces
whose last message was dropped. With the error the handler either receives
nothing once, and reads on, or is told of EPOLLERR and disables its source.
Nothing lists the interfaces again after that.

An interface that is unplugged inside a guest is not reported to the host, and
one that is moved to a guest is reported as deleted, which clears its element at
the next update; both are as rtnetlink does. The names that the monitor never
lists (`veth`, `lxcbr`) are left out. Messages that wait in the internal socket
for the same update are one flag, because the update is idempotent. `Faults`
names the attachment and the overrun of the netlink socket.

### DynamicDevices

The udev events (`uevents`), the devices that are plugged (`present`), and of
each guest the nodes in its `/dev` (`node`), the permissions of its cgroup
(`allowed`), the permissions whose last write has failed (`unwritten`) and the
devices it has been told of (`known`). `Items` are the rules of the guests, each
with the devices it names, its actions, its extra rule and its behavior.

| Actions | Code |
|---|---|
| `UdevEvent` | `udev_event_handler`: `RuleJudgment` and `Target` choose the guest, `Assign` carries out `lxcutil_dynamic_device_operation` (`CgroupOperation`, `NodeOperation`) and `uevent_injection_to_pid` (`Inject`); or its receive fails |
| `UdevError` | the same handler called with EPOLLERR: the source is disabled for ever |
| `StartGuest`, `StopGuest`, `GuestDies`, `GuestExited`, `GuestKilled` | the life of the guests; a guest that ends loses its `/dev` and cgroup |
| `Plug`, `Change`, `Unplug` | the kernel, whose events are read later, or dropped when the monitor's socket is full (`Send`, `missed`) |

The file system of a block device is read only when it is added, and is not
found if the device is gone by then. A net device with a node or a permission is
refused. A node is unlinked before it is made, so that a `mknod` that fails
leaves none. `lxcutil_cgroup_device_operation` discards the results of its writes
and returns 0: an operation succeeds (`OperationSucceeds`) by what becomes of the
node alone, and a write that failed changes only `unwritten`. `Faults` names the
overrun of the monitor, the write to the cgroup, `mknod`, `fork` and the injection.

### ExternalInterface

The configuration as it is read at the start (`containers`, `role_list`), the
listening socket with its backlog, the one session, and the clients with what
they asked for, what they were told and which guests their command was applied
to (`hit`).

| Actions | Code |
|---|---|
| `Init` with `BootOrders`, `BindToRoleList` | `create_container_configs`, `bind_container_to_role_list`, for every order in which files and equal priorities may come |
| `Incoming`, `SessionHangup`, `SessionReadable`, `SessionExec` | `container_external_interface_incoming_handler` and `_sessions_handler`; the last two are one call, split so that a client may give up between the poll and the execution |
| `CommandLifecycle`, `CommandChange`, `CommandGet` in `Exec` | the commands, with the comparison of prefixes in `Targets` |
| `ManagerEnds`, `LifeCycle` | `container_external_interface_cleanup`; what the state machine does to a guest meanwhile |
| `Connect`, `SendPacket`, `GiveUp` | `cmcontrol` |

A lifecycle command is answered only when it succeeds, and otherwise the session
is closed without an answer; a change is always answered. Guest names are
distinct. The test command is in `ContainerControl`.

### MC modules

`MCContainerControl`, `MCManagerOperations`, `MCNetworkInterfaces`,
`MCDynamicDevices` and `MCExternalInterface` are the instances that the
configurations use.

### Proof modules

`ContainerControl_proofs`, `ContainerServices_proofs` (the two refinements of
`ContainerControl`), `ManagerOperations_proofs`, `WorkqueueThread_proofs`,
`NetworkInterfaces_proofs`, `DynamicDevices_proofs` and
`ExternalInterface_proofs`, see section 5.

## 3. Runs

| Run | Instance | Checks |
|---|---|---|
| ControlSafety | 2 guests of one role, the first with an fsck disk, the test command on the second; faults start, shutdown, thread, plugin, repair | `TypeOK`, `RoleExclusive`, `InstanceMatchesStatus`, `WorkerOwnsDisk`, `NoLaunchInShutdown`, `RunningGuestWatched`, `NoStaleExit`, `ExitLeavesNoGuest`, the refinements `RoleServices` and `WorkqueueUse` |
| ControlFaults | 3 guests, 2 roles, one with a dummy head; a failover and an A/B disk; faults monitor, manager | `LaunchIsDue` |
| ControlLive | 2 guests of one role, one with an fsck disk; fault plugin; fair | `ShutdownCompletes`, `DeadIsRelaunched`, `WorkerIsReaped` |
| ControlExchange | 2 guests of one role without disks; fair | `ExchangeHappens`, `StopIsBounded`, `CrashIsNoticed` |
| WorkqueueJobs | 3 jobs of any plugin on a disk of 2 blocks, 3 retries; every fault but thread and write; fair | `PluginStaysLoaded`, `DiskReleased`, `NoWorkOnMountedDisk`, `FormatAfterErase`, `ReleasedQueueIsQuiet`, `OnlyRefusedPluginsStay`, the refinement `ServiceSpec`, `ServiceLive`, `CancelEnds` |
| NetworkInterfaces | 2 interfaces of one name, 2 guests that want it, 2 starts, 3 waiting messages; fault overrun; fair | `ClaimsAgree`, `ListFollowsHost`, `InterfaceDelivered` |
| DynamicDevices | a vfat stick, a pad that both guests name, a port of the second; 2 plugs, 2 waiting events, 3 starts; faults mknod, cgroup, overrun | `AccessRevoked`, `InjectedIsUsable` |
| ExternalInterface | 3 clients with 9 requests, 3 guests in 2 roles, one name a prefix of another; fair | `AnswerIsTrue`, `RoleListsAgree`, `ClientIsServed` |
| ManagerMounts | 4 disks, one of each kind; every fault; fair | `DispatchedUntilAnswered`, `ResponsesAreTrue`, `FlagMatchesTable`, `TerminateReleases`, `WorkCompletes`, `ShutdownEnds` |
| ControlBootRetry | 1 guest with an fsck disk, nobody gives commands; fair | `StartIsRetried` is violated |
| ControlRecovery | the same, the repair may fail | `ScheduledWorkerRuns` is violated |
| ManagerRetake | 2 fsck disks, no fault; fair | `CompletionIsSeen` is violated |

Bounds. `ContainerControl` and `ManagerOperations` are finite as they are:
sources write only to an empty queue, time is a flag, each disk of the manager is
handed over at most twice; SIGTERM, commands, crashes, relaunches and repairs
come any number of times. Two guests of one role are what an exchange needs; a
third guest and a second role, in ControlFaults, add the scan meeting a guest of
another role between the two and the role without an active guest. One guest is
enough for the violations, each of which needs no second one. The disks of
ManagerMounts are a repaired one first, which is the element the end of a stream
is taken for, a second repaired one, which makes the loop over the repairs
matter, a failover disk, which may fail without repair, and an A/B disk, which is
refused.

The other modules name their bounds as constants, in the guards of the actions of
the environment only:

* `MaxJobs = 3` is a job, the job that replaces it and one more after a
  refusal; `Retries = 3` (50 in the code) passes the wait, its middle and its
  end; `Blocks = 2` an erase that is cancelled after some of it was written.
* `MaxStarts`, the starts of all guests together: 2 in NetworkInterfaces are one
  guest that inherits what its former life left behind, or two guests that compete
  for a name; 3 in DynamicDevices add a guest that is started while the other
  restarts. `MaxSocket = 3` and `MaxUevents = 2` let the removal and the return of a
  device wait together; beyond them, and by the fault overrun at any number of
  waiting messages, a message is dropped. `MaxPlugs = 2` is a device plugged again
  after the first was lost, or two devices.
* `MaxBacklog = 2` is the two connections that Linux lets wait for
  `listen(fd, 1)`; with three clients one may find the backlog full.

`CHECK_DEADLOCK FALSE` in three configurations: where the environment is bounded a
system that has nothing to do waits.

What the passing runs show. The scan, the commands and the shutdown never leave
two guests enabled in a role; who is launched is the active
guest of its role or a dead one, with its mandatory disks; nothing is launched after
SYSTEM_SHUTDOWN, even when the message arrives in the middle of a reboot, an exchange or a repair; no
exit is attributed to the wrong life of a guest although the pidfd event, the
deadline and the relaunch race; a worker never has a disk that is mounted or in
use by a running guest; the shutdown ends whatever guests and workers do. Together
the steps of a role are those of `RoleService`: it is handed over only while its
container is stopped and no guest of it runs, and no running guest is given up.

The delayed mounts show the same for the manager's own worker: the main thread
never closes the socket under a thread that has to write, never runs two threads
at the same disks, and its flags are those of the mount table; it waits for a
terminate it has started. `WorkCompletes` and `ShutdownEnds` name the two
exceptions, a disk kept for repair and a thread that was not created.

The jobs of a guest hold their plugin and their disk until they are reported,
whatever is cancelled, refused or released meanwhile, and behave to the life
cycle as `WorkqueueService` says; a job whose disk stays mounted gives up instead
of working on it.

What a guest claims of a name is true while it lives: an interface of that name was
moved into it, with a list that is old or lacks messages too. The list is wrong only
about interfaces whose last message was dropped. An interface that comes back from
a guest that has ended goes to the next that wants it, because every event and every
start ends in an update, as long as its message is not dropped and the monitor not
disabled. A device is announced to a guest only with its node and with its
permission, unless the write of the permission has failed unseen; no removal that
was received goes without effect because the device could no longer be read: the
file system is looked at when a device is added only. A client that was turned away or told of an error has
changed nothing, and no order of changes loses a guest of a role.

`WorkerIsReaped` holds in ControlLive, without the fault of `pthread_create`; with
it, it does not (section 6).

## 4. Fairness

`FairSpec` of `ContainerControl` assumes of the code: the thread of the loop goes
on (`WF` of `EventLoop`), and a source that is ready again and again is
dispatched (`SF` of `TimerFires` and `PidfdReady`: sd-event takes pending sources
of equal priority in turn, and the internal socket only delays them while
messages are in it). Of the world: the clock advances (`SF` of `DeadlinePasses`,
which needs the idle loop), killed processes end, worker threads return, devices
appear. Nothing is assumed of SIGTERM, of commands or of guests that were not
killed: a guest may ignore every request.

`ShutdownCompletes` has the premise that commands and signals come to an end:
each SYSTEM_SHUTDOWN message and each stop request sets a new deadline, so
that an endless stream of them postpones the end for ever.

`FairSpec` of `ManagerOperations` assumes that the tick brings the main thread to
its poll again and again, that the kernel runs the threads and that fsck and
mkfs end; the shutdown itself is left to the user.

`WorkqueueThread` assumes that the kernel runs the thread and that a tool that
got SIGTERM ends, which is enough for `CancelEnds`. `ServiceLive` adds, as its
premise, that tools end by themselves. Nothing is assumed of the main thread.

`NetworkInterfaces` assumes that the loop reads the socket and carries out the
update; nothing of the kernel and the guests, and nothing of the error, which may
disable the monitor or pass. An attachment that fails is tried
again only at the next update, so the fault is not in the run that checks
`InterfaceDelivered`.

`ExternalInterface` assumes that the loop serves what is ready and that a client
that has connected sends its packet, as `cmcontrol` does. A client that connects
and stays silent keeps the only session for as long as it likes, since the
session has no time-out.

`UnattendedSpec`, for two of the violations, is the fair system without
commands and signals.

## 5. Proofs

Every theorem holds for all values of the constants that satisfy the assumption
of its module (`ConfigAssumption`, `DisksAssumption` and so on): any number of
guests, roles, disks, interfaces, devices and clients, any configuration, any
bound and any set of faults, except where a theorem excludes one.

### ContainerControl_proofs

| Theorem | States | Excludes |
|---|---|---|
| `TypeCorrect` | `TypeOK` | |
| `RoleServedByOne` | `RoleExclusive` | |
| `InstancesBelongToGuests` | `InstanceMatchesStatus` | |
| `ShutdownIsFinal` | `NoLaunchInShutdown` | |
| `OnlyDueLaunches` | `LaunchIsDue` | |
| `RunningGuestIsWatched` | `RunningGuestWatched` | fault monitor |
| `WorkerHasDiskAlone` | `WorkerOwnsDisk` | fault monitor |
| `ExitIsCurrent` | `NoStaleExit` | fault monitor |
| `NoGuestLeftBehind` | `ExitLeavesNoGuest` | faults monitor and manager |

The first four follow from `ControlInv`. None of them is inductive alone:

* `RoleExclusive` at boot needs `BootInv`, that the guests of the roles still
  to come are DISABLE, and in an exchange needs itself, to know that the guest
  that becomes active was DISABLE and has no instance.
* `InstanceMatchesStatus` is needed for `container_start`, which must find no
  instance, and needs `WorkerInv`: a container whose workqueue is busy is in
  RUN_WORKER or EXIT and is not launched.
* `NoLaunchInShutdown` needs `PhaseInv`: a scan that began in the run state ends
  in it, because only the state machine changes the system state.

`OnlyDueLaunches` is about steps: every step that launches a guest is one of
`Boot`, `Relaunch` and `Exchange` (`OthersStartNobody`), in the run state by
`PhaseInv`. `BootInv` and `RoleExclusive` say that the active guest which `Boot` and
`Exchange` launch was disabled, `RoleExclusive` after the step that the others of its
role are; and each goes through `container_start`, whose mounts come before the
launch (`StartGuestMounts`).

Most actions change each container by itself; `SafeStep` says what such a change
must respect and `SafeStepKeepsInv` proves once that it preserves `ControlInv`.
The launching actions go through `StartGuestKeepsInv`. The other four follow from
`GuestInv`, inductive relative to `ControlInv`: the loop knows of every running
guest, no ready source and no queued GUEST_EXIT is about a running one, and a
GUEST_EXIT is alone in the queue while the loop is idle. This is false if a guest
may run without its monitor, which `container_exec_internal_event` permits ("Can
run guest without monitor"); hence the excluded fault.

### ContainerServices_proofs

| Theorem | States | Excludes |
|---|---|---|
| `RolesAreServed` | `RoleServices` | fault monitor |
| `RoleSpecIsKept` | `\A r \in Role : Service(r)!Spec` | fault monitor |
| `OneGuestOfRole` | `\A r \in Role : []Service(r)!OneGuestServes` | fault monitor |
| `QueuesAreUsedWell` | `WorkqueueUse` | |
| `QueueSpecIsKept` | `\A c \in Container : Queue(c)!Spec` | |

`RolesAreServed` goes action by action through `Next`, relative to `ControlInv` and
`GuestInv`. `RoleExclusive` makes the mapped `service` a single record
(`ServedByOne`), and `GuestInv` makes `running` empty unless that container is in a
state in which a guest may run (`OnlyServerRuns`), which is what a launch needs.
The lemmas are about changes of a kind: one container that keeps its status
(`SameRefines`), that ends (`EndRefines`), that is asked to stop (`RequestRefines`),
all containers at once (`SystemShutdownRefines`, `DeadlineRefines`), a launch
(`LaunchRefines`, used by boot, relaunch and exchange). The monitor is excluded for
a reason in the code: without a source of its own a guest that was launched again
is spoken for by the ready source of its former life, whose GUEST_EXIT gives it up
while it runs; TLC finds `RoleServices` violated with that fault.

`OneGuestOfRole` is proved of `RoleService` alone, each of whose steps preserves
`OneGuestServes`, and carried over by the refinement. It says more than
`RoleExclusive`: of the guests themselves at most one of a role runs, and it is that
of the container that serves, waited for; also after the manager has exited.

`QueuesAreUsedWell` needs of `ControlInv` the types only: each handler goes through
the calls of the queue, which look at its status before they change it. The proof
follows the handlers that make several calls in one step (a start that schedules a
recovery, the exchange, the end of a worker): what they do to a queue in all is one
call of `WorkqueueService` or none (`UsesQueue`). With `ImplementsService` of
`WorkqueueThread_proofs` the two sides of `container-workqueue.c` are proved against
one specification.

The quantified `Spec` of `RoleSpecIsKept` and `QueueSpecIsKept` is not a form TLC
takes as a property; the runs check `RoleServices` and `WorkqueueUse`, which
quantify inside the action.

### ManagerOperations_proofs

| Theorem | States |
|---|---|
| `MountTypeCorrect` | `TypeOK` |
| `WorkerOutlived` | `DispatchedUntilAnswered` |
| `ResponsesStayTrue` | `ResponsesAreTrue` |
| `FlagsAreTrue` | `FlagMatchesTable` |
| `TerminateUnmountsAll` | `TerminateReleases` |

They follow from `MountInv`, which adds to them: a disk is answered once and only
after it has left the list (`AnswerInv`, without which a second response could be
read for a disk that is no longer dispatched); the storage is there exactly as long
as a disk is dispatched (`StorageInv`); what the launch holds is not known as
mounted and, before the repair, is not mounted (`LaunchInv`, needed because an
error leaves the flag alone); in a terminate every disk is held or answered
(`TerminateInv`, with `TerminateThread`), so that its end of stream is never read.
The steps of the threads fall into those that answer a disk (`ReplyStep`) and those
that do not (`QuietStep`); the main thread has `DispatchStep`, `PollStep` and
`PhaseStep`.

### WorkqueueThread_proofs

| Theorem | States |
|---|---|
| `WorkqueueTypeCorrect` | `TypeOK` |
| `PluginOutlivesThread` | `PluginStaysLoaded` |
| `DiskIsReleased` | `DiskReleased` |
| `WorkOnUnmountedDisk` | `NoWorkOnMountedDisk` |
| `ErasedThenFormatted` | `FormatAfterErase` |
| `ReleasedIsQuiet` | `ReleasedQueueIsQuiet` |
| `OnlyRefusedStay` | `OnlyRefusedPluginsStay` |
| `ImplementsService` | `ServiceSpec`, the refinement |

The invariant adds to the properties: the mutex is held exactly at the end of
the thread, and a tool exists only in the stages that wait for it (`ThreadInv`); a
job that waits, runs or has ended has a plugin with its device (`PluginInv`); a
guest whose worker has been started is in RUN_WORKER or beyond, so that its disk
is not mounted before the cleanup (`GuestInv`, the part that
`NoWorkOnMountedDisk` rests on: the plugin looks once that the disk is unmounted
and then relies on nobody mounting it); before mkfs of the erase plugin every
block is written (`DiskInv`). `DiskReleased` and `FormatAfterErase` hold with the
faults pidfd and write in the sense that they name them as the exception.

`ImplementsService` maps the queue as the main thread sees it: the job is there
from SCHEDULED to COMPLETED, and the thread of the promise ends with the release
of the mutex. Each call maps to the call of `WorkqueueService`, `PublishResult` to
its completion, and everything else to no change. With it, what the life cycle
assumes of a job is what the threads and plugins do.

### NetworkInterfaces_proofs, DynamicDevices_proofs, ExternalInterface_proofs

| Theorem | States | Exempts |
|---|---|---|
| `InterfacesTypeCorrect` | `TypeOK` | |
| `ClaimsAreTrue` | `ClaimsAgree` | which ifindex of the name is claimed |
| `ListIsHost` | `ListFollowsHost` | interfaces whose last message was dropped |
| `DevicesTypeCorrect` | `TypeOK` | |
| `AccessEndsWithDevice` | `AccessRevoked` | devices of several guests; the permission of a block device; a failed write to the cgroup; a dropped removal; the fault fork |
| `InjectedDeviceWorks` | `InjectedIsUsable` | the permission whose write has failed |
| `AnswersAreTrue` | `AnswerIsTrue` | clients that gave up |
| `RoleListsAreKept` | `RoleListsAgree` | |

* `ClaimsAgree` needs `DownIsClear`: no element of a guest that is down claims
  anything, because `container_terminate` clears them; without it a guest could
  start with the claims of its former life.
* `ListFollowsHost` is about `WillBeListed`, what the list will say of an interface
  once the messages that wait have been read. Reading a message does not change
  it (`ReadList`), and the kernel reports exactly when an interface comes to the
  host or leaves it, with a message that is then the last about it or that is dropped
  and makes the interface `missed` (`ReportList`).
* `AccessRevoked` needs that the last event that waits for a device tells whether
  it is plugged, unless it was dropped (`LastEventTells`, with `SendTells` for a new
  event: otherwise a late add could follow the removal), that what a guest has comes from an add item of its own
  (`GrantedByItem`, so that its remove items take it back) and that a guest that
  has ended has nothing (`EndedIsClear`).
* `InjectedIsUsable` is proved of the steps: only `Assign` adds to `known`, for the
  target of the event that is read and after an operation that succeeded.
* `AnswerIsTrue` needs that a client in the backlog or in the session has not
  been served (`BacklogIsFresh`, `SessionIsFresh`) and that an open connection
  was told nothing (`OpenIsUntold`); every command then concerns the client of the
  session alone (`CommandEffect`).
* `RoleListsAgree` is proved of the lists as `BindToRoleList` builds them, guest by
  guest in boot order (`BindOne`, and `BindAll` by induction on the number of guests),
  and then of every change: the list of the role is rotated to the guest and stays
  a permutation of itself with that guest at its head (`RotatedList`, `MovedList`,
  `ChangeLists`). The induction is the least-number principle (`LeastNumber`), which
  the library's theorem on well-founded sets gives: a least number of guests for
  which the lists are wrong would have a predecessor.

Every invariant and action property that a run checks is stated by a theorem. Only
model-checked: the liveness properties, which the prover does not handle under
fairness (`ShutdownCompletes`, `DeadIsRelaunched`, `WorkerIsReaped`,
`ExchangeHappens`, `StopIsBounded`, `CrashIsNoticed`, `WorkCompletes`, `ShutdownEnds`,
`ServiceLive`, `CancelEnds`, `InterfaceDelivered`, `ClientIsServed`).

## 6. Divergences found

* **Boot is not retried** (`StartIsRetried`, run ControlBootRetry).
  `container-control.c:583` promises that a guest that could not start is
  recovered by the cyclic event. If a mandatory mount fails, `container_start`
  returns with the status NOT_STARTED, which the cyclic event takes for a
  stopped guest.
* **A scheduled repair waits for ever** (`ScheduledWorkerRuns`, run
  ControlRecovery). A DEAD guest whose disk cannot be mounted gets its check
  scheduled, but scheduled workers run only from NOT_STARTED; the mount is
  retried for ever.
* **A repaired disk is never reported** (`CompletionIsSeen`, run ManagerRetake).
  The mount after fsck or mkfs takes the branch without a response. The main
  thread polls for ever and a shutdown does not exit. Only for element 0 the
  zero bytes of the closed socket happen to look like the missing response; they
  report it as mounted also when the mount has failed again, which is why
  `FlagMatchesTable` is one-sided for it.

Seen while modelling, part of the models, and without a run of their own:

* **A failed `pthread_create` is not detected** (`container-workqueue.c:402`). The
  error number is positive and the code tests for `ret < 0`: the queue stays
  STARTED and the guest in RUN_WORKER. With the fault thread `WorkerIsReaped` is
  violated.
* **A pidfd source is leaked** (`container-control-monitor.c:141`). A reboot that
  ends by its deadline relaunches the guest before the pidfd event of its
  former life; the old source is overwritten, stays ready and is dispatched for
  ever (`leaked`).
* **A shutdown may leave the disks mounted** (`container-control-exec.c:801`). If the
  guests end while the worker of the launch is known, its completion is taken for
  that of the terminate, which is never started; `TerminateReleases` has the
  premise that it was.
* **A tool may be left on the disk** (`fsck-plugin.c:221`, the fault pidfd of
  `WorkqueueThread`) when its pidfd cannot be opened.
* **An erase may end early and still format** (`erase-mkfs-plugin.c:211`, the fault
  write): every error of write, and an old EINTR in `errno`, is taken for the end
  of the disk.
* **A guest may claim an interface it does not have** (`container-control-exec.c:115`,
  `lxc-util.c:417`). An interface is chosen by its ifindex in the list and attached by
  its name. When the listed one is gone and another of its name is on the host, that
  one is moved, and the element has the ifindex of the former. `ClaimsAgree` is
  therefore about the name. The stale ifindex is cleared when the list loses it,
  although the guest has the interface.
* **What the kernel drops is not looked for** (`net-util.c:243`,
  `device-control-dynamic-udev.c:117`). An overrun of the netlink socket or of the udev
  monitor loses messages; the handlers disable their source for ever or, when the
  error meets their receive, read on. Neither lists interfaces or devices anew, so
  that an interface stays on the host, or a guest keeps its access to a device that
  is gone (`missed` in the models, exempt in `ListFollowsHost`, `InterfaceDelivered`
  and `AccessRevoked`).
* **A permission that is not written is not noticed** (`lxc-util.c:248`, 260 and 272).
  The guest is told of a device it may not open, or keeps the permission for a
  number that may come back as another device (`unwritten`, exempt in
  `InjectedIsUsable` and `AccessRevoked`).
* **A removal may miss the guest that has the device**: events of a device that two
  guests name go to the first that is started when they are handled. This is why
  `AccessRevoked` is about devices of one guest.
* **Devices are not assigned again** when a guest is started, although the comment
  at `container-control-exec.c:1044-1046` announces it; only network interfaces are.
* **"Unknown guest name" is never shown**: a lifecycle command that finds no guest
  is not answered, and `cmcontrol` reports a failed connection.
* **The last of equals is active**: of several guests of a role with autoboot the
  one that comes last in boot order is at the head of the list.

## 7. What is not modelled

* Mount and disk helpers (`cm-utils.c`, `block-util.c`): loops of system calls
  without state. Their users take a mount as one call that succeeds or fails.
* The delayed bind mounts of guests (`container-control-exec.c:1402-1506`): a list
  that each internal event tries again; it has no effect on the life cycle.
* Static devices: one sequential pass at the start of the manager.
* The translation of a configuration into liblxc items (`lxc-util-config.c`) and
  the parsers, except for the first list of delayed mounts: text in, records out.
* cgroup, proc, signal and CAN helpers: system calls.
* The contents of configuration files, messages on the wire, log output, udev and
  netlink payloads, mount options and /proc parsing.
* Failures of sd-event and of memory allocation. Failures of the internal
  `socketpair` writes: a source writes only when the queue is empty. Writes to a
  client that has closed its end.
* Two guests of one name.

## 8. Plan

1. An abstract manager worker (none, running, finished) that `ManagerOperations`
   implements and `ContainerControl` uses, as the workqueue has in
   `WorkqueueService`; it has to carry the finding ManagerRetake, a worker that is
   never seen to finish.
2. `MountDisk`: fail over, A/B and the retries of the unmount as operators against
   declarative definitions.
3. The delayed bind mounts of guests as part of the internal event.
4. The whole role lists in `ContainerControl`, in place of their heads.
