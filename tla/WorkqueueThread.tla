--------------------------- MODULE WorkqueueThread ---------------------------
(***************************************************************************)
(* One workqueue of container-workqueue.c with everything behind it: the   *)
(* calls of the main thread, the detached thread that executes the plugin, *)
(* the plugins fsck, mkfs and erase (plugin/*.c), the tool they start, and *)
(* the disk it works on.                                                   *)
(*                                                                         *)
(* The main thread calls schedule, run, cancel, cleanup and deinitialize   *)
(* when container-control-exec.c and container-config.c do; guest is what  *)
(* these files know of the guest: it is in RUN_WORKER, it has been given   *)
(* up (EXIT), its configuration is released, or it is in any other status. *)
(***************************************************************************)
EXTENDS Workqueue, Integers

CONSTANTS
  Retries,   \* retry_count of cm_worker_wait_unmount (50 in the code)
  Blocks,    \* buffers of ERASE_BUFFER_SIZE that fill the disk
  MaxJobs,   \* bound on the calls of container_workqueue_schedule
  Faults     \* what may fail, a subset of FaultTypes

FaultTypes == {"args", "thread", "device", "open", "write", "fork", "pidfd", "poll"}

ASSUME WorkqueueAssumption ==
  /\ Retries \in Nat \ {0} /\ Blocks \in Nat /\ MaxJobs \in Nat
  /\ Faults \subseteq FaultTypes

\* g_worker_operation: the plugins a key may name.
Keys == {"fsck", "mkfs", "erase"}

VARIABLES
  status, after, result,  \* container_workqueue_t
  mutex,     \* workqueue_mutex: "free", or held by the "thread"
  object,    \* s_cm_worker_object with the handle of its plugin
  lost,      \* plugin objects no pointer leads to any more
  jobs,      \* calls of container_workqueue_schedule so far
  pc, retry, ret,  \* the thread: what it does, retry_count, what exec returns
  tool,      \* the child process of the plugin
  term,      \* SIGTERM was sent to the child
  stray,     \* a child runs that no thread waits for
  mounted,   \* /sys/fs/ext4 has the node of the disk
  written,   \* buffers written by cm_worker_exec_erase
  guest      \* what the main thread knows of the guest

queueVars == <<status, after, result, object, lost, jobs>>
threadVars == <<pc, retry, ret>>
toolVars == <<tool, term, stray, written>>
vars == <<queueVars, mutex, threadVars, toolVars, mounted, guest>>

\* The plugin stages; "publish" and "unlock" are the end of the thread function.
Stages == {"unmount", "sleep", "erase", "fork", "poll", "wait", "reap"}

\* s_cm_worker_object and fsck_plugin_t: device is FALSE while set_args has not
\* taken a device.
Object == [key : Keys \cup {"none"}, job : Jobs, device : BOOLEAN, cancel : BOOLEAN]
NoObject == [key |-> "none", job |-> "none", device |-> FALSE, cancel |-> FALSE]

TypeOK ==
  /\ status \in WorkerStatus /\ after \in BOOLEAN /\ result \in {-1, 0, 1}
  /\ mutex \in {"free", "thread"}
  /\ object \in Object /\ lost \in Nat /\ jobs \in 0 .. MaxJobs
  /\ pc \in Stages \cup {"none", "publish", "unlock"}
  /\ retry \in 0 .. Retries /\ ret \in {-1, 0, 1}
  /\ tool \in {"none", "running", "exited"} /\ term \in BOOLEAN /\ stray \in BOOLEAN
  /\ mounted \in BOOLEAN /\ written \in 0 .. Blocks
  /\ guest \in {"other", "worker", "exit", "released"}

\* container_workqueue_initialize
Init ==
  /\ status = "INACTIVE" /\ after = FALSE /\ result = 0
  /\ mutex = "free" /\ object = NoObject /\ lost = 0 /\ jobs = 0
  /\ pc = "none" /\ retry = 0 /\ ret = 0
  /\ tool = "none" /\ term = FALSE /\ stray = FALSE
  /\ mounted = FALSE /\ written = 0
  /\ guest = "other"

\* The outcomes of a call that may fail in the named way.
Outcome(fault) == IF fault \in Faults THEN BOOLEAN ELSE {TRUE}

-----------------------------------------------------------------------------
(***************************************************************************)
(* The main thread.                                                        *)
(***************************************************************************)

\* The callers of container_workqueue_schedule: a guest whose extra disk cannot
\* be mounted is recovered by fsck or mkfs, the test command asks for fsck or
\* erase whatever the guest does.
Requests ==
  {r \in [key : Keys, job : {"recovery", "test"}] :
     IF r.job = "recovery" THEN r.key # "erase" /\ guest = "other" ELSE r.key # "mkfs"}

\* cm_worker_new, and cm_worker_set_args, which takes the device or not.
NewPlugin(r, taken) == [key |-> r.key, job |-> r.job, device |-> taken, cancel |-> FALSE]

\* container_workqueue_load_plugin: the new object replaces what the workqueue
\* held before.
LoadPlugin(plugin) ==
  /\ object' = plugin
  /\ lost' = IF object = NoObject THEN lost ELSE lost + 1

\* Mutant of ScheduleWork: a COMPLETED workqueue takes the next job.
ScheduleOverwrites ==
  /\ guest # "released" /\ status \in {"INACTIVE", "COMPLETED"} /\ jobs < MaxJobs
  /\ \E r \in Requests : LoadPlugin(NewPlugin(r, TRUE))
  /\ status' = "SCHEDULED" /\ after' = TRUE /\ result' = 0 /\ jobs' = jobs + 1
  /\ UNCHANGED <<mutex, threadVars, toolVars, mounted, guest>>

\* container_workqueue_schedule, whose plugin could be loaded.  When set_args
\* refuses the arguments (-2) the plugin stays loaded.
ScheduleWork ==
  /\ guest # "released" /\ status = "INACTIVE" /\ jobs < MaxJobs
  /\ \E r \in Requests, taken \in Outcome("args") :
       /\ LoadPlugin(NewPlugin(r, taken))
       /\ IF taken THEN status' = "SCHEDULED" /\ after' = TRUE /\ result' = 0
          ELSE UNCHANGED <<status, after, result>>
  /\ jobs' = jobs + 1
  /\ UNCHANGED <<mutex, threadVars, toolVars, mounted, guest>>

\* container_cleanup(cc, 200) and container_workqueue_run, for a guest that does
\* not run.  The unmount of the disk may still be under way when it returns.
RunWork ==
  /\ guest = "other" /\ status = "SCHEDULED" /\ mutex = "free"
  /\ mounted' \in {FALSE, mounted}
  /\ status' = "STARTED"
  /\ \E created \in Outcome("thread") :
       IF created THEN pc' = "unmount" /\ retry' = Retries /\ ret' = -1
       ELSE UNCHANGED threadVars
  /\ written' = 0
  /\ guest' = "worker"
  /\ UNCHANGED <<after, result, mutex, object, lost, jobs, tool, term, stray>>

\* cm_worker_cancel of a plugin.
CancelPlugin(plugin) == [plugin EXCEPT !.cancel = TRUE]

\* container_workqueue_cancel of a guest in RUN_WORKER, for a job that has started.
CancelWork ==
  /\ guest = "worker" /\ status \in {"STARTED", "COMPLETED"} /\ ~ object.cancel
  /\ object' = CancelPlugin(object)
  /\ UNCHANGED <<status, after, result, lost, jobs, mutex, threadVars, toolVars, mounted, guest>>

\* Mutants of CleanupWork: the status is not looked at; the plugin is not unloaded.
CleanupAnyStatus ==
  /\ guest = "worker"
  /\ status' = "INACTIVE" /\ after' = FALSE /\ object' = NoObject
  /\ guest' \in {"other", "exit"}
  /\ UNCHANGED <<result, lost, jobs, mutex, threadVars, toolVars, mounted>>
CleanupKeepsPlugin ==
  /\ guest = "worker" /\ status = "COMPLETED"
  /\ status' = "INACTIVE" /\ after' = FALSE
  /\ guest' \in {"other", "exit"}
  /\ UNCHANGED <<result, object, lost, jobs, mutex, threadVars, toolVars, mounted>>

\* container_workqueue_cleanup, which reads the status without the mutex, and
\* container_workqueue_unload_plugin.  The guest is started anew, or has
\* reached its end when the system shuts down.
CleanupWork ==
  /\ guest = "worker" /\ status = "COMPLETED"
  /\ status' = "INACTIVE" /\ after' = FALSE /\ object' = NoObject
  /\ guest' \in {"other", "exit"}
  /\ UNCHANGED <<result, lost, jobs, mutex, threadVars, toolVars, mounted>>

\* The system shuts down and the deadline set with the cancel request has passed:
\* the guest is EXIT although its worker runs.
GiveUpWork ==
  /\ guest = "worker" /\ object.cancel
  /\ guest' = "exit"
  /\ UNCHANGED <<queueVars, mutex, threadVars, toolVars, mounted>>

\* The guest mounts its disks as it starts, has them unmounted, or has ended as
\* the system shuts down.
GuestMounts ==
  /\ guest = "other" /\ ~ mounted /\ mounted' = TRUE
  /\ UNCHANGED <<queueVars, mutex, threadVars, toolVars, guest>>

DiskUnmounted ==
  /\ guest # "released" /\ mounted /\ mounted' = FALSE
  /\ UNCHANGED <<queueVars, mutex, threadVars, toolVars, guest>>

GuestEnds ==
  /\ guest = "other" /\ guest' = "exit"
  /\ UNCHANGED <<queueVars, mutex, threadVars, toolVars, mounted>>

\* Mutant of DeinitializeWork: the status is read without the mutex.
DeinitializeUnlocked ==
  /\ guest = "exit"
  /\ IF status = "STARTED" THEN UNCHANGED <<status, after>>
     ELSE status' = "DISABLE" /\ after' = FALSE
  /\ guest' = "released"
  /\ UNCHANGED <<result, object, lost, jobs, mutex, threadVars, toolVars, mounted>>

\* release_container_configs: container_workqueue_deinitialize reads the status
\* under the mutex.  It gives up on a STARTED workqueue, whose memory then stays
\* allocated; otherwise mutex and memory are gone.
DeinitializeWork ==
  /\ guest = "exit" /\ mutex = "free"
  /\ IF status = "STARTED" THEN UNCHANGED <<status, after>>
     ELSE status' = "DISABLE" /\ after' = FALSE
  /\ guest' = "released"
  /\ UNCHANGED <<result, object, lost, jobs, mutex, threadVars, toolVars, mounted>>

-----------------------------------------------------------------------------
(***************************************************************************)
(* The thread: container_workqueue_thread and cm_worker_exec of the plugin *)
(***************************************************************************)

\* The thread goes to a stage, or returns r from cm_worker_exec.
GoTo(stage) == pc' = stage /\ UNCHANGED <<retry, ret>>
Return(r) == pc' = "publish" /\ ret' = r /\ UNCHANGED retry

\* cm_worker_exec of each plugin: the stage that follows a stage which succeeds.
FsckExec == [unmount |-> "fork", fork |-> "poll", poll |-> "wait"]
MkfsExec == [unmount |-> "fork", fork |-> "poll", poll |-> "wait"]
EraseExec == [unmount |-> "erase", erase |-> "fork", fork |-> "poll", poll |-> "wait"]

StageAfter(stage) ==
  CASE object.key = "fsck" -> FsckExec[stage]
    [] object.key = "mkfs" -> MkfsExec[stage]
    [] object.key = "erase" -> EraseExec[stage]

\* cm_worker_wait_unmount: the device may not be a device name; otherwise the
\* node of the disk is looked for.
CheckUnmounted ==
  /\ pc = "unmount"
  /\ \E device \in Outcome("device") :
       IF ~ device THEN Return(-1)
       ELSE IF ~ mounted THEN GoTo(StageAfter("unmount"))
       ELSE GoTo("sleep")
  /\ UNCHANGED <<queueVars, mutex, toolVars, mounted, guest>>

\* Mutants of SleepUnmount: the plugin goes on when the retries are used up; the
\* retries are not counted.
SleepGivesIn ==
  /\ pc = "sleep"
  /\ retry' = retry - 1
  /\ IF object.cancel THEN pc' = "publish" /\ ret' = -1
     ELSE pc' = (IF retry' = 0 THEN StageAfter("unmount") ELSE "unmount") /\ UNCHANGED ret
  /\ UNCHANGED <<queueVars, mutex, toolVars, mounted, guest>>
SleepForEver ==
  /\ pc = "sleep"
  /\ IF object.cancel THEN Return(-1) ELSE GoTo("unmount")
  /\ UNCHANGED <<queueVars, mutex, toolVars, mounted, guest>>

\* The rest of the loop of cm_worker_wait_unmount: 100 ms pass, then the cancel
\* request and the end of the retries are seen.
SleepUnmount ==
  /\ pc = "sleep"
  /\ retry' = retry - 1
  /\ IF object.cancel \/ retry' = 0 THEN pc' = "publish" /\ ret' = -1
     ELSE pc' = "unmount" /\ UNCHANGED ret
  /\ UNCHANGED <<queueVars, mutex, toolVars, mounted, guest>>

\* Mutant of EraseBlock: a cancel request ends the writing, not the plugin.
EraseCancelFormats ==
  /\ pc = "erase"
  /\ IF ~ object.cancel /\ written < Blocks THEN written' = written + 1 /\ UNCHANGED threadVars
     ELSE GoTo("fork") /\ UNCHANGED written
  /\ UNCHANGED <<queueVars, mutex, tool, term, stray, mounted, guest>>

\* cm_worker_exec_erase: the device is opened and written until a write fails,
\* normally because the disk is full.  Every failing write counts as the end, and
\* so does a write after which errno still holds the EINTR of an earlier call.
EraseBlock ==
  /\ pc = "erase"
  /\ \E open \in Outcome("open"), write \in Outcome("write") :
       IF ~ open /\ written = 0 THEN Return(-1) /\ UNCHANGED written
       ELSE IF object.cancel THEN Return(1) /\ UNCHANGED written
       ELSE IF write /\ written < Blocks THEN written' = written + 1 /\ UNCHANGED threadVars
       ELSE GoTo(StageAfter("erase")) /\ UNCHANGED written
  /\ UNCHANGED <<queueVars, mutex, tool, term, stray, mounted, guest>>

\* fork of the tool and pidfd_open of it.  Without a pidfd the plugin returns,
\* and the tool goes on without it.
StartTool ==
  /\ pc = "fork"
  /\ \E fork \in Outcome("fork"), pidfd \in Outcome("pidfd") :
       /\ IF fork /\ pidfd THEN GoTo(StageAfter("fork")) ELSE Return(-1)
       /\ tool' = IF fork /\ pidfd THEN "running" ELSE tool
       /\ stray' = (stray \/ (fork /\ ~ pidfd))
  /\ term' = FALSE
  /\ UNCHANGED <<queueVars, mutex, written, mounted, guest>>

\* Mutants of PollTool: a canceled tool is not waited for; the timeout does not
\* look at the cancel request.
PollLeavesTool ==
  /\ pc = "poll"
  /\ \/ tool = "exited" /\ GoTo("wait") /\ UNCHANGED term
     \/ tool = "running" /\ object.cancel /\ Return(1) /\ term' = TRUE
  /\ UNCHANGED <<queueVars, mutex, tool, stray, written, mounted, guest>>
PollIgnoresCancel ==
  /\ pc = "poll"
  /\ tool = "exited" /\ GoTo("wait")
  /\ UNCHANGED <<queueVars, mutex, toolVars, mounted, guest>>

\* The poll loop of cm_worker_exec ends: the tool has exited; or a timeout of
\* 100 ms finds the cancel request; or poll fails.
PollTool ==
  /\ pc = "poll"
  /\ \/ tool = "exited" /\ GoTo(StageAfter("poll")) /\ UNCHANGED term
     \/ tool = "running" /\ object.cancel /\ GoTo(StageAfter("poll")) /\ term' = TRUE
     \/ "poll" \in Faults /\ GoTo("reap") /\ term' = TRUE
  /\ UNCHANGED <<queueVars, mutex, tool, stray, written, mounted, guest>>

\* waitid, which blocks until the tool has ended.  Its exit code is not used.
WaitTool ==
  /\ pc = "wait" /\ tool = "exited"
  /\ tool' = "none"
  /\ Return(IF object.cancel THEN 1 ELSE 0)
  /\ UNCHANGED <<queueVars, mutex, term, stray, written, mounted, guest>>

\* waitpid after a failing poll.
ReapTool ==
  /\ pc = "reap" /\ tool = "exited"
  /\ tool' = "none"
  /\ Return(-1)
  /\ UNCHANGED <<queueVars, mutex, term, stray, written, mounted, guest>>

\* The last section of container_workqueue_thread, and its end.
PublishResult ==
  /\ pc = "publish" /\ mutex = "free"
  /\ mutex' = "thread"
  /\ result' = ret /\ status' = "COMPLETED"
  /\ GoTo("unlock")
  /\ UNCHANGED <<after, object, lost, jobs, toolVars, mounted, guest>>

UnlockResult ==
  /\ pc = "unlock"
  /\ mutex' = "free"
  /\ GoTo("none")
  /\ UNCHANGED <<queueVars, toolVars, mounted, guest>>

\* The tool ends, by itself or by SIGTERM.
ToolExits ==
  /\ tool = "running" /\ tool' = "exited"
  /\ UNCHANGED <<queueVars, mutex, threadVars, term, stray, written, mounted, guest>>

StrayExits ==
  /\ stray /\ stray' = FALSE
  /\ UNCHANGED <<queueVars, mutex, threadVars, tool, term, written, mounted, guest>>

\* The end of the program; a workqueue that was given up may still run.
Terminated == guest = "released" /\ UNCHANGED vars

-----------------------------------------------------------------------------

Thread ==
  \/ CheckUnmounted \/ SleepUnmount \/ EraseBlock \/ StartTool
  \/ PollTool \/ WaitTool \/ ReapTool \/ PublishResult \/ UnlockResult

Main ==
  \/ ScheduleWork \/ RunWork \/ CancelWork \/ CleanupWork \/ GiveUpWork
  \/ GuestMounts \/ DiskUnmounted \/ GuestEnds \/ DeinitializeWork

Next == Thread \/ Main \/ ToolExits \/ StrayExits \/ Terminated

\* The thread is scheduled, poll times out, and a tool that got SIGTERM ends.
\* Nothing is assumed of a tool that nobody stops, nor of the main thread.
Fairness == WF_vars(Thread) /\ WF_vars(term /\ ToolExits)

Spec == Init /\ [][Next]_vars /\ Fairness

-----------------------------------------------------------------------------
(***************************************************************************)
(* What must hold.                                                         *)
(***************************************************************************)

\* A plugin is not unloaded under its thread: as long as cm_worker_exec runs the
\* workqueue is STARTED and has its object (container_workqueue_cleanup frees the
\* handle that the thread and container_workqueue_cancel go on reading).
PluginStaysLoaded ==
  pc \in Stages \cup {"publish"} => status = "STARTED" /\ object.device

\* The tool has left the disk when the job is reported as ended, cancelled or
\* not: what the main thread does next with the disk (mounting it for the guest,
\* another job) does not meet it.  A tool without pidfd is the exception.
DiskReleased ==
  /\ status # "STARTED" => tool = "none"
  /\ stray => "pidfd" \in Faults

\* No plugin erases, formats or checks a disk that is still mounted, although the
\* unmount in container_cleanup may have been put off.
NoWorkOnMountedDisk == pc \in {"erase", "fork", "poll", "wait", "reap"} => ~ mounted

\* mkfs of the erase plugin is not started on a disk whose erasing was cancelled
\* or is not complete.
FormatAfterErase ==
  tool # "none" /\ object.key = "erase" => written = Blocks \/ "write" \in Faults

\* After container_workqueue_deinitialize has succeeded nothing uses the
\* workqueue: the memory is released with it.
ReleasedQueueIsQuiet == status = "DISABLE" => pc = "none" /\ mutex = "free"

\* A plugin that an idle workqueue still holds, or that was lost, is one whose
\* arguments were refused.
OnlyRefusedPluginsStay ==
  /\ status = "INACTIVE" /\ object # NoObject => ~ object.device
  /\ lost > 0 => "args" \in Faults

\* The workqueue as the main thread sees it.
Service ==
  INSTANCE WorkqueueService WITH
    w <- [status |-> status, after |-> after,
          job |-> IF status \in {"SCHEDULED", "STARTED", "COMPLETED"} THEN object.job ELSE "none",
          thread |-> pc \notin {"none", "unlock"}]

\* The calls, the thread and the plugins implement the workqueue that
\* ContainerControl uses.
ServiceSpec == Service!Spec

\* A job ends when its tool does: also a job whose disk stays mounted, and one
\* that was cancelled at any of its stages.
ServiceLive == WF_vars(ToolExits) => Service!Fairness

\* container_workqueue_cancel ends a job that runs, whatever its tool does.
CancelEnds == (pc # "none" /\ object.cancel) ~> status = "COMPLETED"
=============================================================================
