------------------------ MODULE WorkqueueThread_proofs ------------------------
(***************************************************************************)
(* Proofs about WorkqueueThread, for every number of retries and blocks,   *)
(* every bound on the jobs and every set of faults.                        *)
(***************************************************************************)
EXTENDS WorkqueueThread, TLAPS

-----------------------------------------------------------------------------
(***************************************************************************)
(* The inductive invariant.                                                *)
(***************************************************************************)

ToolStages == {"fork", "poll", "wait", "reap"}
BusyStatus == {"SCHEDULED", "STARTED", "COMPLETED"}

\* The mutex is held at the end of the thread only, and the retries of a thread
\* that waits for the unmount are not used up.
ThreadInv ==
  /\ pc = "unlock" <=> mutex = "thread"
  /\ pc \in {"unmount", "sleep"} => retry \in 1 .. Retries
  /\ pc = "erase" => object.key = "erase"
  /\ tool # "none" => pc \in {"poll", "wait", "reap"}

\* A job that waits, runs or has ended has its plugin, a plugin without device was
\* refused, and a plugin that an idle workqueue holds is one of these.
PluginInv ==
  /\ status \in BusyStatus => object.device /\ object.key \in Keys
  /\ object # NoObject /\ ~ object.device => "args" \in Faults
  /\ status = "INACTIVE" /\ object # NoObject => ~ object.device
  /\ lost > 0 => "args" \in Faults

\* A guest whose worker has been started does not mount its disks before the
\* workqueue is cleaned up, and a released workqueue is not used.
GuestInv ==
  /\ status \in {"STARTED", "COMPLETED"} => guest # "other"
  /\ status = "DISABLE" => guest = "released"

\* What the plugin starts on the disk: nothing while it is mounted, mkfs of the
\* erase plugin after the erasing only.
DiskInv ==
  /\ pc \in ToolStages /\ object.key = "erase" => written = Blocks \/ "write" \in Faults
  /\ stray => "pidfd" \in Faults

IInv ==
  /\ TypeOK /\ PluginStaysLoaded /\ NoWorkOnMountedDisk /\ ReleasedQueueIsQuiet
  /\ ThreadInv /\ PluginInv /\ GuestInv /\ DiskInv

USE DEF WorkerStatus, Jobs, Stages, Keys

LEMMA InitInv == Init => IInv
<1> SUFFICES ASSUME Init PROVE IInv
  OBVIOUS
<1> USE DEF Init
<1>1. TypeOK
  <2>1. object \in Object
    BY DEF NoObject, Object
  <2>2. 0 \in 0 .. Retries /\ 0 \in 0 .. MaxJobs /\ 0 \in 0 .. Blocks
    BY WorkqueueAssumption
  <2> QED
    BY <2>1, <2>2 DEF TypeOK
<1>2. PluginStaysLoaded /\ NoWorkOnMountedDisk /\ ReleasedQueueIsQuiet
  BY DEF PluginStaysLoaded, NoWorkOnMountedDisk, ReleasedQueueIsQuiet
<1>3. ThreadInv /\ GuestInv /\ DiskInv
  BY DEF ThreadInv, GuestInv, DiskInv, ToolStages
<1>4. PluginInv
  BY DEF PluginInv, NoObject, BusyStatus
<1> QED
  BY <1>1, <1>2, <1>3, <1>4 DEF IInv

\* The parts of the invariant speak of what a step may leave alone as a whole.
LEMMA StutterInv ==
  ASSUME IInv, UNCHANGED vars
  PROVE  IInv'
BY DEF IInv, TypeOK, PluginStaysLoaded, NoWorkOnMountedDisk, ReleasedQueueIsQuiet,
       ThreadInv, PluginInv, GuestInv, DiskInv, vars, queueVars, threadVars, toolVars

\* The stage that StageAfter names for the plugin of a job.
LEMMA StageAfterType ==
  ASSUME object.key \in Keys
  PROVE  /\ StageAfter("unmount") = IF object.key = "erase" THEN "erase" ELSE "fork"
         /\ object.key = "erase" => StageAfter("erase") = "fork"
         /\ StageAfter("fork") = "poll"
         /\ StageAfter("poll") = "wait"
BY DEF StageAfter, FsckExec, MkfsExec, EraseExec

LEMMA ScheduleWorkStep ==
  ASSUME IInv, ScheduleWork
  PROVE  IInv'
<1>1. TypeOK /\ PluginStaysLoaded /\ ThreadInv /\ PluginInv /\ GuestInv /\ DiskInv
  BY DEF IInv
<1>2. PICK r \in Requests, taken \in Outcome("args") :
        /\ LoadPlugin(NewPlugin(r, taken))
        /\ IF taken THEN status' = "SCHEDULED" /\ after' = TRUE /\ result' = 0
           ELSE UNCHANGED <<status, after, result>>
  BY DEF ScheduleWork
<1>3. /\ r.key \in Keys /\ r.job \in Jobs /\ taken \in BOOLEAN
      /\ ~ taken => "args" \in Faults
  BY DEF Requests, Outcome
<1>4. /\ object' = [key |-> r.key, job |-> r.job, device |-> taken, cancel |-> FALSE]
      /\ lost' = IF object = NoObject THEN lost ELSE lost + 1
  BY <1>2 DEF LoadPlugin, NewPlugin
<1>5. object' \in Object /\ object'.key = r.key /\ object'.device = taken
  BY <1>3, <1>4 DEF Object
<1>6. /\ guest # "released" /\ status = "INACTIVE" /\ jobs < MaxJobs /\ jobs' = jobs + 1
      /\ UNCHANGED <<mutex, threadVars, toolVars, mounted, guest>>
  BY DEF ScheduleWork
<1>7. TypeOK'
  <2>1. status' \in WorkerStatus /\ after' \in BOOLEAN /\ result' \in {-1, 0, 1}
    BY <1>1, <1>2, <1>3 DEF TypeOK
  <2>2. lost' \in Nat /\ jobs' \in 0 .. MaxJobs
    BY <1>1, <1>4, <1>6, WorkqueueAssumption DEF TypeOK
  <2> QED
    BY <1>1, <1>5, <1>6, <2>1, <2>2 DEF TypeOK, threadVars, toolVars
<1>8. PluginInv'
  <2>1. (status' = "SCHEDULED" /\ taken) \/ (status' = "INACTIVE" /\ ~ taken)
    BY <1>2, <1>3, <1>6
  <2>2. lost' > 0 => lost > 0 \/ object # NoObject
    BY <1>1, <1>4 DEF TypeOK
  <2>3. lost' > 0 => "args" \in Faults
    BY <1>1, <1>6, <2>2 DEF PluginInv
  <2> QED
    BY <1>3, <1>5, <2>1, <2>3 DEF PluginInv, BusyStatus
<1>9. pc \notin Stages \cup {"publish"}
  BY <1>1, <1>6 DEF PluginStaysLoaded
<1>10. PluginStaysLoaded' /\ ThreadInv' /\ DiskInv' /\ NoWorkOnMountedDisk'
  BY <1>1, <1>6, <1>9 DEF IInv, PluginStaysLoaded, ThreadInv, DiskInv, NoWorkOnMountedDisk,
     ToolStages, threadVars, toolVars
<1>11. status' \in {"SCHEDULED", "INACTIVE"}
  BY <1>2, <1>6
<1>12. GuestInv' /\ ReleasedQueueIsQuiet'
  BY <1>11 DEF GuestInv, ReleasedQueueIsQuiet
<1> QED
  BY <1>7, <1>8, <1>10, <1>12 DEF IInv

LEMMA RunWorkStep ==
  ASSUME IInv, RunWork
  PROVE  IInv'
<1>1. TypeOK /\ PluginStaysLoaded /\ ThreadInv /\ PluginInv /\ GuestInv /\ DiskInv
  BY DEF IInv
<1>2. TypeOK'
  <2>1. /\ status' = "STARTED" /\ mounted' \in BOOLEAN /\ written' = 0 /\ guest' = "worker"
        /\ pc' \in {pc, "unmount"} /\ retry' \in {retry, Retries} /\ ret' \in {ret, -1}
    BY <1>1 DEF RunWork, Outcome, threadVars, TypeOK
  <2>2. UNCHANGED <<after, result, mutex, object, lost, jobs, tool, term, stray>>
    BY DEF RunWork, Outcome
  <2>3. Retries \in 0 .. Retries /\ 0 \in 0 .. Blocks
    BY WorkqueueAssumption
  <2> QED
    BY <1>1, <2>1, <2>2, <2>3 DEF TypeOK, queueVars, threadVars, toolVars
<1>3. PluginStaysLoaded' /\ ThreadInv'
  BY <1>1, WorkqueueAssumption DEF TypeOK, PluginStaysLoaded, ThreadInv, PluginInv, BusyStatus,
     RunWork, Outcome, queueVars, threadVars, toolVars
<1>4. NoWorkOnMountedDisk'
  BY <1>1 DEF IInv, TypeOK, NoWorkOnMountedDisk, PluginStaysLoaded, PluginInv, GuestInv,
     BusyStatus, RunWork, Outcome, queueVars, threadVars, toolVars
<1>5. ReleasedQueueIsQuiet' /\ GuestInv'
  BY <1>1 DEF IInv, TypeOK, ReleasedQueueIsQuiet, PluginStaysLoaded, ThreadInv, GuestInv,
     RunWork, Outcome, queueVars, threadVars, toolVars
<1>6. DiskInv'
  BY <1>1 DEF TypeOK, PluginStaysLoaded, ThreadInv, PluginInv, DiskInv, BusyStatus, ToolStages,
     RunWork, Outcome, queueVars, threadVars, toolVars
<1>7. PluginInv'
  BY <1>1 DEF TypeOK, Object, NoObject, PluginStaysLoaded, PluginInv, BusyStatus, RunWork,
     Outcome, queueVars, threadVars, toolVars
<1> QED
  BY <1>2, <1>3, <1>4, <1>5, <1>6, <1>7 DEF IInv

LEMMA CancelWorkStep ==
  ASSUME IInv, CancelWork
  PROVE  IInv'
<1>1. TypeOK /\ PluginStaysLoaded /\ ThreadInv /\ PluginInv /\ GuestInv /\ DiskInv
  BY DEF IInv
<1>2. TypeOK'
  <2>1. object' \in Object
    BY <1>1 DEF CancelWork, CancelPlugin, threadVars, TypeOK, Object
  <2>2. UNCHANGED <<status, after, result, lost, jobs, mutex, threadVars, toolVars, mounted, guest>>
    BY DEF CancelWork, CancelPlugin
  <2> QED
    BY <1>1, <2>1, <2>2 DEF TypeOK, queueVars, threadVars, toolVars
<1>3. PluginStaysLoaded' /\ ThreadInv'
  BY <1>1, WorkqueueAssumption DEF TypeOK, PluginStaysLoaded, ThreadInv, PluginInv, BusyStatus,
     CancelWork, CancelPlugin, queueVars, threadVars, toolVars
<1>4. NoWorkOnMountedDisk'
  BY <1>1 DEF IInv, TypeOK, NoWorkOnMountedDisk, PluginStaysLoaded, PluginInv, GuestInv,
     BusyStatus, CancelWork, CancelPlugin, queueVars, threadVars, toolVars
<1>5. ReleasedQueueIsQuiet' /\ GuestInv'
  BY <1>1 DEF IInv, TypeOK, ReleasedQueueIsQuiet, PluginStaysLoaded, ThreadInv, GuestInv,
     CancelWork, CancelPlugin, queueVars, threadVars, toolVars
<1>6. DiskInv'
  BY <1>1 DEF TypeOK, PluginStaysLoaded, ThreadInv, PluginInv, DiskInv, BusyStatus, ToolStages,
     CancelWork, CancelPlugin, queueVars, threadVars, toolVars
<1>7. PluginInv'
  BY <1>1 DEF TypeOK, Object, NoObject, PluginStaysLoaded, PluginInv, BusyStatus, CancelWork,
     CancelPlugin, queueVars, threadVars, toolVars
<1> QED
  BY <1>2, <1>3, <1>4, <1>5, <1>6, <1>7 DEF IInv

LEMMA CleanupWorkStep ==
  ASSUME IInv, CleanupWork
  PROVE  IInv'
<1>1. TypeOK /\ PluginStaysLoaded /\ ThreadInv /\ PluginInv /\ GuestInv /\ DiskInv
  BY DEF IInv
<1>2. TypeOK'
  <2>1. status' \in WorkerStatus /\ after' \in BOOLEAN /\ object' \in Object /\ guest' \in {"other", "exit"}
    BY <1>1 DEF CleanupWork, threadVars, Object, NoObject
  <2>2. UNCHANGED <<result, lost, jobs, mutex, threadVars, toolVars, mounted>>
    BY DEF CleanupWork
  <2> QED
    BY <1>1, <2>1, <2>2 DEF TypeOK, queueVars, threadVars, toolVars
<1>3. PluginStaysLoaded' /\ ThreadInv'
  BY <1>1, WorkqueueAssumption DEF TypeOK, PluginStaysLoaded, ThreadInv, PluginInv, BusyStatus,
     CleanupWork, queueVars, threadVars, toolVars
<1>4. NoWorkOnMountedDisk'
  BY <1>1 DEF IInv, TypeOK, NoWorkOnMountedDisk, PluginStaysLoaded, PluginInv, GuestInv,
     BusyStatus, CleanupWork, queueVars, threadVars, toolVars
<1>5. ReleasedQueueIsQuiet' /\ GuestInv'
  BY <1>1 DEF IInv, TypeOK, ReleasedQueueIsQuiet, PluginStaysLoaded, ThreadInv, GuestInv,
     CleanupWork, queueVars, threadVars, toolVars
<1>6. DiskInv'
  BY <1>1 DEF TypeOK, PluginStaysLoaded, ThreadInv, PluginInv, DiskInv, BusyStatus, ToolStages,
     CleanupWork, queueVars, threadVars, toolVars
<1>7. PluginInv'
  BY <1>1 DEF TypeOK, Object, NoObject, PluginStaysLoaded, PluginInv, BusyStatus, CleanupWork,
     queueVars, threadVars, toolVars
<1> QED
  BY <1>2, <1>3, <1>4, <1>5, <1>6, <1>7 DEF IInv

LEMMA GiveUpWorkStep ==
  ASSUME IInv, GiveUpWork
  PROVE  IInv'
<1> USE DEF GiveUpWork, queueVars, threadVars, toolVars
<1>1. TypeOK /\ PluginStaysLoaded /\ ThreadInv /\ PluginInv /\ GuestInv /\ DiskInv
  BY DEF IInv
<1>2. TypeOK'
  BY <1>1 DEF TypeOK
<1>3. PluginStaysLoaded' /\ ThreadInv'
  BY <1>1, WorkqueueAssumption DEF TypeOK, PluginStaysLoaded, ThreadInv, PluginInv, BusyStatus
<1>4. NoWorkOnMountedDisk'
  BY <1>1 DEF IInv, TypeOK, NoWorkOnMountedDisk, PluginStaysLoaded, PluginInv, GuestInv, BusyStatus
<1>5. ReleasedQueueIsQuiet' /\ GuestInv'
  BY <1>1 DEF IInv, TypeOK, ReleasedQueueIsQuiet, PluginStaysLoaded, ThreadInv, GuestInv
<1>6. DiskInv'
  BY <1>1 DEF TypeOK, PluginStaysLoaded, ThreadInv, PluginInv, DiskInv, BusyStatus, ToolStages
<1>7. PluginInv'
  BY <1>1 DEF TypeOK, Object, NoObject, PluginStaysLoaded, PluginInv, BusyStatus
<1> QED
  BY <1>2, <1>3, <1>4, <1>5, <1>6, <1>7 DEF IInv

LEMMA GuestMountsStep ==
  ASSUME IInv, GuestMounts
  PROVE  IInv'
<1> USE DEF GuestMounts, queueVars, threadVars, toolVars
<1>1. TypeOK /\ PluginStaysLoaded /\ ThreadInv /\ PluginInv /\ GuestInv /\ DiskInv
  BY DEF IInv
<1>2. TypeOK'
  BY <1>1 DEF TypeOK
<1>3. PluginStaysLoaded' /\ ThreadInv'
  BY <1>1, WorkqueueAssumption DEF TypeOK, PluginStaysLoaded, ThreadInv, PluginInv, BusyStatus
<1>4. NoWorkOnMountedDisk'
  BY <1>1 DEF IInv, TypeOK, NoWorkOnMountedDisk, PluginStaysLoaded, PluginInv, GuestInv, BusyStatus
<1>5. ReleasedQueueIsQuiet' /\ GuestInv'
  BY <1>1 DEF IInv, TypeOK, ReleasedQueueIsQuiet, PluginStaysLoaded, ThreadInv, GuestInv
<1>6. DiskInv'
  BY <1>1 DEF TypeOK, PluginStaysLoaded, ThreadInv, PluginInv, DiskInv, BusyStatus, ToolStages
<1>7. PluginInv'
  BY <1>1 DEF TypeOK, Object, NoObject, PluginStaysLoaded, PluginInv, BusyStatus
<1> QED
  BY <1>2, <1>3, <1>4, <1>5, <1>6, <1>7 DEF IInv

LEMMA DiskUnmountedStep ==
  ASSUME IInv, DiskUnmounted
  PROVE  IInv'
<1>1. TypeOK /\ PluginStaysLoaded /\ ThreadInv /\ PluginInv /\ GuestInv /\ DiskInv
  BY DEF IInv
<1>2. TypeOK'
  <2>1. mounted' \in BOOLEAN
    BY <1>1 DEF DiskUnmounted, threadVars
  <2>2. UNCHANGED <<queueVars, mutex, threadVars, toolVars, guest>>
    BY DEF DiskUnmounted
  <2> QED
    BY <1>1, <2>1, <2>2 DEF TypeOK, queueVars, threadVars, toolVars
<1>3. PluginStaysLoaded' /\ ThreadInv'
  BY <1>1, WorkqueueAssumption DEF TypeOK, PluginStaysLoaded, ThreadInv, PluginInv, BusyStatus,
     DiskUnmounted, queueVars, threadVars, toolVars
<1>4. NoWorkOnMountedDisk'
  BY <1>1 DEF IInv, TypeOK, NoWorkOnMountedDisk, PluginStaysLoaded, PluginInv, GuestInv,
     BusyStatus, DiskUnmounted, queueVars, threadVars, toolVars
<1>5. ReleasedQueueIsQuiet' /\ GuestInv'
  BY <1>1 DEF IInv, TypeOK, ReleasedQueueIsQuiet, PluginStaysLoaded, ThreadInv, GuestInv,
     DiskUnmounted, queueVars, threadVars, toolVars
<1>6. DiskInv'
  BY <1>1 DEF TypeOK, PluginStaysLoaded, ThreadInv, PluginInv, DiskInv, BusyStatus, ToolStages,
     DiskUnmounted, queueVars, threadVars, toolVars
<1>7. PluginInv'
  BY <1>1 DEF TypeOK, Object, NoObject, PluginStaysLoaded, PluginInv, BusyStatus, DiskUnmounted,
     queueVars, threadVars, toolVars
<1> QED
  BY <1>2, <1>3, <1>4, <1>5, <1>6, <1>7 DEF IInv

LEMMA GuestEndsStep ==
  ASSUME IInv, GuestEnds
  PROVE  IInv'
<1> USE DEF GuestEnds, queueVars, threadVars, toolVars
<1>1. TypeOK /\ PluginStaysLoaded /\ ThreadInv /\ PluginInv /\ GuestInv /\ DiskInv
  BY DEF IInv
<1>2. TypeOK'
  BY <1>1 DEF TypeOK
<1>3. PluginStaysLoaded' /\ ThreadInv'
  BY <1>1, WorkqueueAssumption DEF TypeOK, PluginStaysLoaded, ThreadInv, PluginInv, BusyStatus
<1>4. NoWorkOnMountedDisk'
  BY <1>1 DEF IInv, TypeOK, NoWorkOnMountedDisk, PluginStaysLoaded, PluginInv, GuestInv, BusyStatus
<1>5. ReleasedQueueIsQuiet' /\ GuestInv'
  BY <1>1 DEF IInv, TypeOK, ReleasedQueueIsQuiet, PluginStaysLoaded, ThreadInv, GuestInv
<1>6. DiskInv'
  BY <1>1 DEF TypeOK, PluginStaysLoaded, ThreadInv, PluginInv, DiskInv, BusyStatus, ToolStages
<1>7. PluginInv'
  BY <1>1 DEF TypeOK, Object, NoObject, PluginStaysLoaded, PluginInv, BusyStatus
<1> QED
  BY <1>2, <1>3, <1>4, <1>5, <1>6, <1>7 DEF IInv

LEMMA DeinitializeWorkStep ==
  ASSUME IInv, DeinitializeWork
  PROVE  IInv'
<1>1. TypeOK /\ PluginStaysLoaded /\ ThreadInv /\ PluginInv /\ GuestInv /\ DiskInv
  BY DEF IInv
<1>2. TypeOK'
  <2>1. status' \in WorkerStatus /\ after' \in BOOLEAN /\ guest' = "released"
    BY <1>1 DEF DeinitializeWork, threadVars, TypeOK
  <2>2. UNCHANGED <<result, object, lost, jobs, mutex, threadVars, toolVars, mounted>>
    BY DEF DeinitializeWork
  <2> QED
    BY <1>1, <2>1, <2>2 DEF TypeOK, queueVars, threadVars, toolVars
<1>3. PluginStaysLoaded' /\ ThreadInv'
  BY <1>1, WorkqueueAssumption DEF TypeOK, PluginStaysLoaded, ThreadInv, PluginInv, BusyStatus,
     DeinitializeWork, queueVars, threadVars, toolVars
<1>4. NoWorkOnMountedDisk'
  BY <1>1 DEF IInv, TypeOK, NoWorkOnMountedDisk, PluginStaysLoaded, PluginInv, GuestInv,
     BusyStatus, DeinitializeWork, queueVars, threadVars, toolVars
<1>5. ReleasedQueueIsQuiet' /\ GuestInv'
  BY <1>1 DEF IInv, TypeOK, ReleasedQueueIsQuiet, PluginStaysLoaded, ThreadInv, GuestInv,
     DeinitializeWork, queueVars, threadVars, toolVars
<1>6. DiskInv'
  BY <1>1 DEF TypeOK, PluginStaysLoaded, ThreadInv, PluginInv, DiskInv, BusyStatus, ToolStages,
     DeinitializeWork, queueVars, threadVars, toolVars
<1>7. PluginInv'
  BY <1>1 DEF TypeOK, Object, NoObject, PluginStaysLoaded, PluginInv, BusyStatus,
     DeinitializeWork, queueVars, threadVars, toolVars
<1> QED
  BY <1>2, <1>3, <1>4, <1>5, <1>6, <1>7 DEF IInv

LEMMA CheckUnmountedStep ==
  ASSUME IInv, CheckUnmounted
  PROVE  IInv'
<1> USE DEF CheckUnmounted, GoTo, Return, queueVars, threadVars, toolVars
<1>1. TypeOK /\ PluginStaysLoaded /\ ThreadInv /\ PluginInv /\ GuestInv /\ DiskInv
  BY DEF IInv
<1>2. TypeOK'
  BY <1>1, StageAfterType DEF TypeOK, PluginInv, PluginStaysLoaded, BusyStatus
<1>3. PluginStaysLoaded' /\ ThreadInv'
  BY <1>1, WorkqueueAssumption, StageAfterType DEF TypeOK, PluginStaysLoaded, ThreadInv,
     PluginInv, BusyStatus
<1>4. NoWorkOnMountedDisk'
  BY <1>1, StageAfterType DEF IInv, TypeOK, NoWorkOnMountedDisk, PluginStaysLoaded, PluginInv,
     GuestInv, BusyStatus
<1>5. ReleasedQueueIsQuiet' /\ GuestInv'
  BY <1>1 DEF IInv, TypeOK, ReleasedQueueIsQuiet, PluginStaysLoaded, ThreadInv, GuestInv
<1>6. DiskInv'
  BY <1>1, StageAfterType DEF TypeOK, PluginStaysLoaded, ThreadInv, PluginInv, DiskInv,
     BusyStatus, ToolStages
<1>7. PluginInv'
  BY <1>1 DEF TypeOK, Object, NoObject, PluginStaysLoaded, PluginInv, BusyStatus
<1> QED
  BY <1>2, <1>3, <1>4, <1>5, <1>6, <1>7 DEF IInv

LEMMA SleepUnmountStep ==
  ASSUME IInv, SleepUnmount
  PROVE  IInv'
<1> USE DEF SleepUnmount, queueVars, threadVars, toolVars
<1>1. TypeOK /\ PluginStaysLoaded /\ ThreadInv /\ PluginInv /\ GuestInv /\ DiskInv
  BY DEF IInv
<1>2. TypeOK'
  BY <1>1, WorkqueueAssumption DEF TypeOK, ThreadInv
<1>3. PluginStaysLoaded' /\ ThreadInv'
  BY <1>1, WorkqueueAssumption DEF TypeOK, PluginStaysLoaded, ThreadInv, PluginInv, BusyStatus
<1>4. NoWorkOnMountedDisk'
  BY <1>1 DEF IInv, TypeOK, NoWorkOnMountedDisk, PluginStaysLoaded, PluginInv, GuestInv, BusyStatus
<1>5. ReleasedQueueIsQuiet' /\ GuestInv'
  BY <1>1 DEF IInv, TypeOK, ReleasedQueueIsQuiet, PluginStaysLoaded, ThreadInv, GuestInv
<1>6. DiskInv'
  BY <1>1 DEF TypeOK, PluginStaysLoaded, ThreadInv, PluginInv, DiskInv, BusyStatus, ToolStages
<1>7. PluginInv'
  BY <1>1 DEF TypeOK, Object, NoObject, PluginStaysLoaded, PluginInv, BusyStatus
<1> QED
  BY <1>2, <1>3, <1>4, <1>5, <1>6, <1>7 DEF IInv

LEMMA EraseBlockStep ==
  ASSUME IInv, EraseBlock
  PROVE  IInv'
<1> USE DEF EraseBlock, GoTo, Return, Outcome, queueVars, threadVars, toolVars
<1>1. TypeOK /\ PluginStaysLoaded /\ ThreadInv /\ PluginInv /\ GuestInv /\ DiskInv
  BY DEF IInv
<1>2. TypeOK'
  BY <1>1, WorkqueueAssumption, StageAfterType DEF TypeOK, ThreadInv, PluginInv,
     PluginStaysLoaded, BusyStatus
<1>3. PluginStaysLoaded' /\ ThreadInv'
  BY <1>1, WorkqueueAssumption, StageAfterType DEF TypeOK, PluginStaysLoaded, ThreadInv,
     PluginInv, BusyStatus
<1>4. NoWorkOnMountedDisk'
  BY <1>1, StageAfterType DEF IInv, TypeOK, NoWorkOnMountedDisk, PluginStaysLoaded, PluginInv,
     GuestInv, BusyStatus
<1>5. ReleasedQueueIsQuiet' /\ GuestInv'
  BY <1>1 DEF IInv, TypeOK, ReleasedQueueIsQuiet, PluginStaysLoaded, ThreadInv, GuestInv
<1>6. DiskInv'
  <2>1. pc' = "fork" => written' = Blocks \/ "write" \in Faults
    <3>1. ASSUME pc' = "fork", "write" \notin Faults PROVE written = Blocks /\ written' = written
      BY <1>1, <3>1, WorkqueueAssumption, StageAfterType DEF TypeOK, ThreadInv
    <3> QED
      BY <3>1
  <2>2. pc' \in {"erase", "fork", "publish"}
    BY <1>1, StageAfterType DEF TypeOK, ThreadInv
  <2> QED
    BY <1>1, <2>1, <2>2 DEF DiskInv, ToolStages
<1>7. PluginInv'
  BY <1>1 DEF TypeOK, Object, NoObject, PluginStaysLoaded, PluginInv, BusyStatus
<1> QED
  BY <1>2, <1>3, <1>4, <1>5, <1>6, <1>7 DEF IInv

LEMMA StartToolStep ==
  ASSUME IInv, StartTool
  PROVE  IInv'
<1> USE DEF StartTool, GoTo, Return, Outcome, queueVars, threadVars, toolVars
<1>1. TypeOK /\ PluginStaysLoaded /\ ThreadInv /\ PluginInv /\ GuestInv /\ DiskInv
  BY DEF IInv
<1>2. TypeOK'
  BY <1>1, StageAfterType DEF TypeOK, PluginInv, PluginStaysLoaded, BusyStatus
<1>3. PluginStaysLoaded' /\ ThreadInv'
  BY <1>1, WorkqueueAssumption, StageAfterType DEF TypeOK, PluginStaysLoaded, ThreadInv,
     PluginInv, BusyStatus
<1>4. NoWorkOnMountedDisk'
  BY <1>1, StageAfterType DEF IInv, TypeOK, NoWorkOnMountedDisk, PluginStaysLoaded, PluginInv,
     GuestInv, BusyStatus
<1>5. ReleasedQueueIsQuiet' /\ GuestInv'
  BY <1>1 DEF IInv, TypeOK, ReleasedQueueIsQuiet, PluginStaysLoaded, ThreadInv, GuestInv
<1>6. DiskInv'
  BY <1>1, StageAfterType DEF TypeOK, PluginStaysLoaded, ThreadInv, PluginInv, DiskInv,
     BusyStatus, ToolStages
<1>7. PluginInv'
  BY <1>1 DEF TypeOK, Object, NoObject, PluginStaysLoaded, PluginInv, BusyStatus
<1> QED
  BY <1>2, <1>3, <1>4, <1>5, <1>6, <1>7 DEF IInv

LEMMA PollToolStep ==
  ASSUME IInv, PollTool
  PROVE  IInv'
<1>1. TypeOK /\ PluginStaysLoaded /\ ThreadInv /\ PluginInv /\ GuestInv /\ DiskInv
  BY DEF IInv
<1>2. TypeOK'
  <2>1. pc' \in {"wait", "reap"} /\ term' \in BOOLEAN
    BY <1>1, StageAfterType DEF PollTool, GoTo, threadVars, TypeOK, PluginInv,
       PluginStaysLoaded, BusyStatus
  <2>2. UNCHANGED <<queueVars, mutex, retry, ret, tool, stray, written, mounted, guest>>
    BY DEF PollTool, GoTo
  <2> QED
    BY <1>1, <2>1, <2>2 DEF TypeOK, queueVars, threadVars, toolVars
<1>3. PluginStaysLoaded' /\ ThreadInv'
  BY <1>1, WorkqueueAssumption, StageAfterType DEF TypeOK, PluginStaysLoaded, ThreadInv,
     PluginInv, BusyStatus, PollTool, GoTo, queueVars, threadVars, toolVars
<1>4. NoWorkOnMountedDisk'
  BY <1>1, StageAfterType DEF IInv, TypeOK, NoWorkOnMountedDisk, PluginStaysLoaded, PluginInv,
     GuestInv, BusyStatus, PollTool, GoTo, queueVars, threadVars, toolVars
<1>5. ReleasedQueueIsQuiet' /\ GuestInv'
  BY <1>1 DEF IInv, TypeOK, ReleasedQueueIsQuiet, PluginStaysLoaded, ThreadInv, GuestInv,
     PollTool, GoTo, queueVars, threadVars, toolVars
<1>6. DiskInv'
  BY <1>1, StageAfterType DEF TypeOK, PluginStaysLoaded, ThreadInv, PluginInv, DiskInv,
     BusyStatus, ToolStages, PollTool, GoTo, queueVars, threadVars, toolVars
<1>7. PluginInv'
  BY <1>1 DEF TypeOK, Object, NoObject, PluginStaysLoaded, PluginInv, BusyStatus, PollTool,
     GoTo, queueVars, threadVars, toolVars
<1> QED
  BY <1>2, <1>3, <1>4, <1>5, <1>6, <1>7 DEF IInv

LEMMA WaitToolStep ==
  ASSUME IInv, WaitTool
  PROVE  IInv'
<1> USE DEF WaitTool, Return, queueVars, threadVars, toolVars
<1>1. TypeOK /\ PluginStaysLoaded /\ ThreadInv /\ PluginInv /\ GuestInv /\ DiskInv
  BY DEF IInv
<1>2. TypeOK'
  BY <1>1 DEF TypeOK
<1>3. PluginStaysLoaded' /\ ThreadInv'
  BY <1>1, WorkqueueAssumption DEF TypeOK, PluginStaysLoaded, ThreadInv, PluginInv, BusyStatus
<1>4. NoWorkOnMountedDisk'
  BY <1>1 DEF IInv, TypeOK, NoWorkOnMountedDisk, PluginStaysLoaded, PluginInv, GuestInv, BusyStatus
<1>5. ReleasedQueueIsQuiet' /\ GuestInv'
  BY <1>1 DEF IInv, TypeOK, ReleasedQueueIsQuiet, PluginStaysLoaded, ThreadInv, GuestInv
<1>6. DiskInv'
  BY <1>1 DEF TypeOK, PluginStaysLoaded, ThreadInv, PluginInv, DiskInv, BusyStatus, ToolStages
<1>7. PluginInv'
  BY <1>1 DEF TypeOK, Object, NoObject, PluginStaysLoaded, PluginInv, BusyStatus
<1> QED
  BY <1>2, <1>3, <1>4, <1>5, <1>6, <1>7 DEF IInv

LEMMA ReapToolStep ==
  ASSUME IInv, ReapTool
  PROVE  IInv'
<1> USE DEF ReapTool, Return, queueVars, threadVars, toolVars
<1>1. TypeOK /\ PluginStaysLoaded /\ ThreadInv /\ PluginInv /\ GuestInv /\ DiskInv
  BY DEF IInv
<1>2. TypeOK'
  BY <1>1 DEF TypeOK
<1>3. PluginStaysLoaded' /\ ThreadInv'
  BY <1>1, WorkqueueAssumption DEF TypeOK, PluginStaysLoaded, ThreadInv, PluginInv, BusyStatus
<1>4. NoWorkOnMountedDisk'
  BY <1>1 DEF IInv, TypeOK, NoWorkOnMountedDisk, PluginStaysLoaded, PluginInv, GuestInv, BusyStatus
<1>5. ReleasedQueueIsQuiet' /\ GuestInv'
  BY <1>1 DEF IInv, TypeOK, ReleasedQueueIsQuiet, PluginStaysLoaded, ThreadInv, GuestInv
<1>6. DiskInv'
  BY <1>1 DEF TypeOK, PluginStaysLoaded, ThreadInv, PluginInv, DiskInv, BusyStatus, ToolStages
<1>7. PluginInv'
  BY <1>1 DEF TypeOK, Object, NoObject, PluginStaysLoaded, PluginInv, BusyStatus
<1> QED
  BY <1>2, <1>3, <1>4, <1>5, <1>6, <1>7 DEF IInv

LEMMA PublishResultStep ==
  ASSUME IInv, PublishResult
  PROVE  IInv'
<1> USE DEF PublishResult, GoTo, queueVars, threadVars, toolVars
<1>1. TypeOK /\ PluginStaysLoaded /\ ThreadInv /\ PluginInv /\ GuestInv /\ DiskInv
  BY DEF IInv
<1>2. TypeOK'
  BY <1>1 DEF TypeOK
<1>3. PluginStaysLoaded' /\ ThreadInv'
  BY <1>1, WorkqueueAssumption DEF TypeOK, PluginStaysLoaded, ThreadInv, PluginInv, BusyStatus
<1>4. NoWorkOnMountedDisk'
  BY <1>1 DEF IInv, TypeOK, NoWorkOnMountedDisk, PluginStaysLoaded, PluginInv, GuestInv, BusyStatus
<1>5. ReleasedQueueIsQuiet' /\ GuestInv'
  BY <1>1 DEF IInv, TypeOK, ReleasedQueueIsQuiet, PluginStaysLoaded, ThreadInv, GuestInv
<1>6. DiskInv'
  BY <1>1 DEF TypeOK, PluginStaysLoaded, ThreadInv, PluginInv, DiskInv, BusyStatus, ToolStages
<1>7. PluginInv'
  BY <1>1 DEF TypeOK, Object, NoObject, PluginStaysLoaded, PluginInv, BusyStatus
<1> QED
  BY <1>2, <1>3, <1>4, <1>5, <1>6, <1>7 DEF IInv

LEMMA UnlockResultStep ==
  ASSUME IInv, UnlockResult
  PROVE  IInv'
<1> USE DEF UnlockResult, GoTo, queueVars, threadVars, toolVars
<1>1. TypeOK /\ PluginStaysLoaded /\ ThreadInv /\ PluginInv /\ GuestInv /\ DiskInv
  BY DEF IInv
<1>2. TypeOK'
  BY <1>1 DEF TypeOK
<1>3. PluginStaysLoaded' /\ ThreadInv'
  BY <1>1, WorkqueueAssumption DEF TypeOK, PluginStaysLoaded, ThreadInv, PluginInv, BusyStatus
<1>4. NoWorkOnMountedDisk'
  BY <1>1 DEF IInv, TypeOK, NoWorkOnMountedDisk, PluginStaysLoaded, PluginInv, GuestInv, BusyStatus
<1>5. ReleasedQueueIsQuiet' /\ GuestInv'
  BY <1>1 DEF IInv, TypeOK, ReleasedQueueIsQuiet, PluginStaysLoaded, ThreadInv, GuestInv
<1>6. DiskInv'
  BY <1>1 DEF TypeOK, PluginStaysLoaded, ThreadInv, PluginInv, DiskInv, BusyStatus, ToolStages
<1>7. PluginInv'
  BY <1>1 DEF TypeOK, Object, NoObject, PluginStaysLoaded, PluginInv, BusyStatus
<1> QED
  BY <1>2, <1>3, <1>4, <1>5, <1>6, <1>7 DEF IInv

LEMMA ToolExitsStep ==
  ASSUME IInv, ToolExits
  PROVE  IInv'
<1> USE DEF ToolExits, queueVars, threadVars, toolVars
<1>1. TypeOK /\ PluginStaysLoaded /\ ThreadInv /\ PluginInv /\ GuestInv /\ DiskInv
  BY DEF IInv
<1>2. TypeOK'
  BY <1>1 DEF TypeOK
<1>3. PluginStaysLoaded' /\ ThreadInv'
  BY <1>1, WorkqueueAssumption DEF TypeOK, PluginStaysLoaded, ThreadInv, PluginInv, BusyStatus
<1>4. NoWorkOnMountedDisk'
  BY <1>1 DEF IInv, TypeOK, NoWorkOnMountedDisk, PluginStaysLoaded, PluginInv, GuestInv, BusyStatus
<1>5. ReleasedQueueIsQuiet' /\ GuestInv'
  BY <1>1 DEF IInv, TypeOK, ReleasedQueueIsQuiet, PluginStaysLoaded, ThreadInv, GuestInv
<1>6. DiskInv'
  BY <1>1 DEF TypeOK, PluginStaysLoaded, ThreadInv, PluginInv, DiskInv, BusyStatus, ToolStages
<1>7. PluginInv'
  BY <1>1 DEF TypeOK, Object, NoObject, PluginStaysLoaded, PluginInv, BusyStatus
<1> QED
  BY <1>2, <1>3, <1>4, <1>5, <1>6, <1>7 DEF IInv

LEMMA StrayExitsStep ==
  ASSUME IInv, StrayExits
  PROVE  IInv'
<1>1. TypeOK /\ PluginStaysLoaded /\ ThreadInv /\ PluginInv /\ GuestInv /\ DiskInv
  BY DEF IInv
<1>2. TypeOK'
  <2>1. stray' \in BOOLEAN
    BY <1>1 DEF StrayExits, threadVars
  <2>2. UNCHANGED <<queueVars, mutex, threadVars, tool, term, written, mounted, guest>>
    BY DEF StrayExits
  <2> QED
    BY <1>1, <2>1, <2>2 DEF TypeOK, queueVars, threadVars, toolVars
<1>3. PluginStaysLoaded' /\ ThreadInv'
  BY <1>1, WorkqueueAssumption DEF TypeOK, PluginStaysLoaded, ThreadInv, PluginInv, BusyStatus,
     StrayExits, queueVars, threadVars, toolVars
<1>4. NoWorkOnMountedDisk'
  BY <1>1 DEF IInv, TypeOK, NoWorkOnMountedDisk, PluginStaysLoaded, PluginInv, GuestInv,
     BusyStatus, StrayExits, queueVars, threadVars, toolVars
<1>5. ReleasedQueueIsQuiet' /\ GuestInv'
  BY <1>1 DEF IInv, TypeOK, ReleasedQueueIsQuiet, PluginStaysLoaded, ThreadInv, GuestInv,
     StrayExits, queueVars, threadVars, toolVars
<1>6. DiskInv'
  BY <1>1 DEF TypeOK, PluginStaysLoaded, ThreadInv, PluginInv, DiskInv, BusyStatus, ToolStages,
     StrayExits, queueVars, threadVars, toolVars
<1>7. PluginInv'
  BY <1>1 DEF TypeOK, Object, NoObject, PluginStaysLoaded, PluginInv, BusyStatus, StrayExits,
     queueVars, threadVars, toolVars
<1> QED
  BY <1>2, <1>3, <1>4, <1>5, <1>6, <1>7 DEF IInv

-----------------------------------------------------------------------------
(***************************************************************************)
(* The invariants.                                                         *)
(***************************************************************************)

LEMMA StepInv == IInv /\ [Next]_vars => IInv'
<1> SUFFICES ASSUME IInv, [Next]_vars PROVE IInv'
  OBVIOUS
<1>1. CASE Thread
  BY <1>1, CheckUnmountedStep, SleepUnmountStep, EraseBlockStep, StartToolStep, PollToolStep,
     WaitToolStep, ReapToolStep, PublishResultStep, UnlockResultStep DEF Thread
<1>2. CASE Main
  BY <1>2, ScheduleWorkStep, RunWorkStep, CancelWorkStep, CleanupWorkStep, GiveUpWorkStep,
     GuestMountsStep, DiskUnmountedStep, GuestEndsStep, DeinitializeWorkStep DEF Main
<1>3. CASE ToolExits \/ StrayExits
  BY <1>3, ToolExitsStep, StrayExitsStep
<1>4. CASE Terminated \/ UNCHANGED vars
  BY <1>4, StutterInv DEF Terminated
<1> QED
  BY <1>1, <1>2, <1>3, <1>4 DEF Next

LEMMA Inductive == Spec => []IInv
BY InitInv, StepInv, PTL DEF Spec

\* The variables of the workqueue, its thread and the plugins keep their types: the
\* retries of cm_worker_wait_unmount and the blocks of cm_worker_exec_erase stay in
\* their bounds.
THEOREM WorkqueueTypeCorrect == Spec => []TypeOK
BY Inductive, PTL DEF IInv

\* container_workqueue_cleanup never unloads the plugin that a thread executes.
THEOREM PluginOutlivesThread == Spec => []PluginStaysLoaded
BY Inductive, PTL DEF IInv

\* The tool has ended when its job is not STARTED any more (container_workqueue_thread
\* sets COMPLETED last), unless its pidfd could not be opened.
THEOREM DiskIsReleased == Spec => []DiskReleased
<1>1. IInv => DiskReleased
  BY DEF IInv, DiskReleased, ThreadInv, DiskInv, PluginStaysLoaded
<1> QED
  BY <1>1, Inductive, PTL

\* cm_worker_wait_unmount lets no plugin through to a disk that is mounted.
THEOREM WorkOnUnmountedDisk == Spec => []NoWorkOnMountedDisk
BY Inductive, PTL DEF IInv

\* The erase plugin formats only what cm_worker_exec_erase has written to the end.
THEOREM ErasedThenFormatted == Spec => []FormatAfterErase
<1>1. IInv => FormatAfterErase
  BY DEF IInv, FormatAfterErase, ThreadInv, DiskInv, ToolStages
<1> QED
  BY <1>1, Inductive, PTL

\* container_workqueue_deinitialize succeeds only when no thread uses the memory.
THEOREM ReleasedIsQuiet == Spec => []ReleasedQueueIsQuiet
BY Inductive, PTL DEF IInv

\* container_workqueue_schedule and container_workqueue_cleanup leave a plugin loaded
\* only when cm_worker_set_args has refused its arguments.
THEOREM OnlyRefusedStay == Spec => []OnlyRefusedPluginsStay
<1>1. IInv => OnlyRefusedPluginsStay
  BY DEF IInv, OnlyRefusedPluginsStay, PluginInv
<1> QED
  BY <1>1, Inductive, PTL

-----------------------------------------------------------------------------
(***************************************************************************)
(* The refinement.                                                         *)
(***************************************************************************)

\* The value of the workqueue that the main thread sees.
Job == IF status \in {"SCHEDULED", "STARTED", "COMPLETED"} THEN object.job ELSE "none"
Busy == pc \notin {"none", "unlock"}
Queue(st, af, jb, th) == [status |-> st, after |-> af, job |-> jb, thread |-> th]
View == Queue(status, after, Job, Busy)

\* What the calls of the service make of the workqueue, one field after the other.
LEMMA ServiceCalls ==
  ASSUME NEW job, NEW created
  PROVE
    /\ status = "INACTIVE" =>
         Service!Schedule(View, job, TRUE) = Queue("SCHEDULED", TRUE, job, Busy)
    /\ Service!Run(View, created) = Queue("STARTED", after, Job, created)
    /\ Service!Complete(View) = Queue("COMPLETED", after, Job, FALSE)
    /\ Service!Cleanup(View) = Queue("INACTIVE", FALSE, "none", Busy)
    /\ Service!Deinitialize(View) = Queue("DISABLE", FALSE, "none", Busy)
<1> DEFINE yes == TRUE
<1> DEFINE no == FALSE
<1> HIDE DEF yes, no
<1>1. [Queue(status, after, Job, Busy) EXCEPT !.status = "SCHEDULED", !.after = yes, !.job = job]
        = Queue("SCHEDULED", yes, job, Busy)
  <2>1. [Queue(status, after, Job, Busy) EXCEPT !.status = "SCHEDULED"] = Queue("SCHEDULED", after, Job, Busy)
    BY DEF Queue
  <2>2. [Queue("SCHEDULED", after, Job, Busy) EXCEPT !.after = yes] = Queue("SCHEDULED", yes, Job, Busy)
    BY DEF Queue
  <2>3. [Queue("SCHEDULED", yes, Job, Busy) EXCEPT !.job = job] = Queue("SCHEDULED", yes, job, Busy)
    BY DEF Queue
  <2> QED
    BY <2>1, <2>2, <2>3
<1>2. [Queue(status, after, Job, Busy) EXCEPT !.status = "STARTED", !.thread = created]
        = Queue("STARTED", after, Job, created)
  <2>1. [Queue(status, after, Job, Busy) EXCEPT !.status = "STARTED"] = Queue("STARTED", after, Job, Busy)
    BY DEF Queue
  <2>2. [Queue("STARTED", after, Job, Busy) EXCEPT !.thread = created] = Queue("STARTED", after, Job, created)
    BY DEF Queue
  <2> QED
    BY <2>1, <2>2
<1>3. [Queue(status, after, Job, Busy) EXCEPT !.status = "COMPLETED", !.thread = no]
        = Queue("COMPLETED", after, Job, no)
  <2>1. [Queue(status, after, Job, Busy) EXCEPT !.status = "COMPLETED"] = Queue("COMPLETED", after, Job, Busy)
    BY DEF Queue
  <2>2. [Queue("COMPLETED", after, Job, Busy) EXCEPT !.thread = no] = Queue("COMPLETED", after, Job, no)
    BY DEF Queue
  <2> QED
    BY <2>1, <2>2
<1>4. [Queue(status, after, Job, Busy) EXCEPT !.status = "INACTIVE", !.after = no, !.job = "none"]
        = Queue("INACTIVE", no, "none", Busy)
  <2>1. [Queue(status, after, Job, Busy) EXCEPT !.status = "INACTIVE"] = Queue("INACTIVE", after, Job, Busy)
    BY DEF Queue
  <2>2. [Queue("INACTIVE", after, Job, Busy) EXCEPT !.after = no] = Queue("INACTIVE", no, Job, Busy)
    BY DEF Queue
  <2>3. [Queue("INACTIVE", no, Job, Busy) EXCEPT !.job = "none"] = Queue("INACTIVE", no, "none", Busy)
    BY DEF Queue
  <2> QED
    BY <2>1, <2>2, <2>3
<1>5. [Queue(status, after, Job, Busy) EXCEPT !.status = "DISABLE", !.after = no, !.job = "none"]
        = Queue("DISABLE", no, "none", Busy)
  <2>1. [Queue(status, after, Job, Busy) EXCEPT !.status = "DISABLE"] = Queue("DISABLE", after, Job, Busy)
    BY DEF Queue
  <2>2. [Queue("DISABLE", after, Job, Busy) EXCEPT !.after = no] = Queue("DISABLE", no, Job, Busy)
    BY DEF Queue
  <2>3. [Queue("DISABLE", no, Job, Busy) EXCEPT !.job = "none"] = Queue("DISABLE", no, "none", Busy)
    BY DEF Queue
  <2> QED
    BY <2>1, <2>2, <2>3
<1>6. View.status = status
  BY DEF View, Queue
<1> USE DEF yes, no
<1> QED
  BY <1>1, <1>2, <1>3, <1>4, <1>5, <1>6
  DEF View, Service!Schedule, Service!Run, Service!Complete, Service!Cleanup, Service!Deinitialize

LEMMA ViewInit == Init => Service!Init
BY DEF Init, Service!Init, Service!InitialWorkqueue

LEMMA ScheduleRefines ==
  ASSUME IInv, ScheduleWork
  PROVE  Service!ScheduleJob \/ View' = View
<1>1. PICK r \in Requests, taken \in Outcome("args") :
        /\ object' = [key |-> r.key, job |-> r.job, device |-> taken, cancel |-> FALSE]
        /\ IF taken THEN status' = "SCHEDULED" /\ after' = TRUE /\ result' = 0
           ELSE UNCHANGED <<status, after, result>>
  BY DEF ScheduleWork, LoadPlugin, NewPlugin
<1>2. r.job \in Jobs \ {"none"} /\ taken \in BOOLEAN
  BY DEF Requests, Outcome
<1>3. status = "INACTIVE" /\ pc' = pc
  BY DEF ScheduleWork, threadVars
<1>4. CASE taken
  <2>1. View' = Service!Schedule(View, r.job, TRUE)
    <3>1. Job' = r.job /\ Busy' = Busy
      BY <1>1, <1>3, <1>4 DEF Job, Busy
    <3>2. status' = "SCHEDULED" /\ after' = TRUE
      BY <1>1, <1>4
    <3> QED
      BY <1>3, <3>1, <3>2, ServiceCalls DEF View
  <2>2. \E job \in Jobs \ {"none"} : View' = Service!Schedule(View, job, TRUE)
    BY <1>2, <2>1
  <2> QED
    BY <1>3, <2>2 DEF View, Queue, Job, Busy, Service!ScheduleJob, Service!Jobs
<1>5. CASE ~ taken
  BY <1>1, <1>3, <1>5 DEF View, Job, Busy
<1> QED
  BY <1>2, <1>4, <1>5

LEMMA RunRefines ==
  ASSUME IInv, RunWork
  PROVE  Service!RunJob
<1>1. /\ status = "SCHEDULED" /\ status' = "STARTED" /\ object' = object /\ after' = after
      /\ pc' \in {pc, "unmount"}
  BY DEF RunWork, threadVars
<1>2. pc = "none"
  BY DEF RunWork, IInv, TypeOK, PluginStaysLoaded, ThreadInv
<1>3. \E created \in BOOLEAN : View' = Service!Run(View, created)
  <2>1. CASE pc' = "unmount"
    <3>1. View' = Service!Run(View, TRUE)
      <4>1. Job' = Job /\ Busy' = TRUE
        BY <1>1, <2>1 DEF Job, Busy
      <4> QED
        BY <1>1, <4>1, ServiceCalls DEF View
    <3> QED
      BY <3>1
  <2>2. CASE pc' = "none"
    <3>1. View' = Service!Run(View, FALSE)
      <4>1. Job' = Job /\ Busy' = FALSE
        BY <1>1, <2>2 DEF Job, Busy
      <4> QED
        BY <1>1, <4>1, ServiceCalls DEF View
    <3> QED
      BY <3>1
  <2> QED
    BY <1>1, <1>2, <2>1, <2>2
<1> QED
  BY <1>1, <1>3 DEF Service!RunJob, View, Queue, Job, Busy

LEMMA CleanupRefines ==
  ASSUME IInv, CleanupWork
  PROVE  Service!CleanupJob
<1>1. status = "COMPLETED"
  BY DEF CleanupWork
<1>2. View' = Service!Cleanup(View)
  <2>1. status' = "INACTIVE" /\ after' = FALSE /\ pc' = pc
    BY DEF CleanupWork, threadVars
  <2>2. Job' = "none" /\ Busy' = Busy
    BY <2>1 DEF Job, Busy
  <2> QED
    BY <2>1, <2>2, ServiceCalls DEF View
<1> QED
  BY <1>1, <1>2 DEF Service!CleanupJob, Service!CanCleanup, View, Queue, Job, Busy

LEMMA DeinitializeRefines ==
  ASSUME IInv, DeinitializeWork
  PROVE  Service!DeinitializeQueue \/ View' = View
<1>1. CASE status = "STARTED"
  BY <1>1 DEF DeinitializeWork, threadVars, View, Job, Busy
<1>2. CASE status # "STARTED"
  <2>1. status # "DISABLE"
    BY DEF DeinitializeWork, IInv, GuestInv
  <2>2. View' = Service!Deinitialize(View)
    <3>1. status' = "DISABLE" /\ after' = FALSE /\ pc' = pc
      BY <1>2 DEF DeinitializeWork, threadVars
    <3>2. Job' = "none" /\ Busy' = Busy
      BY <3>1 DEF Job, Busy
    <3> QED
      BY <3>1, <3>2, ServiceCalls DEF View
  <2> QED
    BY <1>2, <2>1, <2>2 DEF Service!DeinitializeQueue, Service!CanDeinitialize, View, Queue,
       Job, Busy
<1> QED
  BY <1>1, <1>2

LEMMA PublishRefines ==
  ASSUME IInv, PublishResult
  PROVE  Service!CompleteJob
<1>1. status = "STARTED"
  BY DEF PublishResult, IInv, PluginStaysLoaded
<1>2. View' = Service!Complete(View)
  <2>1. status' = "COMPLETED" /\ UNCHANGED <<after, object>> /\ pc' = "unlock"
    BY DEF PublishResult, GoTo
  <2>2. Job' = Job /\ Busy' = FALSE
    BY <1>1, <2>1 DEF Job, Busy
  <2> QED
    BY <2>1, <2>2, ServiceCalls DEF View
<1>3. Busy
  BY DEF PublishResult, Busy
<1> QED
  BY <1>2, <1>3 DEF Service!CompleteJob, View, Queue, Job, Busy

\* Every other step leaves what the main thread sees as it is.
LEMMA OtherStutters ==
  ASSUME IInv,
         \/ Thread /\ ~ PublishResult
         \/ CancelWork \/ GiveUpWork \/ GuestMounts \/ DiskUnmounted \/ GuestEnds
         \/ ToolExits \/ StrayExits \/ Terminated \/ UNCHANGED vars
  PROVE  View' = View
<1>1. object.key \in Keys \/ pc \in {"none", "unlock"}
  BY DEF IInv, TypeOK, PluginStaysLoaded, PluginInv, BusyStatus
<1>2. CASE Thread /\ ~ PublishResult
  <2>1. UNCHANGED <<status, after, object>>
    BY <1>2 DEF Thread, CheckUnmounted, SleepUnmount, EraseBlock, StartTool, PollTool, WaitTool,
       ReapTool, UnlockResult, queueVars
  <2>2. pc \notin {"none", "unlock"} <=> pc' \notin {"none", "unlock"}
    <3>1. CASE UnlockResult
      BY <3>1 DEF UnlockResult, GoTo
    <3>2. CASE SleepUnmount \/ WaitTool \/ ReapTool
      BY <3>2 DEF SleepUnmount, WaitTool, ReapTool, Return
    <3>3. CASE CheckUnmounted \/ EraseBlock \/ StartTool \/ PollTool
      <4>1. pc \in {"unmount", "erase", "fork", "poll"}
        BY <3>3 DEF CheckUnmounted, EraseBlock, StartTool, PollTool
      <4>2. object.key \in Keys /\ (pc = "erase" => object.key = "erase")
        BY <1>1, <4>1 DEF IInv, ThreadInv
      <4>3. pc' \in {"sleep", "erase", "fork", "poll", "wait", "reap", "publish"}
        BY <3>3, <4>2, StageAfterType
        DEF CheckUnmounted, EraseBlock, StartTool, PollTool, GoTo, Return, threadVars
      <4> QED
        BY <4>1, <4>3
    <3> QED
      BY <1>2, <3>1, <3>2, <3>3 DEF Thread
  <2> QED
    BY <2>1, <2>2 DEF View, Job, Busy
<1>3. CASE CancelWork
  BY <1>3 DEF CancelWork, CancelPlugin, threadVars, View, Job, Busy, IInv, TypeOK, Object
<1>4. CASE \/ GiveUpWork \/ GuestMounts \/ DiskUnmounted \/ GuestEnds \/ ToolExits
           \/ StrayExits \/ Terminated \/ UNCHANGED vars
  BY <1>4 DEF GiveUpWork, GuestMounts, DiskUnmounted, GuestEnds, ToolExits, StrayExits,
     Terminated, vars, queueVars, threadVars, View, Job, Busy
<1> QED
  BY <1>2, <1>3, <1>4

LEMMA StepRefines == IInv /\ [Next]_vars => [Service!Next]_View
<1> SUFFICES ASSUME IInv, [Next]_vars PROVE Service!Next \/ View' = View
  OBVIOUS
<1>1. CASE ScheduleWork \/ RunWork \/ CleanupWork \/ DeinitializeWork \/ PublishResult
  BY <1>1, ScheduleRefines, RunRefines, CleanupRefines, DeinitializeRefines, PublishRefines
  DEF Service!Next
<1>2. CASE ~ (ScheduleWork \/ RunWork \/ CleanupWork \/ DeinitializeWork \/ PublishResult)
  BY <1>2, OtherStutters DEF Next, Thread, Main
<1> QED
  BY <1>1, <1>2

\* The calls of the main thread, the thread and the plugins implement the workqueue
\* that ContainerControl relies on (container-workqueue.c): one job at a time, which is
\* neither replaced nor released before its thread has set COMPLETED.
THEOREM ImplementsService == Spec => ServiceSpec
<1>1. Init => Service!Init
  BY ViewInit
<1>2. IInv /\ [Next]_vars => [Service!Next]_View
  BY StepRefines
<1> QED
  BY <1>1, <1>2, Inductive, PTL DEF Spec, ServiceSpec, Service!Spec, View, Queue, Job, Busy
=============================================================================
