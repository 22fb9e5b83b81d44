----------------------- MODULE ContainerServices_proofs -----------------------
(***************************************************************************)
(* Proofs that ContainerControl implements its two abstract specifications *)
(* for every configuration: WorkqueueService for the workqueue of each     *)
(* container and RoleService for each role.                                *)
(***************************************************************************)
EXTENDS ContainerControl_proofs

-----------------------------------------------------------------------------
(***************************************************************************)
(* The workqueue of a container.                                           *)
(***************************************************************************)

\* A workqueue that was v is v, or has gone one step of WorkqueueService.
UsesQueue(v, x) ==
  \/ x = v
  \/ v.status = "INACTIVE" /\ \E job \in {"recovery", "test"} : x = Schedule(v, job, TRUE)
  \/ v.status = "SCHEDULED" /\ \E created \in BOOLEAN : x = Run(v, created)
  \/ v.thread /\ x = Complete(v)
  \/ CanCleanup(v) /\ x = Cleanup(v)

LEMMA UseIsStep ==
  ASSUME NEW c \in Container, UsesQueue(cc[c].wq, cc'[c].wq)
  PROVE  [Queue(c)!Next]_(cc[c].wq)
<1> DEFINE v == cc[c].wq
           x == cc'[c].wq
<1>1. CASE x = v
  BY <1>1
<1>2. CASE v.status = "INACTIVE" /\ \E job \in {"recovery", "test"} : x = Schedule(v, job, TRUE)
  BY <1>2 DEF Schedule, Queue!Next, Queue!ScheduleJob, Queue!Schedule, Queue!Jobs
<1>3. CASE v.status = "SCHEDULED" /\ \E created \in BOOLEAN : x = Run(v, created)
  BY <1>3 DEF Run, Queue!Next, Queue!RunJob, Queue!Run
<1>4. CASE v.thread /\ x = Complete(v)
  BY <1>4 DEF Complete, Queue!Next, Queue!CompleteJob, Queue!Complete
<1>5. CASE CanCleanup(v) /\ x = Cleanup(v)
  BY <1>5 DEF Cleanup, CanCleanup, Queue!Next, Queue!CleanupJob, Queue!Cleanup, Queue!CanCleanup
<1> QED
  BY <1>1, <1>2, <1>3, <1>4, <1>5 DEF UsesQueue

\* container_workqueue_schedule of the plugin that may not load.
LEMMA ScheduleUse ==
  ASSUME NEW k \in ContainerType, NEW job \in {"recovery", "test"}, NEW x \in ScheduleOutcomes(k, job)
  PROVE  x \in ContainerType /\ UsesQueue(k.wq, x.wq)
<1>1. CASE x = k
  BY <1>1 DEF UsesQueue
<1>2. CASE x = [k EXCEPT !.wq = Schedule(@, job, TRUE)]
  <2>1. x.wq = Schedule(k.wq, job, TRUE)
    BY <1>2 DEF ContainerType
  <2>2. k.wq.status # "INACTIVE" => x.wq = k.wq
    BY <2>1 DEF Schedule
  <2>3. Schedule(k.wq, job, TRUE) \in WorkqueueType
    BY WorkqueueFacts DEF ContainerType, Jobs
  <2> QED
    BY <1>2, <2>1, <2>2, <2>3 DEF UsesQueue, ContainerType
<1> QED
  BY <1>1, <1>2 DEF ScheduleOutcomes

\* container_start uses the workqueue for a recovery only.
LEMMA StartUse ==
  ASSUME NEW c \in Container, NEW k \in ContainerType, NEW x \in StartOutcomes(c, k)
  PROVE  x \in ContainerType /\ UsesQueue(k.wq, x.wq)
<1> DEFINE p == Preprocess(c, k)
<1>1. p.ok \in BOOLEAN /\ p.cc \in ContainerType /\ p.cc.wq = k.wq
  BY PreprocessFacts
<1> HIDE DEF p
<1>2. CASE k.status = "DISABLE"
  BY <1>2 DEF StartOutcomes, UsesQueue
<1>3. CASE k.status # "DISABLE" /\ p.ok
  <2>1. x \in LaunchOutcomes(c, p.cc)
    BY <1>3 DEF StartOutcomes, p
  <2>2. x = [p.cc EXCEPT !.status = "STARTED", !.lxc = TRUE]
        \/ x = [p.cc EXCEPT !.status = "DEAD", !.lxc = FALSE]
    BY <2>1 DEF LaunchOutcomes
  <2>3. x \in ContainerType /\ x.wq = k.wq
    BY <1>1, <2>2 DEF ContainerType, Status
  <2> QED
    BY <2>3 DEF UsesQueue
<1>4. CASE k.status # "DISABLE" /\ ~ p.ok
  <2>1. x \in RecoveryOutcomes(c, p.cc)
    BY <1>4 DEF StartOutcomes, p
  <2>2. x = p.cc \/ x \in ScheduleOutcomes(p.cc, "recovery")
    BY <2>1 DEF RecoveryOutcomes
  <2>3. x \in ContainerType /\ UsesQueue(p.cc.wq, x.wq)
    BY <1>1, <2>2, ScheduleUse DEF UsesQueue
  <2> QED
    BY <1>1, <2>3
<1> QED
  BY <1>1, <1>2, <1>3, <1>4

\* A handler that starts c may have changed other containers before, but no
\* workqueue.
LEMMA StartGuestUse ==
  ASSUME cc \in [Container -> ContainerType],
         NEW c \in Container, NEW ccs \in [Container -> ContainerType], NEW notify \in BOOLEAN,
         StartGuest(c, ccs, notify), \A d \in Container : ccs[d].wq = cc[d].wq
  PROVE  \A d \in Container : UsesQueue(cc[d].wq, cc'[d].wq)
<1>1. PICK k \in StartOutcomes(c, ccs[c]) : \E m \in {k} \cup MonitorOutcomes(k) : cc' = [ccs EXCEPT ![c] = m]
  BY DEF StartGuest
<1>2. PICK m \in {k} \cup MonitorOutcomes(k) : cc' = [ccs EXCEPT ![c] = m]
  BY <1>1
<1>3. k \in ContainerType /\ UsesQueue(cc[c].wq, k.wq)
  BY StartUse
<1>4. m.wq = k.wq
  BY <1>3 DEF MonitorOutcomes, ContainerType
<1>5. cc'[c] = m /\ \A d \in Container : d # c => cc'[d] = ccs[d]
  BY <1>2
<1> QED
  BY <1>3, <1>4, <1>5 DEF UsesQueue

\* An operation on one container.
LEMMA OneUse ==
  ASSUME cc \in [Container -> ContainerType], NEW c \in Container, NEW x, cc' = [cc EXCEPT ![c] = x],
         UsesQueue(cc[c].wq, x.wq)
  PROVE  \A d \in Container : UsesQueue(cc[d].wq, cc'[d].wq)
BY DEF UsesQueue

LEMMA BootUse ==
  ASSUME ControlInv, Boot
  PROVE  \A d \in Container : UsesQueue(cc[d].wq, cc'[d].wq)
<1> DEFINE c == active[idx]
           ccs == [cc EXCEPT ![c].status = "NOT_STARTED"]
<1>1. cc \in [Container -> ContainerType] /\ idx \in Role
  BY ConfigAssumption DEF ControlInv, Boot, TypeOK, Role
<1>2. CASE c = 0
  BY <1>2 DEF Boot, UsesQueue
<1>3. CASE c # 0
  <2>1. c \in Container
    BY <1>1, <1>3 DEF ControlInv, TypeOK
  <2>2. ccs = [cc EXCEPT ![c] = [cc[c] EXCEPT !.status = "NOT_STARTED"]]
    BY <1>1, <2>1
  <2>3. /\ [cc[c] EXCEPT !.status = "NOT_STARTED"] \in ContainerType
        /\ [cc[c] EXCEPT !.status = "NOT_STARTED"].wq = cc[c].wq
    BY <1>1, <2>1 DEF ContainerType, Status
  <2>4. StartGuest(c, ccs, FALSE) /\ FALSE \in BOOLEAN
    BY <1>3 DEF Boot
  <2> HIDE DEF c, ccs
  <2>5. ccs \in [Container -> ContainerType] /\ \A d \in Container : ccs[d].wq = cc[d].wq
    BY <1>1, <2>1, <2>2, <2>3
  <2> QED
    BY <1>1, <2>1, <2>4, <2>5, StartGuestUse
<1> QED
  BY <1>2, <1>3

LEMMA SweepUse ==
  ASSUME ControlInv, Sweep
  PROVE  \A d \in Container : UsesQueue(cc[d].wq, cc'[d].wq)
<1>1. /\ idx \in Container /\ cc \in [Container -> ContainerType] /\ cc[idx] \in ContainerType
      /\ TRUE \in BOOLEAN
  BY SweepFacts DEF Sweep, TypeOK
<1>2. CASE Relaunch(idx)
  BY <1>1, <1>2, StartGuestUse DEF Relaunch
<1>3. CASE Exchange(idx)
  <2> DEFINE c == idx
             a == ActiveOf(c)
             k == [CleanupContainer(cc[c]) EXCEPT !.status = "DISABLE"]
             n == [cc[a] EXCEPT !.status = "NOT_STARTED"]
             ccs == [cc EXCEPT ![c] = [CleanupContainer(@) EXCEPT !.status = "DISABLE"],
                               ![a].status = "NOT_STARTED"]
  <2>1. a # c /\ a # 0 /\ StartGuest(a, ccs, TRUE)
    BY <1>3 DEF Exchange
  <2>2. a \in Container
    BY <1>1, <2>1, ConfigAssumption DEF ControlInv, TypeOK, ActiveOf
  <2>3. k \in ContainerType /\ k.wq = cc[c].wq
    BY <1>1 DEF CleanupContainer, Terminate, ContainerType, Status
  <2>4. n \in ContainerType /\ n.wq = cc[a].wq
    BY <1>1, <2>2 DEF ContainerType, Status
  <2>5. ccs = [cc EXCEPT ![c] = k, ![a] = n]
    BY <1>1, <2>1, <2>2
  <2> HIDE DEF a, k, n, ccs
  <2>6. ccs \in [Container -> ContainerType] /\ \A d \in Container : ccs[d].wq = cc[d].wq
    BY <1>1, <2>1, <2>2, <2>3, <2>4, <2>5
  <2> QED
    BY <1>1, <2>1, <2>2, <2>6, StartGuestUse
<1>4. CASE RunWorker(idx)
  <2> DEFINE k == CleanupContainer(cc[idx])
  <2>1. k \in ContainerType /\ k.wq = cc[idx].wq
    BY <1>1 DEF CleanupContainer, Terminate, ContainerType
  <2>2. \/ cc' = [cc EXCEPT ![idx] = k]
        \/ /\ k.wq.status = "SCHEDULED"
           /\ \E created \in BOOLEAN :
                cc' = [cc EXCEPT ![idx] = [k EXCEPT !.wq = Run(@, created), !.status = "RUN_WORKER"]]
    BY <1>4 DEF RunWorker
  <2> HIDE DEF k
  <2>3. CASE cc' = [cc EXCEPT ![idx] = k]
    BY <1>1, <2>1, <2>3, OneUse DEF UsesQueue
  <2>4. ASSUME k.wq.status = "SCHEDULED", NEW created \in BOOLEAN,
               cc' = [cc EXCEPT ![idx] = [k EXCEPT !.wq = Run(@, created), !.status = "RUN_WORKER"]]
        PROVE  \A d \in Container : UsesQueue(cc[d].wq, cc'[d].wq)
    <3> DEFINE x == [k EXCEPT !.wq = Run(@, created), !.status = "RUN_WORKER"]
    <3>1. x.wq = Run(k.wq, created)
      BY <2>1 DEF ContainerType
    <3>2. cc' = [cc EXCEPT ![idx] = x]
      BY <2>4
    <3> HIDE DEF x
    <3>3. UsesQueue(cc[idx].wq, x.wq)
      BY <2>1, <2>4, <3>1 DEF UsesQueue
    <3> QED
      BY <1>1, <3>2, <3>3, OneUse
  <2> QED
    BY <2>2, <2>3, <2>4
<1>5. CASE FinishWorker(idx)
  <2> DEFINE t == IF cc[idx].wq.after THEN "DEAD" ELSE "NOT_STARTED"
             x == [cc[idx] EXCEPT !.wq = Cleanup(@), !.status = t]
  <2>1. cc' = [cc EXCEPT ![idx] = x] /\ CanCleanup(cc[idx].wq)
    BY <1>1, <1>5 DEF FinishWorker
  <2>2. x.wq = Cleanup(cc[idx].wq)
    BY <1>1 DEF ContainerType
  <2> HIDE DEF x
  <2> QED
    BY <1>1, <2>1, <2>2, OneUse DEF UsesQueue
<1>6. CASE SkipContainer(idx)
  BY <1>6 DEF SkipContainer, UsesQueue
<1> QED
  BY <1>2, <1>3, <1>4, <1>5, <1>6 DEF Sweep

\* Requests do not touch the workqueue: a running worker is cancelled only.
LEMMA RequestUse ==
  ASSUME NEW k \in ContainerType, NEW ok \in BOOLEAN, NEW state \in {"RUN", "SHUTDOWN"}
  PROVE  RequestShutdown(k, state, ok).wq = k.wq /\ RequestReboot(k, state, ok).wq = k.wq
<1>1. \A w, t : StopGuest(k, ok, w, t).wq = k.wq
  <2> SUFFICES ASSUME NEW w, NEW t PROVE StopGuest(k, ok, w, t).wq = k.wq
    OBVIOUS
  <2>1. TimeoutSet(k) \in ContainerType /\ TimeoutSet(k).wq = k.wq
    BY DEF TimeoutSet, ContainerType
  <2>2. Terminate(k) \in ContainerType /\ Terminate(k).wq = k.wq
    BY DEF Terminate, ContainerType
  <2>3. /\ [TimeoutSet(k) EXCEPT !.status = w].wq = k.wq
        /\ [Terminate(k) EXCEPT !.status = t].wq = k.wq
    BY <2>1, <2>2 DEF ContainerType
  <2> QED
    BY <2>3 DEF StopGuest
<1>2. TimeoutSet(k).wq = k.wq /\ \A t : [k EXCEPT !.status = t].wq = k.wq
  BY DEF TimeoutSet, ContainerType
<1>3. RequestShutdown(k, state, ok).wq = k.wq
  BY <1>1, <1>2 DEF RequestShutdown
<1> QED
  BY <1>1, <1>3 DEF RequestReboot

\* Handlers that leave every workqueue alone, and the end of a shutdown.
LEMMA EventUse ==
  ASSUME ControlInv, EventLoop, ~ Boot, ~ Sweep
  PROVE  \A d \in Container : UsesQueue(cc[d].wq, cc'[d].wq)
<1>1. cc \in [Container -> ContainerType]
  BY DEF ControlInv, TypeOK
<1> SUFFICES ASSUME NEW d \in Container
             PROVE  UsesQueue(cc[d].wq, cc'[d].wq)
  OBVIOUS
<1>2. cc[d] \in ContainerType
  BY <1>1
<1>3. CASE BootDone \/ ManagerTerminate
  <2>1. cc' = cc \/ cc'[d] = CleanupContainer(cc[d])
    BY <1>3 DEF BootDone, ManagerTerminate, ExitManager
  <2>2. CleanupContainer(cc[d]).wq = cc[d].wq
    BY <1>2 DEF CleanupContainer, Terminate, ContainerType
  <2> QED
    BY <2>1, <2>2 DEF UsesQueue
<1>4. CASE NetifUpdated \/ TimerTick
  BY <1>4 DEF NetifUpdated, TimerTick, UsesQueue
<1>5. CASE GuestExited
  <2> DEFINE c == Head(queue).container
             s == ExitedStatus(cc[c].status)
             x == [Terminate(cc[c]) EXCEPT !.status = ExitedStatus(@)]
  <2>1. cc' = [cc EXCEPT ![c] = x]
    BY <1>5 DEF GuestExited
  <2>2. CASE c = d
    <3>1. cc'[d] = [cc[d] EXCEPT !.lxc = FALSE, !.status = s]
      BY <1>1, <1>2, <2>1, <2>2 DEF Terminate, ContainerType
    <3> HIDE DEF s
    <3>2. cc'[d].wq = cc[d].wq
      BY <1>2, <3>1 DEF ContainerType
    <3> QED
      BY <3>2 DEF UsesQueue
  <2>3. CASE c # d
    BY <1>1, <2>1, <2>3 DEF UsesQueue
  <2> QED
    BY <2>2, <2>3
<1>6. CASE SystemShutdown
  <2>1. PICK ok \in [Container -> ShutdownAnswers] :
          cc' = [c \in Container |-> RequestShutdown(cc[c], "SHUTDOWN", ok[c])]
    BY <1>6 DEF SystemShutdown
  <2>2. ok[d] \in BOOLEAN
    BY DEF ShutdownAnswers
  <2>3. RequestShutdown(cc[d], "SHUTDOWN", ok[d]).wq = cc[d].wq
    BY <1>2, <2>2, RequestUse
  <2> QED
    BY <2>1, <2>3 DEF UsesQueue
<1>7. CASE Timeouts
  <2> DEFINE t == IF cc[d].status = "REBOOT" THEN "DEAD" ELSE "NOT_STARTED"
  <2>1. cc'[d] = cc[d] \/ cc'[d] = [cc[d] EXCEPT !.lxc = FALSE, !.status = t]
    BY <1>2, <1>7 DEF Timeouts, Terminate, ContainerType
  <2> HIDE DEF t
  <2> QED
    BY <1>2, <2>1 DEF UsesQueue, ContainerType
<1>8. CASE WaitForExit
  <2> DEFINE k == cc[d]
  <2>1. cc'[d] = AfterShutdownEvent(k)
    BY <1>8 DEF WaitForExit
  <2>2. \/ CanCleanup(k.wq) /\ cc'[d] = [k EXCEPT !.wq = Cleanup(@), !.status = "EXIT"]
        \/ cc'[d] \in {k, [k EXCEPT !.status = "EXIT"], [Terminate(k) EXCEPT !.status = "EXIT"]}
    BY <2>1 DEF AfterShutdownEvent
  <2>3. CASE CanCleanup(k.wq) /\ cc'[d] = [k EXCEPT !.wq = Cleanup(@), !.status = "EXIT"]
    <3>1. cc'[d].wq = Cleanup(k.wq)
      BY <1>2, <2>3 DEF ContainerType
    <3> QED
      BY <2>3, <3>1 DEF UsesQueue
  <2>4. CASE cc'[d] \in {k, [k EXCEPT !.status = "EXIT"], [Terminate(k) EXCEPT !.status = "EXIT"]}
    BY <1>2, <2>4 DEF UsesQueue, Terminate, ContainerType
  <2> QED
    BY <2>2, <2>3, <2>4
<1> QED
  BY <1>3, <1>4, <1>5, <1>6, <1>7, <1>8 DEF EventLoop

LEMMA CommandUse ==
  ASSUME ControlInv, Command
  PROVE  \A d \in Container : UsesQueue(cc[d].wq, cc'[d].wq)
<1>1. cc \in [Container -> ContainerType] /\ sys_state \in {"RUN", "SHUTDOWN"}
  BY DEF ControlInv, TypeOK
<1>2. ASSUME NEW c \in Container, CommandShutdown(c) \/ CommandReboot(c)
      PROVE  \A d \in Container : UsesQueue(cc[d].wq, cc'[d].wq)
  <2>1. PICK ok \in BOOLEAN :
          \/ cc' = [cc EXCEPT ![c] = RequestShutdown(cc[c], sys_state, ok)]
          \/ cc' = [cc EXCEPT ![c] = RequestReboot(cc[c], sys_state, ok)]
    BY <1>2 DEF CommandShutdown, CommandReboot, ShutdownAnswers
  <2>2. /\ RequestShutdown(cc[c], sys_state, ok).wq = cc[c].wq
        /\ RequestReboot(cc[c], sys_state, ok).wq = cc[c].wq
    BY <1>1, RequestUse
  <2> QED
    BY <1>1, <2>1, <2>2, OneUse DEF UsesQueue
<1>3. ASSUME NEW c \in Container, CommandForceReboot(c) \/ CommandChange(c)
      PROVE  \A d \in Container : UsesQueue(cc[d].wq, cc'[d].wq)
  BY <1>3 DEF CommandForceReboot, CommandChange, UsesQueue
<1>4. ASSUME NEW c \in TestTargets, CommandTest(c)
      PROVE  \A d \in Container : UsesQueue(cc[d].wq, cc'[d].wq)
  <2>1. c \in Container
    BY ConfigAssumption
  <2>2. PICK k \in ScheduleOutcomes(cc[c], "test") : cc' = [cc EXCEPT ![c] = k]
    BY <1>4 DEF CommandTest
  <2>3. UsesQueue(cc[c].wq, k.wq)
    BY <1>1, <2>1, ScheduleUse
  <2> QED
    BY <1>1, <2>1, <2>2, <2>3, OneUse
<1> QED
  BY <1>2, <1>3, <1>4 DEF Command

\* The environment: a worker thread sets COMPLETED.
LEMMA EnvironmentUse ==
  ASSUME ControlInv, Environment
  PROVE  \A d \in Container : UsesQueue(cc[d].wq, cc'[d].wq)
<1>1. cc \in [Container -> ContainerType]
  BY DEF ControlInv, TypeOK
<1>2. ASSUME NEW c \in Container, WorkerEnds(c)
      PROVE  \A d \in Container : UsesQueue(cc[d].wq, cc'[d].wq)
  <2> DEFINE x == [cc[c] EXCEPT !.wq = Complete(@)]
  <2>1. cc[c].wq.thread /\ cc' = [cc EXCEPT ![c] = x]
    BY <1>1, <1>2 DEF WorkerEnds
  <2>2. x.wq = Complete(cc[c].wq)
    BY <1>1 DEF ContainerType
  <2> HIDE DEF x
  <2>3. UsesQueue(cc[c].wq, x.wq)
    BY <2>1, <2>2 DEF UsesQueue
  <2> QED
    BY <1>1, <2>1, <2>3, OneUse
<1>3. ASSUME NEW c \in Container, GuestExits(c) \/ DeadlinePasses(c)
      PROVE  \A d \in Container : UsesQueue(cc[d].wq, cc'[d].wq)
  <2>1. PICK x \in {[cc[c] EXCEPT !.source = IF @ = "live" THEN "dead" ELSE @], [cc[c] EXCEPT !.expired = TRUE]} :
          cc' = [cc EXCEPT ![c] = x]
    BY <1>1, <1>3 DEF GuestExits, DeadlinePasses
  <2>2. x.wq = cc[c].wq
    BY <1>1 DEF ContainerType
  <2> QED
    BY <1>1, <2>1, <2>2, OneUse DEF UsesQueue
<1>4. CASE UNCHANGED cc
  BY <1>4 DEF UsesQueue
<1> QED
  BY <1>2, <1>3, <1>4 DEF Environment, RootDeviceAppears, DiskDamaged, ManagerWorkerEnds

LEMMA NextUse ==
  ASSUME ControlInv, [Next]_vars
  PROVE  \A d \in Container : UsesQueue(cc[d].wq, cc'[d].wq)
<1>1. CASE EventLoop
  BY <1>1, BootUse, SweepUse, EventUse
<1>2. CASE \E c \in Container : PidfdReady(c)
  <2>1. PICK c \in Container : cc' = [cc EXCEPT ![c].source = "none"]
    BY <1>2 DEF PidfdReady
  <2>2. cc \in [Container -> ContainerType]
    BY DEF ControlInv, TypeOK
  <2> DEFINE x == [cc[c] EXCEPT !.source = "none"]
  <2>3. cc' = [cc EXCEPT ![c] = x] /\ x.wq = cc[c].wq
    BY <2>1, <2>2 DEF ContainerType
  <2> HIDE DEF x
  <2> QED
    BY <2>2, <2>3, OneUse DEF UsesQueue
<1>3. CASE TimerFires \/ Sigterm \/ Terminated \/ UNCHANGED vars
  BY <1>3 DEF TimerFires, Sigterm, Terminated, vars, UsesQueue
<1> QED
  BY <1>1, <1>2, <1>3, CommandUse, EnvironmentUse DEF Next

LEMMA QueueInit ==
  ASSUME Init, NEW c \in Container
  PROVE  Queue(c)!Init
<1>1. cc[c].wq = InitialWorkqueue
  BY DEF Init
<1> QED
  BY <1>1 DEF Queue!Init, Queue!InitialWorkqueue, InitialWorkqueue

\* For every container the handlers keep to the protocol of its workqueue,
\* whatever fails and in whatever order commands, exits and threads come: no job
\* is replaced, run twice, or cleaned up before its thread has set COMPLETED.
THEOREM QueuesAreUsedWell == Spec => WorkqueueUse
<1>1. Init => \A c \in Container : Queue(c)!Init
  BY QueueInit
<1>2. ControlInv /\ [Next]_vars => [\A c \in Container : [Queue(c)!Next]_(cc[c].wq)]_vars
  BY NextUse, UseIsStep
<1> QED
  BY <1>1, <1>2, ControlInvariant, PTL DEF Spec, WorkqueueUse

\* The same, container by container: each workqueue is used as WorkqueueService
\* specifies, which WorkqueueThread implements.
THEOREM QueueSpecIsKept == Spec => \A c \in Container : Queue(c)!Spec
<1> SUFFICES ASSUME NEW c \in Container PROVE Spec => Queue(c)!Spec
  OBVIOUS
<1>1. Init => Queue(c)!Init
  BY QueueInit
<1>2. ControlInv /\ [Next]_vars => [Queue(c)!Next]_(cc[c].wq)
  BY NextUse, UseIsStep
<1> QED
  BY <1>1, <1>2, ControlInvariant, PTL DEF Spec, Queue!Spec

-----------------------------------------------------------------------------
(***************************************************************************)
(* The service of a role.                                                  *)
(***************************************************************************)

\* The values of the refinement mapping, of the containers f and the guests g.
ServiceIn(f, r) ==
  {[container |-> c, status |-> f[c].status] : c \in {d \in GuestsOf(r) : f[d].status # "DISABLE"}}
RunningIn(g, r) == {c \in GuestsOf(r) : g[c] = "up"}
ServedBy(c, status) == {[container |-> c, status |-> status]}

\* RoleExclusive, and: a guest runs only in the states in which it is waited for.
Exclusive(f) ==
  \A c, d \in Container :
    c # d /\ RoleOf[c] = RoleOf[d] => f[c].status = "DISABLE" \/ f[d].status = "DISABLE"
GuestsLive(f, g) == \A c \in Container : g[c] = "up" => f[c].status \in Running

LEMMA Mapping ==
  ASSUME NEW r
  PROVE  /\ Service(r)!vars = <<ServiceIn(cc, r), RunningIn(guest, r), active[r], sys_state>>
         /\ Service(r)!vars' = <<ServiceIn(cc', r), RunningIn(guest', r), active'[r], sys_state'>>
BY DEF Service!vars, ServiceIn, RunningIn, GuestsOf

LEMMA ServedByOne ==
  ASSUME NEW f, Exclusive(f), NEW c \in Container, f[c].status # "DISABLE"
  PROVE  ServiceIn(f, RoleOf[c]) = ServedBy(c, f[c].status)
BY DEF Exclusive, ServiceIn, ServedBy, GuestsOf

LEMMA ServedByNone ==
  ASSUME NEW f, NEW r, \A c \in GuestsOf(r) : f[c].status = "DISABLE"
  PROVE  ServiceIn(f, r) = {}
BY DEF ServiceIn

LEMMA OnlyServerRuns ==
  ASSUME NEW f, NEW g, Exclusive(f), GuestsLive(f, g), NEW c \in Container, f[c].status # "DISABLE"
  PROVE  RunningIn(g, RoleOf[c]) = IF g[c] = "up" THEN {c} ELSE {}
<1>1. \A d \in GuestsOf(RoleOf[c]) : d # c => g[d] # "up"
  BY DEF Exclusive, GuestsLive, GuestsOf, Running
<1> QED
  BY <1>1 DEF RunningIn, GuestsOf

LEMMA NobodyRuns ==
  ASSUME NEW f, NEW g, GuestsLive(f, g), NEW r, \A c \in GuestsOf(r) : f[c].status = "DISABLE"
  PROVE  RunningIn(g, r) = {}
BY DEF GuestsLive, RunningIn, GuestsOf, Running

\* While the manager runs, ControlInv and GuestInv give both.
LEMMA MappingInv ==
  ASSUME ControlInv, GuestInv
  PROVE  /\ Exclusive(cc)
         /\ pc # "exited" => GuestsLive(cc, guest)
BY DEF ControlInv, RoleExclusive, Exclusive, InstanceMatchesStatus, GuestInv, GuestsLive, Running

\* A step that starts no guest: each container keeps its status or moves.
QuietMoves(r, moves) ==
  /\ UNCHANGED active
  /\ \A c \in GuestsOf(r) :
       /\ cc'[c].status = cc[c].status \/ <<cc[c].status, cc'[c].status>> \in moves
       /\ guest'[c] = "up" => guest[c] = "up"
       /\ cc'[c].status \in Running /\ guest[c] = "up" => guest'[c] = "up"

LEMMA QuietRefines ==
  ASSUME ControlInv, GuestInv, ControlInv', GuestInv', pc # "exited", pc' # "exited",
         NEW r \in Role, NEW moves, QuietMoves(r, moves),
         \A m \in moves : m[1] # "DISABLE" /\ m[2] # "DISABLE"
  PROVE  \/ /\ ServiceIn(cc', r) = ServiceIn(cc, r) /\ RunningIn(guest', r) = RunningIn(guest, r)
            /\ \A c \in GuestsOf(r) : cc'[c].status = cc[c].status
         \/ Service(r)!Move(moves)
<1>1. /\ Exclusive(cc) /\ GuestsLive(cc, guest)
      /\ Exclusive(cc') /\ GuestsLive(cc', guest')
  <2>1. Exclusive(cc) /\ GuestsLive(cc, guest)
    BY MappingInv
  <2>2. Exclusive(cc') /\ GuestsLive(cc', guest')
    BY DEF ControlInv, RoleExclusive, Exclusive, InstanceMatchesStatus, GuestInv, GuestsLive, Running
  <2> QED
    BY <2>1, <2>2
<1>2. \A c \in GuestsOf(r) : cc'[c].status = "DISABLE" <=> cc[c].status = "DISABLE"
  <2> TAKE c \in GuestsOf(r)
  <2> DEFINE m == <<cc[c].status, cc'[c].status>>
  <2>1. m[1] = cc[c].status /\ m[2] = cc'[c].status
    OBVIOUS
  <2>2. cc'[c].status = cc[c].status \/ m \in moves
    BY DEF QuietMoves
  <2> HIDE DEF m
  <2> QED
    BY <2>1, <2>2
<1>3. CASE \A c \in GuestsOf(r) : cc[c].status = "DISABLE"
  <2>1. \A c \in GuestsOf(r) : cc'[c].status = "DISABLE"
    BY <1>2, <1>3
  <2> QED
    BY <1>1, <1>3, <2>1, ServedByNone, NobodyRuns
<1>4. ASSUME NEW c \in GuestsOf(r), cc[c].status # "DISABLE"
      PROVE  \/ /\ ServiceIn(cc', r) = ServiceIn(cc, r) /\ RunningIn(guest', r) = RunningIn(guest, r)
                /\ \A d \in GuestsOf(r) : cc'[d].status = cc[d].status
             \/ Service(r)!Move(moves)
  <2>1. c \in Container /\ RoleOf[c] = r /\ cc'[c].status # "DISABLE"
    BY <1>2, <1>4 DEF GuestsOf
  <2>2. /\ ServiceIn(cc, r) = ServedBy(c, cc[c].status)
        /\ ServiceIn(cc', r) = ServedBy(c, cc'[c].status)
    BY <1>1, <1>4, <2>1, ServedByOne
  <2>3. /\ RunningIn(guest, r) = IF guest[c] = "up" THEN {c} ELSE {}
        /\ RunningIn(guest', r) = IF guest'[c] = "up" THEN {c} ELSE {}
    BY <1>1, <1>4, <2>1, OnlyServerRuns
  <2>4. /\ guest'[c] = "up" => guest[c] = "up" /\ cc'[c].status \in Running
        /\ guest[c] = "up" => cc[c].status \in Running
        /\ cc'[c].status \in Running /\ guest[c] = "up" => guest'[c] = "up"
    BY <1>1, <2>1 DEF QuietMoves, GuestsLive
  <2>5. CASE cc'[c].status = cc[c].status
    <3>1. \A d \in GuestsOf(r) : d # c => cc[d].status = "DISABLE" /\ cc'[d].status = "DISABLE"
      BY <1>1, <1>4, <2>1 DEF Exclusive, GuestsOf
    <3> QED
      BY <2>2, <2>3, <2>4, <2>5, <3>1
  <2>6. CASE <<cc[c].status, cc'[c].status>> \in moves
    <3> DEFINE m == <<cc[c].status, cc'[c].status>>
    <3>1. m[1] = cc[c].status /\ m[2] = cc'[c].status /\ m \in moves
      BY <2>6
    <3> HIDE DEF m
    <3>2. RunningIn(guest', r) = IF cc'[c].status \in Running THEN RunningIn(guest, r) ELSE {}
      BY <2>3, <2>4
    <3>3. /\ ServiceIn(cc, r) = Service(r)!Serves(c, m[1])
          /\ ServiceIn(cc', r) = Service(r)!Serves(c, m[2])
          /\ RunningIn(guest', r) = IF m[2] \in Service(r)!Live THEN RunningIn(guest, r) ELSE {}
      BY <2>2, <3>1, <3>2 DEF ServedBy, Service!Serves, Service!Live, Running
    <3>4. c \in GuestsOf(r) /\ active'[r] = active[r]
      BY DEF QuietMoves
    <3> QED
      BY <3>1, <3>3, <3>4 DEF Service!Move, ServiceIn, RunningIn
  <2> QED
    BY <2>5, <2>6 DEF QuietMoves
<1> QED
  BY <1>3, <1>4

RoleStep(r) == [Service(r)!Next]_(Service(r)!vars)

RunMoves ==
  {<<"STARTED", "SHUTDOWN">>, <<"STARTED", "REBOOT">>,
   <<"STARTED", "DEAD">>, <<"REBOOT", "DEAD">>,
   <<"STARTED", "NOT_STARTED">>, <<"SHUTDOWN", "NOT_STARTED">>, <<"DEAD", "NOT_STARTED">>,
   <<"RUN_WORKER", "NOT_STARTED">>, <<"RUN_WORKER", "DEAD">>}

EndingMoves ==
  {<<"STARTED", "SHUTDOWN">>, <<"REBOOT", "SHUTDOWN">>,
   <<"STARTED", "EXIT">>, <<"SHUTDOWN", "EXIT">>, <<"DEAD", "EXIT">>, <<"NOT_STARTED", "EXIT">>,
   <<"RUN_WORKER", "EXIT">>}

LEMMA MoveSets ==
  ASSUME NEW r
  PROVE  /\ RunMoves = Service(r)!StopMoves \cup Service(r)!EndMoves \cup Service(r)!WorkerEndMoves
         /\ EndingMoves = Service(r)!ShutdownMoves
         /\ \A m \in RunMoves \cup EndingMoves : m[1] # "DISABLE" /\ m[2] # "DISABLE"
<1>1. RunMoves = Service(r)!StopMoves \cup Service(r)!EndMoves \cup Service(r)!WorkerEndMoves
  BY DEF RunMoves, Service!StopMoves, Service!EndMoves, Service!WorkerEndMoves
<1>2. EndingMoves = Service(r)!ShutdownMoves
  BY DEF EndingMoves, Service!ShutdownMoves
<1>3. \A m \in RunMoves \cup EndingMoves : m[1] # "DISABLE" /\ m[2] # "DISABLE"
  BY DEF RunMoves, EndingMoves
<1> QED
  BY <1>1, <1>2, <1>3

\* A handler of the run state that starts no guest and no worker.
LEMMA RunRefines ==
  ASSUME ControlInv, GuestInv, ControlInv', GuestInv', pc # "exited", pc' # "exited",
         sys_state = "RUN", sys_state' = "RUN",
         NEW r \in Role, QuietMoves(r, RunMoves)
  PROVE  RoleStep(r)
<1>1. \/ ServiceIn(cc', r) = ServiceIn(cc, r) /\ RunningIn(guest', r) = RunningIn(guest, r)
      \/ Service(r)!Move(RunMoves)
  BY QuietRefines, MoveSets
<1>2. CASE ServiceIn(cc', r) = ServiceIn(cc, r) /\ RunningIn(guest', r) = RunningIn(guest, r)
  <2>1. Service(r)!vars' = Service(r)!vars
    BY <1>2, Mapping DEF QuietMoves
  <2> QED
    BY <2>1 DEF RoleStep
<1>3. CASE Service(r)!Move(RunMoves)
  <2>1. Service(r)!LifeCycle
    BY <1>3, MoveSets DEF Service!LifeCycle
  <2> QED
    BY <2>1 DEF RoleStep, Service!Next
<1> QED
  BY <1>1, <1>2, <1>3

\* A handler of the shutdown state.
LEMMA ShutdownRefines ==
  ASSUME ControlInv, GuestInv, ControlInv', GuestInv', pc # "exited", pc' # "exited",
         sys_state = "SHUTDOWN", sys_state' = "SHUTDOWN",
         NEW r \in Role, QuietMoves(r, EndingMoves)
  PROVE  RoleStep(r)
<1>1. \/ ServiceIn(cc', r) = ServiceIn(cc, r) /\ RunningIn(guest', r) = RunningIn(guest, r)
      \/ Service(r)!Move(EndingMoves)
  BY QuietRefines, MoveSets
<1>2. CASE ServiceIn(cc', r) = ServiceIn(cc, r) /\ RunningIn(guest', r) = RunningIn(guest, r)
  <2>1. Service(r)!vars' = Service(r)!vars
    BY <1>2, Mapping DEF QuietMoves
  <2> QED
    BY <2>1 DEF RoleStep
<1>3. CASE Service(r)!Move(EndingMoves)
  <2>1. Service(r)!ShutdownGoesOn
    BY <1>3, MoveSets DEF Service!ShutdownGoesOn
  <2> QED
    BY <2>1 DEF RoleStep, Service!Next
<1> QED
  BY <1>1, <1>2, <1>3

\* A step that leaves the status of each container alone and starts no guest.
LEMMA SameRefines ==
  ASSUME \A c \in Container : cc'[c].status = cc[c].status, UNCHANGED <<guest, active, sys_state>>,
         NEW r \in Role
  PROVE  RoleStep(r)
<1>1. ServiceIn(cc', r) = ServiceIn(cc, r) /\ RunningIn(guest', r) = RunningIn(guest, r)
  BY DEF ServiceIn, RunningIn, GuestsOf
<1>2. Service(r)!vars' = Service(r)!vars
  BY <1>1, Mapping
<1> QED
  BY <1>2 DEF RoleStep

\* The guest of c ends or is killed; no container changes its status.
LEMMA EndRefines ==
  ASSUME \A d \in Container : cc'[d].status = cc[d].status, UNCHANGED <<active, sys_state>>,
         guest \in [Container -> {"none", "up", "killed"}], NEW c \in Container,
         NEW g \in {guest[c], "none", "killed"}, guest' = [guest EXCEPT ![c] = g], NEW r \in Role
  PROVE  RoleStep(r)
<1>1. ServiceIn(cc', r) = ServiceIn(cc, r)
  BY DEF ServiceIn, GuestsOf
<1>2. RunningIn(guest', r) = RunningIn(guest, r)
      \/ (c \in RunningIn(guest, r) /\ RunningIn(guest', r) = RunningIn(guest, r) \ {c})
  BY DEF RunningIn, GuestsOf
<1>3. CASE RunningIn(guest', r) = RunningIn(guest, r)
  <2>1. Service(r)!vars' = Service(r)!vars
    BY <1>1, <1>3, Mapping
  <2> QED
    BY <2>1 DEF RoleStep
<1>4. CASE c \in RunningIn(guest, r) /\ RunningIn(guest', r) = RunningIn(guest, r) \ {c}
  <2>1. Service(r)!GuestEnds
    BY <1>1, <1>4 DEF Service!GuestEnds, ServiceIn, RunningIn
  <2> QED
    BY <2>1 DEF RoleStep, Service!Next
<1> QED
  BY <1>2, <1>3, <1>4

\* What a request makes of the status, in each system state.
LEMMA RequestMoves ==
  ASSUME NEW k \in ContainerType, NEW ok \in BOOLEAN, NEW state \in {"RUN", "SHUTDOWN"},
         NEW x \in {RequestShutdown(k, state, ok), RequestReboot(k, state, ok)}
  PROVE  /\ state = "RUN" => x.status = k.status \/ <<k.status, x.status>> \in RunMoves
         /\ state = "SHUTDOWN" => x.status = k.status \/ <<k.status, x.status>> \in EndingMoves
         /\ Kills(k, ok) => x.status \notin Running
<1>1. ASSUME NEW w, NEW t
      PROVE  StopGuest(k, ok, w, t).status = IF ok THEN w ELSE t
  <2>1. TimeoutSet(k) \in ContainerType /\ Terminate(k) \in ContainerType
    BY DEF TimeoutSet, Terminate, ContainerType
  <2>2. /\ [TimeoutSet(k) EXCEPT !.status = w].status = w
        /\ [Terminate(k) EXCEPT !.status = t].status = t
    BY <2>1 DEF ContainerType
  <2> QED
    BY <2>2 DEF StopGuest
<1>2. TimeoutSet(k).status = k.status /\ \A t : [k EXCEPT !.status = t].status = t
  BY DEF TimeoutSet, ContainerType
<1>3. CASE state = "RUN"
  <2>1. x.status \in
          IF k.status = "STARTED"
          THEN IF ok THEN {"SHUTDOWN", "REBOOT"} ELSE {"NOT_STARTED", "DEAD"}
          ELSE IF k.status = "DEAD" THEN {"DEAD", "NOT_STARTED"} ELSE {k.status}
    <3>1. CASE x = RequestShutdown(k, state, ok)
      BY <1>1, <1>2, <1>3, <3>1 DEF RequestShutdown
    <3>2. CASE x = RequestReboot(k, state, ok)
      BY <1>1, <1>3, <3>2 DEF RequestReboot
    <3> QED
      BY <3>1, <3>2
  <2> QED
    BY <1>3, <2>1 DEF RunMoves, Kills, Running
<1>4. CASE state = "SHUTDOWN"
  <2>1. x = k \/ x = RequestShutdown(k, state, ok)
    BY <1>4 DEF RequestReboot
  <2>2. RequestShutdown(k, state, ok).status =
          IF k.status = "STARTED" THEN IF ok THEN "SHUTDOWN" ELSE "EXIT"
          ELSE IF k.status = "REBOOT" THEN "SHUTDOWN"
          ELSE IF k.status \in {"NOT_STARTED", "DEAD"} THEN "EXIT" ELSE k.status
    BY <1>1, <1>2, <1>4 DEF RequestShutdown
  <2>3. Kills(k, ok) => x = RequestShutdown(k, state, ok)
    BY <1>4 DEF RequestReboot, Kills
  <2> QED
    BY <1>4, <2>1, <2>2, <2>3 DEF EndingMoves, Kills, Running
<1> QED
  BY <1>3, <1>4

\* container_request_shutdown and container_request_reboot of one guest.
LEMMA RequestRefines ==
  ASSUME ControlInv, GuestInv, ControlInv', GuestInv', Idle, NEW c \in Container,
         CommandShutdown(c) \/ CommandReboot(c), NEW r \in Role
  PROVE  RoleStep(r)
<1>1. /\ pc = "idle" /\ pc' = "idle" /\ sys_state' = sys_state /\ sys_state \in {"RUN", "SHUTDOWN"}
      /\ active' = active
      /\ cc \in [Container -> ContainerType] /\ guest \in [Container -> {"none", "up", "killed"}]
  BY DEF CommandShutdown, CommandReboot, CommandUnchanged, Idle, ControlInv, TypeOK
<1>2. \E ok \in BOOLEAN : \E x \in {RequestShutdown(cc[c], sys_state, ok), RequestReboot(cc[c], sys_state, ok)} :
        /\ cc' = [cc EXCEPT ![c] = x]
        /\ guest' = [guest EXCEPT ![c] = IF Kills(cc[c], ok) THEN ForceKill(cc[c], @) ELSE @]
  <2>1. CASE CommandShutdown(c)
    BY <2>1 DEF CommandShutdown, ShutdownAnswers
  <2>2. CASE CommandReboot(c)
    BY <2>2 DEF CommandReboot, ShutdownAnswers
  <2> QED
    BY <2>1, <2>2
<1>3. PICK ok \in BOOLEAN :
      \E x \in {RequestShutdown(cc[c], sys_state, ok), RequestReboot(cc[c], sys_state, ok)} :
        /\ cc' = [cc EXCEPT ![c] = x]
        /\ guest' = [guest EXCEPT ![c] = IF Kills(cc[c], ok) THEN ForceKill(cc[c], @) ELSE @]
  BY <1>2
<1>4. PICK x \in {RequestShutdown(cc[c], sys_state, ok), RequestReboot(cc[c], sys_state, ok)} :
        /\ cc' = [cc EXCEPT ![c] = x]
        /\ guest' = [guest EXCEPT ![c] = IF Kills(cc[c], ok) THEN ForceKill(cc[c], @) ELSE @]
  BY <1>3
<1>5. /\ sys_state = "RUN" => x.status = cc[c].status \/ <<cc[c].status, x.status>> \in RunMoves
      /\ sys_state = "SHUTDOWN" => x.status = cc[c].status \/ <<cc[c].status, x.status>> \in EndingMoves
      /\ Kills(cc[c], ok) => x.status \notin Running
  BY <1>1, RequestMoves
<1>6. /\ cc'[c] = x /\ \A d \in Container : d # c => cc'[d] = cc[d] /\ guest'[d] = guest[d]
      /\ guest'[c] \in {guest[c], "killed"}
      /\ guest'[c] # guest[c] => Kills(cc[c], ok)
  BY <1>1, <1>4 DEF ForceKill
<1>7. ASSUME NEW moves, x.status = cc[c].status \/ <<cc[c].status, x.status>> \in moves
      PROVE  QuietMoves(r, moves)
  BY <1>1, <1>5, <1>6, <1>7 DEF QuietMoves, GuestsOf
<1>8. CASE sys_state = "RUN"
  BY <1>1, <1>5, <1>7, <1>8, RunRefines
<1>9. CASE sys_state = "SHUTDOWN"
  BY <1>1, <1>5, <1>7, <1>9, ShutdownRefines
<1> QED
  BY <1>1, <1>8, <1>9

LEMMA CommandRefines ==
  ASSUME ControlInv, GuestInv, ControlInv', GuestInv', Command, NEW r \in Role
  PROVE  RoleStep(r)
<1>1. /\ cc \in [Container -> ContainerType] /\ guest \in [Container -> {"none", "up", "killed"}]
      /\ active \in [Role -> Container \cup {0}]
  BY DEF ControlInv, TypeOK
<1>2. ASSUME NEW c \in Container, CommandShutdown(c) \/ CommandReboot(c) PROVE RoleStep(r)
  <2>1. Idle
    BY <1>2 DEF CommandShutdown, CommandReboot
  <2> QED
    BY <1>2, <2>1, RequestRefines
<1>3. ASSUME NEW c \in Container, CommandForceReboot(c) PROVE RoleStep(r)
  <2> DEFINE g == ForceKill(cc[c], guest[c])
  <2>1. UNCHANGED <<cc, active, sys_state>> /\ guest' = [guest EXCEPT ![c] = g]
    BY <1>1, <1>3 DEF CommandForceReboot, CommandUnchanged
  <2>2. g \in {guest[c], "none", "killed"}
    BY DEF ForceKill
  <2> HIDE DEF g
  <2> QED
    BY <1>1, <2>1, <2>2, EndRefines
<1>4. ASSUME NEW c \in Container, CommandChange(c) PROVE RoleStep(r)
  <2>1. /\ UNCHANGED <<cc, guest, sys_state>> /\ active[RoleOf[c]] # 0
        /\ active' = [active EXCEPT ![RoleOf[c]] = c]
    BY <1>4 DEF CommandChange, CommandUnchanged, ActiveOf
  <2>2. ServiceIn(cc', r) = ServiceIn(cc, r) /\ RunningIn(guest', r) = RunningIn(guest, r)
    BY <2>1
  <2>3. CASE RoleOf[c] = r
    <3>1. active'[r] = c /\ active[r] # 0 /\ c \in GuestsOf(r)
      BY <1>1, <2>1, <2>3 DEF GuestsOf
    <3>2. Service(r)!Choose
      BY <2>1, <2>2, <3>1 DEF Service!Choose, ServiceIn, RunningIn
    <3> QED
      BY <3>2 DEF RoleStep, Service!Next
  <2>4. CASE RoleOf[c] # r
    <3>1. active'[r] = active[r]
      BY <1>1, <2>1, <2>4
    <3>2. Service(r)!vars' = Service(r)!vars
      BY <2>1, <2>2, <3>1, Mapping
    <3> QED
      BY <3>2 DEF RoleStep
  <2> QED
    BY <2>3, <2>4
<1>5. ASSUME NEW c \in TestTargets, CommandTest(c) PROVE RoleStep(r)
  <2>1. PICK k \in {cc[c], [cc[c] EXCEPT !.wq = Schedule(@, "test", TRUE)]} : cc' = [cc EXCEPT ![c] = k]
    BY <1>5 DEF CommandTest, ScheduleOutcomes
  <2>2. k.status = cc[c].status
    <3>1. cc[c] \in ContainerType
      BY <1>1, ConfigAssumption
    <3> DEFINE w == Schedule(cc[c].wq, "test", TRUE)
    <3>2. k = cc[c] \/ k = [cc[c] EXCEPT !.wq = w]
      OBVIOUS
    <3> HIDE DEF w
    <3> QED
      BY <3>1, <3>2 DEF ContainerType
  <2>3. UNCHANGED <<guest, active, sys_state>> /\ \A d \in Container : cc'[d].status = cc[d].status
    BY <1>1, <1>5, <2>1, <2>2 DEF CommandTest, CommandUnchanged
  <2> QED
    BY <2>3, SameRefines
<1> QED
  BY <1>2, <1>3, <1>4, <1>5 DEF Command

\* container_exited: the guest is not running any more when the loop learns of
\* its end (NoStaleExit).
LEMMA ExitedRefines ==
  ASSUME ControlInv, GuestInv, ControlInv', GuestInv', GuestExited, NEW r \in Role
  PROVE  RoleStep(r)
<1> DEFINE c == Head(queue).container
           t == ExitedStatus(cc[c].status)
<1>1. /\ pc = "idle" /\ pc' # "exited" /\ sys_state' = sys_state /\ sys_state \in {"RUN", "SHUTDOWN"}
      /\ UNCHANGED <<active, guest>> /\ cc \in [Container -> ContainerType]
  BY DEF GuestExited, Receive, ControlInv, TypeOK
<1>2. Head(queue) \in Messages /\ Head(queue).command = "GUEST_EXIT"
  BY ReceiveFacts DEF GuestExited, ControlInv, TypeOK
<1>3. c \in Container
  BY <1>2 DEF Messages
<1>4. Terminate(cc[c]) \in ContainerType /\ Terminate(cc[c]).status = cc[c].status
  BY <1>1, <1>3 DEF Terminate, ContainerType
<1>5. cc' = [cc EXCEPT ![c] = [Terminate(cc[c]) EXCEPT !.status = t]]
  BY <1>4 DEF GuestExited
<1>6. /\ t = cc[c].status \/ sys_state # "RUN" \/ <<cc[c].status, t>> \in RunMoves
      /\ t = cc[c].status \/ sys_state # "SHUTDOWN" \/ <<cc[c].status, t>> \in EndingMoves
  <2>1. sys_state = "SHUTDOWN" => cc[c].status \in {"SHUTDOWN", "EXIT", "DISABLE", "RUN_WORKER"}
    BY <1>3 DEF ControlInv, NoLaunchInShutdown
  <2> QED
    BY <1>1, <2>1 DEF ExitedStatus, RunMoves, EndingMoves
<1> HIDE DEF c, t
<1>7. cc'[c].status = t /\ \A d \in Container : d # c => cc'[d] = cc[d]
  BY <1>1, <1>3, <1>4, <1>5 DEF ContainerType
<1>8. ASSUME NEW moves, t = cc[c].status \/ <<cc[c].status, t>> \in moves
      PROVE  QuietMoves(r, moves)
  BY <1>1, <1>7, <1>8 DEF QuietMoves, GuestsOf
<1>9. CASE sys_state = "RUN"
  BY <1>1, <1>6, <1>8, <1>9, RunRefines
<1>10. CASE sys_state = "SHUTDOWN"
  BY <1>1, <1>6, <1>8, <1>10, ShutdownRefines
<1> QED
  BY <1>1, <1>9, <1>10

\* container_manager_shutdown takes every role at once.
LEMMA SystemShutdownRefines ==
  ASSUME ControlInv, GuestInv, ControlInv', GuestInv', SystemShutdown, NEW r \in Role
  PROVE  RoleStep(r)
<1>1. /\ pc = "idle" /\ pc' = "shutdown" /\ sys_state' = "SHUTDOWN" /\ active' = active
      /\ cc \in [Container -> ContainerType] /\ guest \in [Container -> {"none", "up", "killed"}]
  BY DEF SystemShutdown, Receive, ControlInv, TypeOK
<1>2. PICK ok \in [Container -> ShutdownAnswers] :
        /\ cc' = [c \in Container |-> RequestShutdown(cc[c], "SHUTDOWN", ok[c])]
        /\ guest' = [c \in Container |->
                       IF Kills(cc[c], ok[c]) THEN ForceKill(cc[c], guest[c]) ELSE guest[c]]
  BY DEF SystemShutdown
<1>3. QuietMoves(r, EndingMoves)
  <2> SUFFICES ASSUME NEW c \in GuestsOf(r)
               PROVE  /\ cc'[c].status = cc[c].status \/ <<cc[c].status, cc'[c].status>> \in EndingMoves
                      /\ guest'[c] = "up" => guest[c] = "up"
                      /\ cc'[c].status \in Running /\ guest[c] = "up" => guest'[c] = "up"
    BY <1>1 DEF QuietMoves
  <2>1. c \in Container /\ cc[c] \in ContainerType /\ ok[c] \in BOOLEAN
    BY <1>1 DEF GuestsOf, ShutdownAnswers
  <2>2. cc'[c] = RequestShutdown(cc[c], "SHUTDOWN", ok[c])
    BY <1>2, <2>1
  <2>3. /\ guest'[c] \in {guest[c], "killed"}
        /\ guest'[c] # guest[c] => Kills(cc[c], ok[c])
    BY <1>2, <2>1 DEF ForceKill
  <2>4. /\ cc'[c].status = cc[c].status \/ <<cc[c].status, cc'[c].status>> \in EndingMoves
        /\ Kills(cc[c], ok[c]) => cc'[c].status \notin Running
    BY <2>1, <2>2, RequestMoves
  <2> QED
    BY <2>3, <2>4
<1>4. \/ /\ ServiceIn(cc', r) = ServiceIn(cc, r) /\ RunningIn(guest', r) = RunningIn(guest, r)
         /\ \A c \in GuestsOf(r) : cc'[c].status = cc[c].status
      \/ Service(r)!Move(EndingMoves)
  BY <1>1, <1>3, QuietRefines, MoveSets
<1>5. \A c \in GuestsOf(r) : cc'[c].status \in {"SHUTDOWN", "EXIT", "DISABLE", "RUN_WORKER"}
  BY <1>1 DEF ControlInv, NoLaunchInShutdown, GuestsOf
<1>6. CASE /\ ServiceIn(cc', r) = ServiceIn(cc, r) /\ RunningIn(guest', r) = RunningIn(guest, r)
           /\ \A c \in GuestsOf(r) : cc'[c].status = cc[c].status
  <2>1. \A s \in ServiceIn(cc, r) : s.status \in {"SHUTDOWN", "RUN_WORKER", "EXIT"}
    BY <1>5, <1>6 DEF ServiceIn
  <2>2. Service(r)!SystemShutdown
    BY <1>1, <1>6, <2>1 DEF Service!SystemShutdown, ServiceIn, RunningIn
  <2> QED
    BY <2>2 DEF RoleStep, Service!Next
<1>7. CASE Service(r)!Move(EndingMoves)
  <2>1. Service(r)!SystemShutdown
    BY <1>1, <1>7, MoveSets DEF Service!SystemShutdown
  <2> QED
    BY <2>1 DEF RoleStep, Service!Next
<1> QED
  BY <1>4, <1>6, <1>7

\* The deadlines: a guest that is given up is killed in the same step.
LEMMA DeadlineRefines ==
  ASSUME ControlInv, GuestInv, ControlInv', GuestInv', Timeouts \/ WaitForExit, NEW r \in Role
  PROVE  RoleStep(r)
<1>1. /\ pc \in {"timeouts", "shutdown"} /\ pc' = "idle" /\ UNCHANGED <<active, sys_state>>
      /\ cc \in [Container -> ContainerType] /\ guest \in [Container -> {"none", "up", "killed"}]
      /\ guest' = [c \in Container |-> IF TimedOut(cc[c]) THEN ForceKill(cc[c], guest[c]) ELSE guest[c]]
  BY DEF Timeouts, WaitForExit, ControlInv, TypeOK
<1>2. ASSUME NEW moves, NEW t \in [Container -> {"NOT_STARTED", "DEAD", "EXIT"}],
             \A c \in GuestsOf(r) :
               \/ cc'[c].status = cc[c].status /\ ~ TimedOut(cc[c])
               \/ cc'[c].status = t[c] /\ <<cc[c].status, t[c]>> \in moves
      PROVE  QuietMoves(r, moves)
  <2> SUFFICES ASSUME NEW c \in GuestsOf(r)
               PROVE  /\ cc'[c].status = cc[c].status \/ <<cc[c].status, cc'[c].status>> \in moves
                      /\ guest'[c] = "up" => guest[c] = "up"
                      /\ cc'[c].status \in Running /\ guest[c] = "up" => guest'[c] = "up"
    BY <1>1 DEF QuietMoves
  <2>1. c \in Container
    BY DEF GuestsOf
  <2>2. guest'[c] = IF TimedOut(cc[c]) THEN ForceKill(cc[c], guest[c]) ELSE guest[c]
    BY <1>1, <2>1
  <2> QED
    BY <1>2, <2>1, <2>2 DEF ForceKill, Running
<1>3. CASE Timeouts
  <2> DEFINE t == [c \in Container |-> IF cc[c].status = "REBOOT" THEN "DEAD" ELSE "NOT_STARTED"]
  <2>1. sys_state = "RUN"
    BY <1>3 DEF Timeouts, ControlInv, PhaseInv
  <2>2. \A c \in Container :
          \/ cc'[c].status = cc[c].status /\ ~ TimedOut(cc[c])
          \/ cc'[c].status = t[c] /\ <<cc[c].status, t[c]>> \in RunMoves
    <3> TAKE c \in Container
    <3>1. cc[c] \in ContainerType /\ Terminate(cc[c]) \in ContainerType
          /\ Terminate(cc[c]).status = cc[c].status
      BY <1>1 DEF Terminate, ContainerType
    <3>2. CASE TimedOut(cc[c])
      <4>1. cc'[c] = [Terminate(cc[c]) EXCEPT !.status = t[c]]
        BY <1>3, <3>1, <3>2 DEF Timeouts
      <4>2. cc[c].status \in {"SHUTDOWN", "REBOOT"}
            /\ t[c] = IF cc[c].status = "REBOOT" THEN "DEAD" ELSE "NOT_STARTED"
        BY <3>2 DEF TimedOut
      <4> HIDE DEF t
      <4>3. cc'[c].status = t[c]
        BY <3>1, <4>1 DEF ContainerType
      <4> QED
        BY <4>2, <4>3 DEF RunMoves
    <3>3. CASE ~ TimedOut(cc[c])
      BY <1>3, <3>3 DEF Timeouts
    <3> QED
      BY <3>2, <3>3
  <2>3. t \in [Container -> {"NOT_STARTED", "DEAD", "EXIT"}]
    OBVIOUS
  <2> HIDE DEF t
  <2>4. QuietMoves(r, RunMoves)
    BY <1>2, <2>2, <2>3 DEF GuestsOf
  <2> QED
    BY <1>1, <2>1, <2>4, RunRefines
<1>4. CASE WaitForExit
  <2> DEFINE t == [c \in Container |-> "EXIT"]
  <2>1. sys_state = "SHUTDOWN"
    BY <1>4 DEF WaitForExit, ControlInv, PhaseInv
  <2>2. \A c \in Container :
          \/ cc'[c].status = cc[c].status /\ ~ TimedOut(cc[c])
          \/ cc'[c].status = t[c] /\ <<cc[c].status, t[c]>> \in EndingMoves
    <3> TAKE c \in Container
    <3> DEFINE k == cc[c]
    <3>1. k \in ContainerType /\ Terminate(k) \in ContainerType
      BY <1>1 DEF Terminate, ContainerType
    <3>2. cc'[c] = AfterShutdownEvent(k)
      BY <1>4 DEF WaitForExit
    <3>3. \/ k.status \in {"RUN_WORKER", "SHUTDOWN", "REBOOT"}
              /\ cc'[c] \in {[k EXCEPT !.wq = Cleanup(@), !.status = "EXIT"],
                             [k EXCEPT !.status = "EXIT"], [Terminate(k) EXCEPT !.status = "EXIT"]}
          \/ cc'[c] = k /\ ~ TimedOut(k)
      BY <3>2 DEF AfterShutdownEvent, TimedOut
    <3>4. k.status # "REBOOT"
      BY <2>1 DEF ControlInv, NoLaunchInShutdown
    <3> HIDE DEF k
    <3>5. CASE cc'[c] = k /\ ~ TimedOut(k)
      BY <3>5 DEF k
    <3>6. CASE k.status \in {"RUN_WORKER", "SHUTDOWN"} /\ cc'[c].status = "EXIT"
      BY <3>6 DEF EndingMoves, k
    <3> QED
      BY <3>1, <3>3, <3>4, <3>5, <3>6 DEF ContainerType
  <2>3. t \in [Container -> {"NOT_STARTED", "DEAD", "EXIT"}]
    OBVIOUS
  <2> HIDE DEF t
  <2>4. QuietMoves(r, EndingMoves)
    BY <1>2, <2>2, <2>3 DEF GuestsOf
  <2> QED
    BY <1>1, <2>1, <2>4, ShutdownRefines
<1> QED
  BY <1>3, <1>4

\* container_start leaves the container started, dead, or as it was.
LEMMA StartStatus ==
  ASSUME NEW c \in Container, NEW k \in ContainerType, NEW x \in StartOutcomes(c, k)
  PROVE  x \in ContainerType /\ x.status \in {"STARTED", "DEAD", k.status}
<1> DEFINE p == Preprocess(c, k)
<1>1. p.ok \in BOOLEAN /\ p.cc \in ContainerType /\ p.cc.status = k.status
  BY PreprocessFacts
<1>2. x \in ContainerType
  BY StartUse
<1> HIDE DEF p
<1>3. x \in {k} \cup LaunchOutcomes(c, p.cc) \cup RecoveryOutcomes(c, p.cc)
  BY DEF StartOutcomes, p
<1>4. ASSUME x \in LaunchOutcomes(c, p.cc) PROVE x.status \in {"STARTED", "DEAD"}
  BY <1>1, <1>4 DEF LaunchOutcomes, ContainerType
<1>5. ASSUME x \in RecoveryOutcomes(c, p.cc) PROVE x.status = k.status
  BY <1>1, <1>5 DEF RecoveryOutcomes, ScheduleOutcomes, ContainerType
<1> QED
  BY <1>2, <1>3, <1>4, <1>5

LEMMA StartGuestStatus ==
  ASSUME NEW c \in Container, NEW ccs \in [Container -> ContainerType], NEW notify \in BOOLEAN,
         StartGuest(c, ccs, notify)
  PROVE  /\ \A d \in Container : d # c => cc'[d] = ccs[d]
         /\ cc'[c].status \in {"STARTED", "DEAD", ccs[c].status}
         /\ \/ guest' = guest /\ cc'[c].status # "STARTED"
            \/ guest' = [guest EXCEPT ![c] = "up"] /\ cc'[c].status = "STARTED"
<1>1. PICK k \in StartOutcomes(c, ccs[c]) :
        IF k.status = "STARTED"
        THEN \E m \in MonitorOutcomes(k) : cc' = [ccs EXCEPT ![c] = m] /\ guest' = [guest EXCEPT ![c] = "up"]
        ELSE cc' = [ccs EXCEPT ![c] = k] /\ guest' = guest
  BY DEF StartGuest
<1>2. k \in ContainerType /\ k.status \in {"STARTED", "DEAD", ccs[c].status}
  BY StartStatus
<1>3. CASE k.status = "STARTED"
  <2>1. PICK m \in MonitorOutcomes(k) : cc' = [ccs EXCEPT ![c] = m] /\ guest' = [guest EXCEPT ![c] = "up"]
    BY <1>1, <1>3
  <2>2. m.status = "STARTED"
    BY <1>2, <1>3 DEF MonitorOutcomes, ContainerType
  <2> QED
    BY <2>1, <2>2
<1>4. CASE k.status # "STARTED"
  BY <1>1, <1>2, <1>4
<1> QED
  BY <1>3, <1>4

\* A launch is a launch of the role of c, and no step of the other roles.
LEMMA LaunchRefines ==
  ASSUME ControlInv, GuestInv, ControlInv', GuestInv', pc # "exited", pc' # "exited",
         sys_state = "RUN", UNCHANGED <<sys_state, active>>,
         NEW c \in Container, NEW ccs \in [Container -> ContainerType], NEW notify \in BOOLEAN,
         StartGuest(c, ccs, notify), ccs[c].status # "DISABLE",
         \A d \in Container : RoleOf[d] # RoleOf[c] => ccs[d].status = cc[d].status,
         \A d \in GuestsOf(RoleOf[c]) : guest[d] # "up",
         NEW r \in Role
  PROVE  IF RoleOf[c] = r THEN Service(r)!Launch(c, ccs[c].status) ELSE RoleStep(r)
<1>1. /\ \A d \in Container : d # c => cc'[d] = ccs[d]
      /\ cc'[c].status \in {"STARTED", "DEAD", ccs[c].status}
      /\ \/ guest' = guest /\ cc'[c].status # "STARTED"
         \/ guest' = [guest EXCEPT ![c] = "up"] /\ cc'[c].status = "STARTED"
  BY StartGuestStatus
<1>2. guest \in [Container -> {"none", "up", "killed"}]
  BY DEF ControlInv, TypeOK
<1>3. CASE RoleOf[c] # r
  <2>1. \A d \in GuestsOf(r) : cc'[d].status = cc[d].status /\ guest'[d] = guest[d]
    BY <1>1, <1>2, <1>3 DEF GuestsOf
  <2>2. ServiceIn(cc', r) = ServiceIn(cc, r) /\ RunningIn(guest', r) = RunningIn(guest, r)
    BY <2>1 DEF ServiceIn, RunningIn
  <2>3. Service(r)!vars' = Service(r)!vars
    BY <2>2, Mapping
  <2> QED
    BY <1>3, <2>3 DEF RoleStep
<1>4. CASE RoleOf[c] = r
  <2>1. Exclusive(cc') /\ cc'[c].status # "DISABLE"
    BY <1>1 DEF ControlInv, RoleExclusive, Exclusive
  <2>2. ServiceIn(cc', r) = ServedBy(c, cc'[c].status)
    BY <1>4, <2>1, ServedByOne
  <2>3. RunningIn(guest, r) = {}
    BY <1>4 DEF RunningIn
  <2>4. \/ RunningIn(guest', r) = {} /\ cc'[c].status \in {"DEAD", ccs[c].status}
        \/ RunningIn(guest', r) = {c} /\ cc'[c].status = "STARTED"
    <3>1. CASE guest' = guest /\ cc'[c].status # "STARTED"
      BY <1>1, <2>3, <3>1
    <3>2. CASE guest' = [guest EXCEPT ![c] = "up"] /\ cc'[c].status = "STARTED"
      BY <1>2, <1>4, <2>3, <3>2 DEF RunningIn, GuestsOf
    <3> QED
      BY <1>1, <3>1, <3>2
  <2>5. Service(r)!Launch(c, ccs[c].status)
    BY <2>2, <2>3, <2>4 DEF Service!Launch, Service!Serves, ServiceIn, RunningIn, ServedBy
  <2> QED
    BY <1>4, <2>5
<1> QED
  BY <1>3, <1>4

LEMMA BootRefines ==
  ASSUME ControlInv, GuestInv, ControlInv', GuestInv', Boot, NEW r \in Role
  PROVE  RoleStep(r)
<1> DEFINE c == active[idx]
           ccs == [cc EXCEPT ![c].status = "NOT_STARTED"]
<1>1. /\ pc = "boot" /\ pc' = "boot" /\ idx \in Role /\ sys_state = "RUN" /\ UNCHANGED <<active, sys_state>>
      /\ cc \in [Container -> ContainerType]
  BY ConfigAssumption DEF ControlInv, Boot, TypeOK, PhaseInv, Role
<1>2. CASE c = 0
  <2>1. UNCHANGED <<cc, guest>>
    BY <1>2 DEF Boot
  <2> QED
    BY <1>1, <2>1, SameRefines
<1>3. CASE c # 0
  <2>1. c \in Container /\ RoleOf[c] = idx
    BY <1>1, <1>3 DEF ControlInv, TypeOK
  <2>2. \A d \in GuestsOf(idx) : cc[d].status = "DISABLE"
    BY <1>1 DEF ControlInv, BootInv, GuestsOf, Role
  <2>3. GuestsLive(cc, guest)
    BY <1>1, MappingInv
  <2>4. /\ \A d \in GuestsOf(idx) : guest[d] # "up"
        /\ ServiceIn(cc, idx) = {}
    BY <2>2, <2>3, ServedByNone DEF GuestsLive, GuestsOf, Running
  <2>5. ccs = [cc EXCEPT ![c] = [cc[c] EXCEPT !.status = "NOT_STARTED"]]
    BY <1>1, <2>1
  <2>6. /\ [cc[c] EXCEPT !.status = "NOT_STARTED"] \in ContainerType
        /\ [cc[c] EXCEPT !.status = "NOT_STARTED"].status = "NOT_STARTED"
    BY <1>1, <2>1 DEF ContainerType, Status
  <2>7. StartGuest(c, ccs, FALSE) /\ FALSE \in BOOLEAN
    BY <1>3 DEF Boot
  <2>8. c = active[idx]
    OBVIOUS
  <2> HIDE DEF ccs, c
  <2>9. /\ ccs \in [Container -> ContainerType] /\ ccs[c].status = "NOT_STARTED"
        /\ \A d \in Container : RoleOf[d] # RoleOf[c] => ccs[d].status = cc[d].status
    BY <1>1, <2>1, <2>5, <2>6
  <2>10. IF RoleOf[c] = r THEN Service(r)!Launch(c, "NOT_STARTED") ELSE RoleStep(r)
    BY <1>1, <2>1, <2>4, <2>7, <2>9, LaunchRefines
  <2>11. CASE RoleOf[c] = r
    <3>1. Service(r)!Launch(active[r], "NOT_STARTED") /\ ServiceIn(cc, r) = {} /\ active[r] # 0
      BY <1>3, <2>1, <2>4, <2>8, <2>10, <2>11
    <3>2. Service(r)!Take
      BY <3>1 DEF Service!Take, ServiceIn
    <3> QED
      BY <3>2 DEF RoleStep, Service!Next
  <2> QED
    BY <2>10, <2>11
<1> QED
  BY <1>2, <1>3

\* Of the containers of the role of one that serves it, only this one may run.
LEMMA ServerFacts ==
  ASSUME ControlInv, GuestInv, pc # "exited", NEW c \in Container,
         cc[c].status \notin Running \cup {"DISABLE"}
  PROVE  /\ ServiceIn(cc, RoleOf[c]) = ServedBy(c, cc[c].status)
         /\ \A d \in GuestsOf(RoleOf[c]) : guest[d] # "up"
<1>1. Exclusive(cc) /\ GuestsLive(cc, guest)
  BY MappingInv
<1>2. \A d \in GuestsOf(RoleOf[c]) : d # c => cc[d].status = "DISABLE"
  BY <1>1 DEF Exclusive, GuestsOf
<1> QED
  BY <1>1, <1>2, ServedByOne DEF GuestsLive, GuestsOf, Running

LEMMA RelaunchRefines ==
  ASSUME ControlInv, GuestInv, ControlInv', GuestInv', pc = "sweep", NextInSweep, SweepUnchanged,
         NEW c \in Container, Relaunch(c), NEW r \in Role
  PROVE  RoleStep(r)
<1>1. /\ pc # "exited" /\ pc' # "exited" /\ sys_state = "RUN" /\ UNCHANGED <<sys_state, active>>
      /\ cc \in [Container -> ContainerType] /\ TRUE \in BOOLEAN
  BY DEF NextInSweep, SweepUnchanged, ControlInv, PhaseInv, TypeOK
<1>2. cc[c].status = "DEAD" /\ StartGuest(c, cc, TRUE)
  BY DEF Relaunch
<1>3. ServiceIn(cc, RoleOf[c]) = ServedBy(c, "DEAD") /\ \A d \in GuestsOf(RoleOf[c]) : guest[d] # "up"
  BY <1>1, <1>2, ServerFacts DEF Running
<1>4. IF RoleOf[c] = r THEN Service(r)!Launch(c, "DEAD") ELSE RoleStep(r)
  BY <1>1, <1>2, <1>3, LaunchRefines
<1>5. CASE RoleOf[c] = r
  <2>1. c \in GuestsOf(r) /\ ServiceIn(cc, r) = Service(r)!Serves(c, "DEAD")
    BY <1>3, <1>5 DEF GuestsOf, ServedBy, Service!Serves
  <2>2. Service(r)!Relaunch
    BY <1>4, <1>5, <2>1 DEF Service!Relaunch, ServiceIn
  <2> QED
    BY <2>2 DEF RoleStep, Service!Next
<1> QED
  BY <1>4, <1>5

\* The exchange of the active guest hands the role over.
LEMMA ExchangeRefines ==
  ASSUME ControlInv, GuestInv, ControlInv', GuestInv', pc = "sweep", NextInSweep, SweepUnchanged,
         NEW c \in Container, Exchange(c), NEW r \in Role
  PROVE  RoleStep(r)
<1> DEFINE a == ActiveOf(c)
           k == [CleanupContainer(cc[c]) EXCEPT !.status = "DISABLE"]
           n == [cc[a] EXCEPT !.status = "NOT_STARTED"]
           ccs == [cc EXCEPT ![c] = [CleanupContainer(@) EXCEPT !.status = "DISABLE"],
                             ![a].status = "NOT_STARTED"]
<1>1. /\ pc # "exited" /\ pc' # "exited" /\ sys_state = "RUN" /\ UNCHANGED <<sys_state, active>>
      /\ cc \in [Container -> ContainerType] /\ TRUE \in BOOLEAN
  BY DEF NextInSweep, SweepUnchanged, ControlInv, PhaseInv, TypeOK
<1>2. cc[c].status = "NOT_STARTED" /\ a # c /\ a # 0 /\ StartGuest(a, ccs, TRUE)
  BY DEF Exchange
<1>3. a \in Container /\ RoleOf[a] = RoleOf[c] /\ a = active[RoleOf[c]]
  BY <1>2, ConfigAssumption DEF ControlInv, TypeOK, ActiveOf
<1>4. ServiceIn(cc, RoleOf[c]) = ServedBy(c, "NOT_STARTED") /\ \A d \in GuestsOf(RoleOf[c]) : guest[d] # "up"
  BY <1>1, <1>2, ServerFacts DEF Running
<1>5. k \in ContainerType
  BY <1>1 DEF CleanupContainer, Terminate, ContainerType, Status
<1>6. n \in ContainerType /\ n.status = "NOT_STARTED"
  BY <1>1, <1>3 DEF ContainerType, Status
<1>7. ccs = [cc EXCEPT ![c] = k, ![a] = n]
  BY <1>1, <1>2, <1>3
<1> HIDE DEF a, k, n, ccs
<1>8. /\ ccs \in [Container -> ContainerType] /\ ccs[a].status = "NOT_STARTED"
      /\ \A d \in Container : RoleOf[d] # RoleOf[a] => ccs[d].status = cc[d].status
  BY <1>1, <1>2, <1>3, <1>5, <1>6, <1>7
<1>9. IF RoleOf[a] = r THEN Service(r)!Launch(a, "NOT_STARTED") ELSE RoleStep(r)
  BY <1>1, <1>2, <1>3, <1>4, <1>8, LaunchRefines
<1>10. CASE RoleOf[a] = r
  <2>1. /\ c \in GuestsOf(r) /\ c # active[r] /\ active[r] # 0
        /\ ServiceIn(cc, r) = Service(r)!Serves(c, "NOT_STARTED")
        /\ Service(r)!Launch(active[r], "NOT_STARTED")
    BY <1>2, <1>3, <1>4, <1>9, <1>10 DEF GuestsOf, ServedBy, Service!Serves
  <2>2. Service(r)!HandOver
    BY <2>1 DEF Service!HandOver, ServiceIn
  <2> QED
    BY <2>2 DEF RoleStep, Service!Next
<1> QED
  BY <1>9, <1>10

LEMMA RunWorkerRefines ==
  ASSUME ControlInv, GuestInv, ControlInv', GuestInv', pc = "sweep", NextInSweep, SweepUnchanged,
         NEW c \in Container, RunWorker(c), NEW r \in Role
  PROVE  RoleStep(r)
<1> DEFINE k == CleanupContainer(cc[c])
<1>1. /\ pc # "exited" /\ pc' # "exited" /\ sys_state = "RUN" /\ UNCHANGED <<sys_state, active, guest>>
      /\ cc \in [Container -> ContainerType]
      /\ cc[c].status = "NOT_STARTED" /\ active[RoleOf[c]] = c
  BY DEF RunWorker, ActiveOf, NextInSweep, SweepUnchanged, ControlInv, PhaseInv, TypeOK
<1>2. k \in ContainerType /\ k.status = cc[c].status
  <2>1. cc[c] \in ContainerType
    BY <1>1
  <2> QED
    BY <2>1 DEF CleanupContainer, Terminate, ContainerType
<1>3. PICK x : /\ cc' = [cc EXCEPT ![c] = x]
               /\ x = k \/ \E created \in BOOLEAN : x = [k EXCEPT !.wq = Run(@, created), !.status = "RUN_WORKER"]
  BY DEF RunWorker
<1> HIDE DEF k
<1>4. /\ x.status \in {"NOT_STARTED", "RUN_WORKER"}
      /\ cc'[c] = x /\ \A d \in Container : d # c => cc'[d] = cc[d]
  BY <1>1, <1>2, <1>3 DEF ContainerType
<1>5. CASE x.status = "NOT_STARTED" \/ RoleOf[c] # r
  <2>1. \A d \in GuestsOf(r) : cc'[d].status = cc[d].status
    BY <1>1, <1>4, <1>5 DEF GuestsOf
  <2>2. ServiceIn(cc', r) = ServiceIn(cc, r) /\ RunningIn(guest', r) = RunningIn(guest, r)
    BY <1>1, <2>1 DEF ServiceIn, RunningIn
  <2>3. Service(r)!vars' = Service(r)!vars
    BY <1>1, <2>2, Mapping
  <2> QED
    BY <2>3 DEF RoleStep
<1>6. CASE x.status = "RUN_WORKER" /\ RoleOf[c] = r
  <2> DEFINE moves == {<<"NOT_STARTED", "RUN_WORKER">>}
  <2>1. QuietMoves(r, moves)
    BY <1>1, <1>4, <1>6 DEF QuietMoves, GuestsOf
  <2>2. \A m \in moves : m[1] # "DISABLE" /\ m[2] # "DISABLE"
    OBVIOUS
  <2>3. c \in GuestsOf(r) /\ cc'[c].status # cc[c].status
    BY <1>1, <1>4, <1>6 DEF GuestsOf
  <2> HIDE DEF moves
  <2>4. Service(r)!Move(moves)
    BY <1>1, <2>1, <2>2, <2>3, QuietRefines
  <2>5. ServiceIn(cc, r) = Service(r)!Serves(active[r], "NOT_STARTED")
    BY <1>1, <1>6, ServerFacts DEF ServedBy, Service!Serves, Running
  <2>6. Service(r)!StartWorker
    BY <1>1, <2>4, <2>5 DEF Service!StartWorker, ServiceIn, moves
  <2> QED
    BY <2>6 DEF RoleStep, Service!Next
<1> QED
  BY <1>4, <1>5, <1>6

LEMMA FinishWorkerRefines ==
  ASSUME ControlInv, GuestInv, ControlInv', GuestInv', pc = "sweep", NextInSweep, SweepUnchanged,
         NEW c \in Container, FinishWorker(c), NEW r \in Role
  PROVE  RoleStep(r)
<1> DEFINE t == IF cc[c].wq.after THEN "DEAD" ELSE "NOT_STARTED"
<1>1. /\ pc # "exited" /\ pc' # "exited" /\ sys_state = "RUN" /\ UNCHANGED <<sys_state, active, guest>>
      /\ cc \in [Container -> ContainerType] /\ cc[c].status = "RUN_WORKER"
  BY DEF FinishWorker, NextInSweep, SweepUnchanged, ControlInv, PhaseInv, TypeOK
<1>2. cc' = [cc EXCEPT ![c] = [cc[c] EXCEPT !.wq = Cleanup(@), !.status = t]]
  BY <1>1 DEF FinishWorker
<1>3. t \in {"DEAD", "NOT_STARTED"}
  OBVIOUS
<1> HIDE DEF t
<1>4. cc'[c].status = t /\ \A d \in Container : d # c => cc'[d] = cc[d]
  BY <1>1, <1>2 DEF ContainerType
<1>5. QuietMoves(r, RunMoves)
  BY <1>1, <1>3, <1>4 DEF QuietMoves, GuestsOf, RunMoves
<1> QED
  BY <1>1, <1>5, RunRefines

LEMMA SweepRefines ==
  ASSUME ControlInv, GuestInv, ControlInv', GuestInv', Sweep, NEW r \in Role
  PROVE  RoleStep(r)
<1>1. pc = "sweep" /\ NextInSweep /\ SweepUnchanged /\ idx \in Container
  BY SweepFacts DEF Sweep
<1>2. CASE SkipContainer(idx)
  <2>1. UNCHANGED <<cc, guest, active, sys_state>>
    BY <1>1, <1>2 DEF SkipContainer, SweepUnchanged
  <2> QED
    BY <2>1, SameRefines
<1> QED
  BY <1>1, <1>2, RelaunchRefines, ExchangeRefines, RunWorkerRefines, FinishWorkerRefines DEF Sweep

\* The end of the start and the end of the program.
LEMMA ManagerRefines ==
  ASSUME ControlInv, BootDone \/ ManagerTerminate, NEW r \in Role
  PROVE  RoleStep(r)
<1>1. UNCHANGED <<guest, active, sys_state>> /\ cc \in [Container -> ContainerType]
      /\ (cc' = cc \/ cc' = [c \in Container |-> CleanupContainer(cc[c])])
  BY DEF BootDone, ManagerTerminate, ExitManager, ControlInv, TypeOK
<1>2. \A k \in ContainerType : CleanupContainer(k).status = k.status
  BY DEF CleanupContainer, Terminate, ContainerType
<1>3. \A c \in Container : cc'[c].status = cc[c].status
  BY <1>1, <1>2
<1> QED
  BY <1>1, <1>3, SameRefines

LEMMA EnvironmentRefines ==
  ASSUME ControlInv, Environment, NEW r \in Role
  PROVE  RoleStep(r)
<1>1. cc \in [Container -> ContainerType] /\ guest \in [Container -> {"none", "up", "killed"}]
  BY DEF ControlInv, TypeOK
<1>2. ASSUME NEW c \in Container, GuestExits(c) PROVE RoleStep(r)
  <2> DEFINE x == [cc[c] EXCEPT !.source = IF @ = "live" THEN "dead" ELSE @]
  <2>1. /\ guest' = [guest EXCEPT ![c] = "none"] /\ UNCHANGED <<active, sys_state>>
        /\ cc' = [cc EXCEPT ![c] = x]
    BY <1>1, <1>2 DEF GuestExits, ManagerUnchanged
  <2>2. x.status = cc[c].status
    BY <1>1 DEF ContainerType
  <2> HIDE DEF x
  <2>3. \A d \in Container : cc'[d].status = cc[d].status
    BY <1>1, <2>1, <2>2
  <2> QED
    BY <1>1, <2>1, <2>3, EndRefines
<1>3. ASSUME NEW c \in Container, DeadlinePasses(c) \/ WorkerEnds(c) PROVE RoleStep(r)
  <2>1. PICK x \in {[cc[c] EXCEPT !.expired = TRUE], [cc[c] EXCEPT !.wq = Complete(@)]} :
          cc' = [cc EXCEPT ![c] = x]
    BY <1>1, <1>3 DEF DeadlinePasses, WorkerEnds
  <2>2. x.status = cc[c].status
    BY <1>1 DEF ContainerType
  <2>3. \A d \in Container : cc'[d].status = cc[d].status
    BY <1>1, <2>1, <2>2
  <2>4. UNCHANGED <<guest, active, sys_state>>
    BY <1>3 DEF DeadlinePasses, WorkerEnds, ManagerUnchanged
  <2> QED
    BY <2>3, <2>4, SameRefines
<1>4. CASE UNCHANGED <<cc, guest, active, sys_state>>
  BY <1>4, SameRefines
<1> QED
  BY <1>2, <1>3, <1>4 DEF Environment, RootDeviceAppears, DiskDamaged, ManagerWorkerEnds, ManagerUnchanged

LEMMA PidfdRefines ==
  ASSUME ControlInv, NEW c \in Container, PidfdReady(c), NEW r \in Role
  PROVE  RoleStep(r)
<1>1. cc \in [Container -> ContainerType]
  BY DEF ControlInv, TypeOK
<1>2. UNCHANGED <<guest, active, sys_state>> /\ cc' = [cc EXCEPT ![c] = [cc[c] EXCEPT !.source = "none"]]
  BY <1>1 DEF PidfdReady
<1>3. [cc[c] EXCEPT !.source = "none"].status = cc[c].status
  BY <1>1 DEF ContainerType
<1>4. \A d \in Container : cc'[d].status = cc[d].status
  BY <1>1, <1>2, <1>3
<1> QED
  BY <1>2, <1>4, SameRefines

LEMMA NextRefines ==
  ASSUME ControlInv, GuestInv, ControlInv', GuestInv', [Next]_vars, NEW r \in Role
  PROVE  RoleStep(r)
<1>1. CASE NetifUpdated \/ TimerTick
  <2>1. UNCHANGED <<cc, guest, active, sys_state>>
    BY <1>1 DEF NetifUpdated, TimerTick, Receive
  <2> QED
    BY <2>1, SameRefines
<1>2. CASE EventLoop
  BY <1>1, <1>2, BootRefines, ManagerRefines, ExitedRefines, SystemShutdownRefines, SweepRefines,
     DeadlineRefines DEF EventLoop
<1>3. CASE \E c \in Container : PidfdReady(c)
  BY <1>3, PidfdRefines
<1>4. CASE TimerFires \/ Sigterm \/ Terminated \/ UNCHANGED vars
  <2>1. UNCHANGED <<cc, guest, active, sys_state>>
    BY <1>4 DEF TimerFires, Sigterm, Terminated, vars
  <2> QED
    BY <2>1, SameRefines
<1> QED
  BY <1>2, <1>3, <1>4, CommandRefines, EnvironmentRefines DEF Next

LEMMA RoleInit ==
  ASSUME Init, NEW r \in Role
  PROVE  Service(r)!Init
<1>1. /\ \A c \in GuestsOf(r) : cc[c].status = "DISABLE" /\ guest[c] # "up"
      /\ active[r] = FirstActive[r] /\ sys_state = "RUN"
  BY DEF Init, GuestsOf
<1>2. active[r] \in GuestsOf(r) \cup {0}
  BY <1>1, ConfigAssumption DEF GuestsOf
<1> QED
  BY <1>1, <1>2 DEF Service!Init

\* If every started guest is monitored, each role is served as RoleService
\* promises, by handlers that take one container, one role or all of them.
THEOREM RolesAreServed ==
  ASSUME "monitor" \notin Faults
  PROVE  Spec => RoleServices
<1>1. Init => \A r \in Role : Service(r)!Init
  BY RoleInit
<1>2. (ControlInv /\ GuestInv) /\ (ControlInv /\ GuestInv)' /\ [Next]_vars
        => [\A r \in Role : [Service(r)!Next]_(Service(r)!vars)]_vars
  BY NextRefines DEF RoleStep
<1> QED
  BY <1>1, <1>2, GuestInvariant, PTL DEF Spec, RoleServices

\* The same, role by role: ContainerControl implements RoleService.
THEOREM RoleSpecIsKept ==
  ASSUME "monitor" \notin Faults
  PROVE  Spec => \A r \in Role : Service(r)!Spec
<1> SUFFICES ASSUME NEW r \in Role PROVE Spec => Service(r)!Spec
  OBVIOUS
<1>1. Init => Service(r)!Init
  BY RoleInit
<1>2. (ControlInv /\ GuestInv) /\ (ControlInv /\ GuestInv)' /\ [Next]_vars
        => [Service(r)!Next]_(Service(r)!vars)
  BY NextRefines DEF RoleStep
<1> QED
  BY <1>1, <1>2, GuestInvariant, PTL DEF Spec, Service!Spec

-----------------------------------------------------------------------------
(***************************************************************************)
(* What RoleService promises follows from its steps.                       *)
(***************************************************************************)

\* OneGuestServes of the service s and the running guests u.
Promise(s, u) ==
  /\ \A x, y \in s : x = y
  /\ \A c \in u : \E x \in s : x.container = c /\ x.status \in Running

LEMMA PromiseFacts ==
  ASSUME NEW r
  PROVE  /\ Service(r)!OneGuestServes <=> Promise(ServiceIn(cc, r), RunningIn(guest, r))
         /\ Service(r)!OneGuestServes' <=> Promise(ServiceIn(cc', r), RunningIn(guest', r))
BY DEF Service!OneGuestServes, Service!Live, Promise, ServiceIn, RunningIn, Running

\* A role that nobody serves, or a container that is down, has no running guest.
LEMMA DownFacts ==
  ASSUME NEW s, NEW u, Promise(s, u)
  PROVE  /\ s = {} => u = {}
         /\ \A c, t : s = ServedBy(c, t) => u \subseteq {c} /\ (t \notin Running => u = {})
BY DEF Promise, ServedBy

LEMMA LaunchKeepsPromise ==
  ASSUME NEW r, NEW c, NEW t, t \notin Running, Service(r)!Launch(c, t), RunningIn(guest, r) = {}
  PROVE  Promise(ServiceIn(cc', r), RunningIn(guest', r))
<1>1. \/ RunningIn(guest', r) = {c} /\ ServiceIn(cc', r) = ServedBy(c, "STARTED")
      \/ RunningIn(guest', r) = {} /\ \E x : ServiceIn(cc', r) = ServedBy(c, x)
  BY DEF Service!Launch, Service!Serves, ServedBy, ServiceIn, RunningIn
<1> QED
  BY <1>1 DEF Promise, ServedBy, Running

LEMMA MoveKeepsPromise ==
  ASSUME NEW r, NEW moves, Service(r)!Move(moves), Promise(ServiceIn(cc, r), RunningIn(guest, r))
  PROVE  Promise(ServiceIn(cc', r), RunningIn(guest', r))
<1>1. PICK c \in GuestsOf(r), m \in moves :
        /\ ServiceIn(cc, r) = ServedBy(c, m[1])
        /\ ServiceIn(cc', r) = ServedBy(c, m[2])
        /\ RunningIn(guest', r) = IF m[2] \in Running THEN RunningIn(guest, r) ELSE {}
  BY DEF Service!Move, Service!Serves, Service!Live, ServedBy, ServiceIn, RunningIn, Running
<1>2. RunningIn(guest, r) \subseteq {c}
  BY <1>1, DownFacts
<1> QED
  BY <1>1, <1>2 DEF Promise, ServedBy

LEMMA StepKeepsPromise ==
  ASSUME NEW r, Service(r)!OneGuestServes, [Service(r)!Next]_(Service(r)!vars)
  PROVE  Service(r)!OneGuestServes'
<1>1. Promise(ServiceIn(cc, r), RunningIn(guest, r))
  BY PromiseFacts
<1> SUFFICES Promise(ServiceIn(cc', r), RunningIn(guest', r))
  BY PromiseFacts
<1>2. CASE Service(r)!Take
  <2>1. Service(r)!Launch(active[r], "NOT_STARTED") /\ ServiceIn(cc, r) = {}
    BY <1>2 DEF Service!Take, ServiceIn
  <2> QED
    BY <1>1, <2>1, DownFacts, LaunchKeepsPromise DEF Running
<1>3. CASE Service(r)!Relaunch
  <2>1. PICK c : Service(r)!Launch(c, "DEAD") /\ ServiceIn(cc, r) = ServedBy(c, "DEAD")
    BY <1>3 DEF Service!Relaunch, Service!Serves, ServedBy, ServiceIn
  <2> QED
    BY <1>1, <2>1, DownFacts, LaunchKeepsPromise DEF Running
<1>4. CASE Service(r)!HandOver
  <2>1. PICK c : /\ Service(r)!Launch(active[r], "NOT_STARTED")
                 /\ ServiceIn(cc, r) = ServedBy(c, "NOT_STARTED")
    BY <1>4 DEF Service!HandOver, Service!Serves, ServedBy, ServiceIn
  <2> QED
    BY <1>1, <2>1, DownFacts, LaunchKeepsPromise DEF Running
<1>5. CASE \E moves : Service(r)!Move(moves)
  BY <1>1, <1>5, MoveKeepsPromise
<1>6. CASE ServiceIn(cc', r) = ServiceIn(cc, r) /\ RunningIn(guest', r) \subseteq RunningIn(guest, r)
  BY <1>1, <1>6 DEF Promise
<1>7. CASE Service(r)!LifeCycle \/ Service(r)!StartWorker \/ Service(r)!ShutdownGoesOn
  BY <1>5, <1>7 DEF Service!LifeCycle, Service!StartWorker, Service!ShutdownGoesOn
<1>8. CASE Service(r)!SystemShutdown
  BY <1>5, <1>6, <1>8 DEF Service!SystemShutdown, ServiceIn, RunningIn
<1>9. CASE Service(r)!GuestEnds \/ Service(r)!Choose
  BY <1>6, <1>9 DEF Service!GuestEnds, Service!Choose, ServiceIn, RunningIn
<1>10. CASE UNCHANGED Service(r)!vars
  BY <1>6, <1>10, Mapping
<1> QED
  BY <1>2, <1>3, <1>4, <1>7, <1>8, <1>9, <1>10 DEF Service!Next

\* Of the guests of a role at most one runs, and the manager waits for its end:
\* so it is for the guests themselves, also after the exit of the manager.
THEOREM OneGuestOfRole ==
  ASSUME "monitor" \notin Faults
  PROVE  Spec => \A r \in Role : []Service(r)!OneGuestServes
<1> SUFFICES ASSUME NEW r \in Role PROVE Spec => []Service(r)!OneGuestServes
  OBVIOUS
<1>1. Service(r)!Init => Service(r)!OneGuestServes
  BY DEF Service!Init, Service!OneGuestServes
<1>2. Service(r)!OneGuestServes /\ [Service(r)!Next]_(Service(r)!vars) => Service(r)!OneGuestServes'
  BY StepKeepsPromise
<1>3. Spec => Service(r)!Spec
  BY RoleSpecIsKept
<1> QED
  BY <1>1, <1>2, <1>3, PTL DEF Service!Spec
=============================================================================
