----------------------- MODULE ContainerControl_proofs -----------------------
(***************************************************************************)
(* Proofs about ContainerControl, for every number of containers and roles *)
(* and every set of faults, except where a theorem excludes a fault.       *)
(***************************************************************************)
EXTENDS ContainerControl, SequenceTheorems, TLAPS

-----------------------------------------------------------------------------
(***************************************************************************)
(* The inductive invariant.                                                *)
(***************************************************************************)

Running == {"STARTED", "SHUTDOWN", "REBOOT"}
Busy == {"STARTED", "COMPLETED"}

\* The rest of a handler belongs to the system state it began in.
PhaseInv ==
  /\ pc \in {"boot", "sweep", "timeouts"} => sys_state = "RUN"
  /\ pc = "shutdown" => sys_state = "SHUTDOWN"

\* The roles that container_mngsm_start has not come to have no enabled guest.
BootInv == pc = "boot" => \A c \in Container : RoleOf[c] >= idx => cc[c].status = "DISABLE"

\* A workqueue is busy only for a container that runs its worker or has exited,
\* and then nothing of that container is mounted.
WorkerInv ==
  \A c \in Container :
    cc[c].wq.status \in Busy =>
      cc[c].status \in {"RUN_WORKER", "EXIT"} /\ ~ cc[c].rootfs /\ ~ cc[c].disk

ControlInv ==
  /\ TypeOK
  /\ PhaseInv
  /\ BootInv
  /\ RoleExclusive
  /\ InstanceMatchesStatus
  /\ NoLaunchInShutdown
  /\ WorkerInv

\* No message tells of the exit of a guest.
NoExit(q) == \A i \in 1 .. Len(q) : q[i].command # "GUEST_EXIT"

\* What the loop knows of the guests, as long as each is monitored: a guest that
\* runs has an instance and a source that is not ready, its workqueue is idle,
\* and a GUEST_EXIT message is the only one and about a guest that has ended.
GuestInv ==
  /\ \A c \in Container :
       guest[c] = "up" =>
         /\ cc[c].wq.status \notin Busy
         /\ cc[c].source # "dead"
         /\ pc # "exited" => cc[c].lxc /\ cc[c].source = "live"
  /\ \A i \in 1 .. Len(queue) :
       queue[i].command = "GUEST_EXIT" =>
         Len(queue) = 1 /\ pc = "idle" /\ guest[queue[i].container] # "up"

-----------------------------------------------------------------------------
(***************************************************************************)
(* What the operations on one container return.                            *)
(***************************************************************************)

\* Operations of container-workqueue.c keep the type of the workqueue.
LEMMA WorkqueueFacts ==
  ASSUME NEW w \in WorkqueueType, NEW job \in Jobs, NEW b \in BOOLEAN
  PROVE  /\ Schedule(w, job, b) \in WorkqueueType
         /\ Schedule(w, job, b).status \in Busy => w.status \in Busy
         /\ Run(w, b) \in WorkqueueType
         /\ Complete(w) \in WorkqueueType
         /\ CanCleanup(w) => Cleanup(w) \in WorkqueueType
         /\ Cleanup(w).status = "INACTIVE"
         /\ w.thread => w.status \in Busy
         /\ CanCleanup(w) => w.status \in Busy
BY DEF WorkqueueType, Schedule, Run, Complete, Cleanup, CanCleanup, WorkerStatus, Jobs, Busy

\* container_start_preprocess_base changes the mounts only.
LEMMA PreprocessFacts ==
  ASSUME NEW c \in Container, NEW k \in ContainerType
  PROVE  LET p == Preprocess(c, k) IN
         /\ p.ok \in BOOLEAN
         /\ p.cc \in ContainerType
         /\ p.cc.status = k.status /\ p.cc.lxc = k.lxc
         /\ p.cc.source = k.source /\ p.cc.wq = k.wq
<1>1. CASE ~ (k.rootfs \/ rootdev[c])
  BY <1>1 DEF Preprocess
<1>2. CASE (k.rootfs \/ rootdev[c]) /\ (Redundancy[c] = "none" \/ k.disk)
  BY <1>2 DEF Preprocess, ContainerType
<1>3. CASE (k.rootfs \/ rootdev[c]) /\ ~ (Redundancy[c] = "none" \/ k.disk) /\ disk_ok[c]
  BY <1>3 DEF Preprocess, ContainerType
<1>4. CASE (k.rootfs \/ rootdev[c]) /\ ~ (Redundancy[c] = "none" \/ k.disk) /\ ~ disk_ok[c]
  BY <1>4 DEF Preprocess, ContainerType
<1>5. QED BY <1>1, <1>2, <1>3, <1>4

\* A container that container_start may be called for: it has no instance and
\* no busy workqueue.
Startable(k) ==
  /\ k \in ContainerType
  /\ k.status \in {"NOT_STARTED", "DEAD"}
  /\ ~ k.lxc
  /\ k.wq.status \notin Busy

\* The container after container_start: started with an instance, or not
\* started and without one.
AfterStart(k, x) ==
  /\ x \in ContainerType
  /\ x.status \in {"STARTED", "NOT_STARTED", "DEAD"}
  /\ x.lxc <=> x.status = "STARTED"
  /\ x.wq.status \notin Busy

LEMMA StartFacts ==
  ASSUME NEW c \in Container, NEW k, Startable(k), NEW x \in StartOutcomes(c, k)
  PROVE  /\ AfterStart(k, x)
         /\ x.source = k.source
         /\ x.status = "STARTED" => guest[c] = "none"
<1> DEFINE p == Preprocess(c, k)
<1>1. /\ p.ok \in BOOLEAN
      /\ p.cc \in ContainerType
      /\ p.cc.status = k.status /\ p.cc.lxc = k.lxc
      /\ p.cc.source = k.source /\ p.cc.wq = k.wq
  BY PreprocessFacts DEF Startable
<1> HIDE DEF p
<1>2. CASE p.ok
  <2>1. x \in LaunchOutcomes(c, p.cc)
    BY <1>2 DEF StartOutcomes, p, Startable
  <2>2. CASE guest[c] = "none" /\ x = [p.cc EXCEPT !.status = "STARTED", !.lxc = TRUE]
    BY <2>2, <1>1 DEF AfterStart, Startable, ContainerType, Status
  <2>3. CASE x = [p.cc EXCEPT !.status = "DEAD", !.lxc = FALSE]
    BY <2>3, <1>1 DEF AfterStart, Startable, ContainerType, Status
  <2>4. QED BY <2>1, <2>2, <2>3 DEF LaunchOutcomes
<1>3. CASE ~ p.ok
  <2>1. x \in RecoveryOutcomes(c, p.cc)
    BY <1>3 DEF StartOutcomes, p, Startable
  <2>2. x = p.cc \/ x = [p.cc EXCEPT !.wq = Schedule(@, "recovery", TRUE)]
    BY <2>1 DEF RecoveryOutcomes, ScheduleOutcomes
  <2>3. /\ p.cc.wq \in WorkqueueType
        /\ Schedule(p.cc.wq, "recovery", TRUE) \in WorkqueueType
        /\ Schedule(p.cc.wq, "recovery", TRUE).status \notin Busy
    <3>1. p.cc.wq \in WorkqueueType /\ p.cc.wq.status \notin Busy
      BY <1>1 DEF Startable, ContainerType
    <3>2. "recovery" \in Jobs
      BY DEF Jobs
    <3>3. QED BY <3>1, <3>2, WorkqueueFacts
  <2>4. QED BY <2>2, <2>3, <1>1 DEF AfterStart, Startable, ContainerType, Status
<1>4. QED BY <1>2, <1>3, <1>1

\* StartGuest: container_start of one container, and its monitor.
LEMMA StartGuestFacts ==
  ASSUME NEW c \in Container, NEW ccs \in [Container -> ContainerType], NEW notify \in BOOLEAN,
         Startable(ccs[c]), StartGuest(c, ccs, notify), leaked \in BOOLEAN
  PROVE  \E x :
           /\ cc' = [ccs EXCEPT ![c] = x]
           /\ AfterStart(ccs[c], x)
           /\ x.status = "STARTED" =>
                /\ guest[c] = "none" /\ guest' = [guest EXCEPT ![c] = "up"]
                /\ "monitor" \notin Faults => x.source = "live"
           /\ x.status # "STARTED" => guest' = guest /\ x.source = ccs[c].source
           /\ queue' \in {queue, Append(queue, Message("NETIFUPDATED", 0))}
           /\ leaked' \in BOOLEAN
<1>1. PICK k \in StartOutcomes(c, ccs[c]) :
        IF k.status = "STARTED"
        THEN \E m \in MonitorOutcomes(k) :
               /\ cc' = [ccs EXCEPT ![c] = m]
               /\ guest' = [guest EXCEPT ![c] = "up"]
               /\ leaked' = (leaked \/ (m.source = "live" /\ k.source # "none"))
               /\ queue' = IF notify THEN Append(queue, Message("NETIFUPDATED", 0)) ELSE queue
        ELSE /\ cc' = [ccs EXCEPT ![c] = k]
             /\ UNCHANGED <<guest, leaked, queue>>
  BY DEF StartGuest
<1>2. /\ AfterStart(ccs[c], k)
      /\ k.source = ccs[c].source
      /\ k.status = "STARTED" => guest[c] = "none"
  BY StartFacts
<1>3. CASE k.status = "STARTED"
  <2>1. PICK m \in MonitorOutcomes(k) :
          /\ cc' = [ccs EXCEPT ![c] = m]
          /\ guest' = [guest EXCEPT ![c] = "up"]
          /\ leaked' = (leaked \/ (m.source = "live" /\ k.source # "none"))
          /\ queue' = IF notify THEN Append(queue, Message("NETIFUPDATED", 0)) ELSE queue
    BY <1>1, <1>3
  <2>2. m = [k EXCEPT !.source = "live"] \/ ("monitor" \in Faults /\ m = k)
    BY DEF MonitorOutcomes
  <2>3. /\ AfterStart(ccs[c], m) /\ m.status = "STARTED"
        /\ "monitor" \notin Faults => m.source = "live"
    BY <2>2, <1>2, <1>3 DEF AfterStart, ContainerType
  <2>4. QED BY <2>1, <2>3, <1>2, <1>3
<1>4. CASE k.status # "STARTED"
  BY <1>1, <1>2, <1>4
<1>5. QED BY <1>3, <1>4

\* A handler that neither starts nor runs a worker for a container of state k
\* leaves it in a state x like this.
SafeStep(k, x) ==
  /\ x \in ContainerType
  /\ x.status = "DISABLE" <=> k.status = "DISABLE"
  /\ (k.lxc <=> k.status \in Running) => (x.lxc <=> x.status \in Running)
  /\ (k.wq.status \in Busy => k.status \in {"RUN_WORKER", "EXIT"} /\ ~ k.rootfs /\ ~ k.disk)
       => (x.wq.status \in Busy => x.status \in {"RUN_WORKER", "EXIT"} /\ ~ x.rootfs /\ ~ x.disk)

\* The states of a container after the SYSTEM_SHUTDOWN message.
Quiet == {"SHUTDOWN", "EXIT", "DISABLE", "RUN_WORKER"}

\* A step that is not seen by the loop's view of the guests: the source is left
\* alone, an instance is given up only for a guest that is killed or gone, and
\* no workqueue becomes busy.
QuietStep(k, x) == x.source = k.source /\ (x.wq.status \in Busy => k.wq.status \in Busy)

LEMMA StopFacts ==
  ASSUME NEW k \in ContainerType, NEW ok \in BOOLEAN, NEW state \in {"RUN", "SHUTDOWN"}
  PROVE  LET x == RequestShutdown(k, state, ok)
             y == RequestReboot(k, state, ok) IN
         /\ SafeStep(k, x) /\ QuietStep(k, x)
         /\ SafeStep(k, y) /\ QuietStep(k, y)
         /\ state = "SHUTDOWN" => x.status \in Quiet
         /\ state = "SHUTDOWN" /\ k.status \in Quiet => y.status \in Quiet
         /\ k.lxc /\ ~ x.lxc => Kills(k, ok)
         /\ k.lxc /\ ~ y.lxc => Kills(k, ok)
<1> DEFINE x == RequestShutdown(k, state, ok)
           y == RequestReboot(k, state, ok)
<1>1. \A w \in {"SHUTDOWN", "REBOOT"}, t \in {"NOT_STARTED", "EXIT", "DEAD"} :
        LET g == StopGuest(k, ok, w, t) IN
        k.status = "STARTED" =>
          /\ SafeStep(k, g) /\ QuietStep(k, g)
          /\ g.status \in {w, t}
          /\ k.lxc /\ ~ g.lxc => Kills(k, ok)
  <2>1. CASE ok
    BY <2>1 DEF StopGuest, TimeoutSet, SafeStep, QuietStep, ContainerType, Status, Running
  <2>2. CASE ~ ok
    <3> SUFFICES ASSUME NEW w \in {"SHUTDOWN", "REBOOT"}, NEW t \in {"NOT_STARTED", "EXIT", "DEAD"},
                        k.status = "STARTED"
                 PROVE  LET g == StopGuest(k, ok, w, t) IN
                        /\ SafeStep(k, g) /\ QuietStep(k, g)
                        /\ g.status \in {w, t}
                        /\ k.lxc /\ ~ g.lxc => Kills(k, ok)
      OBVIOUS
    <3> DEFINE g == [k EXCEPT !.lxc = FALSE, !.status = t]
    <3>1. StopGuest(k, ok, w, t) = g
      BY <2>2 DEF StopGuest, Terminate, ContainerType
    <3>2. /\ g \in ContainerType /\ g.status = t /\ ~ g.lxc
          /\ g.source = k.source /\ g.wq = k.wq /\ g.rootfs = k.rootfs /\ g.disk = k.disk
      BY DEF ContainerType, Status
    <3> HIDE DEF g
    <3>3. SafeStep(k, g) /\ QuietStep(k, g)
      BY <3>2 DEF SafeStep, QuietStep, Running
    <3>4. QED BY <2>2, <3>1, <3>2, <3>3 DEF Kills
  <2>3. QED BY <2>1, <2>2
<1>2. SafeStep(k, k) /\ QuietStep(k, k)
  BY DEF SafeStep, QuietStep
<1>3. \A t \in {"NOT_STARTED", "EXIT", "SHUTDOWN"} :
        LET g == [k EXCEPT !.status = t] IN
        (k.status \in {"NOT_STARTED", "DEAD"} /\ t # "SHUTDOWN") \/ (k.status = "REBOOT" /\ t = "SHUTDOWN") =>
          /\ SafeStep(k, g) /\ QuietStep(k, g) /\ g.status = t /\ g.lxc = k.lxc
  BY DEF SafeStep, QuietStep, ContainerType, Status, Running
<1>4. LET g == TimeoutSet(k) IN SafeStep(k, g) /\ QuietStep(k, g) /\ g.status = k.status /\ g.lxc = k.lxc
  BY DEF TimeoutSet, SafeStep, QuietStep, ContainerType
<1>5. /\ SafeStep(k, x) /\ QuietStep(k, x)
      /\ state = "SHUTDOWN" => x.status \in Quiet
      /\ k.lxc /\ ~ x.lxc => Kills(k, ok)
  <2>1. CASE state = "RUN"
    <3>1. CASE k.status = "STARTED"
      <4>1. x = StopGuest(k, ok, "SHUTDOWN", "NOT_STARTED")
        BY <2>1, <3>1 DEF RequestShutdown
      <4>2. QED BY <2>1, <3>1, <4>1, <1>1
    <3>2. CASE k.status # "STARTED"
      BY <2>1, <3>2, <1>2, <1>3 DEF RequestShutdown
    <3>3. QED BY <3>1, <3>2
  <2>2. CASE state = "SHUTDOWN"
    <3>1. CASE k.status = "STARTED"
      <4>1. x = StopGuest(k, ok, "SHUTDOWN", "EXIT")
        BY <2>2, <3>1 DEF RequestShutdown
      <4>2. QED BY <3>1, <4>1, <1>1 DEF Quiet
    <3>2. CASE k.status \in {"REBOOT", "NOT_STARTED", "DEAD"}
      BY <2>2, <3>2, <1>3 DEF RequestShutdown, Quiet
    <3>3. CASE k.status = "RUN_WORKER"
      BY <2>2, <3>3, <1>4 DEF RequestShutdown, Quiet
    <3>4. CASE k.status \in {"SHUTDOWN", "EXIT", "DISABLE"}
      BY <2>2, <3>4, <1>2 DEF RequestShutdown, Quiet
    <3>5. QED BY <3>1, <3>2, <3>3, <3>4 DEF ContainerType, Status
  <2>3. QED BY <2>1, <2>2
<1>6. /\ SafeStep(k, y) /\ QuietStep(k, y)
      /\ state = "SHUTDOWN" /\ k.status \in Quiet => y.status \in Quiet
      /\ k.lxc /\ ~ y.lxc => Kills(k, ok)
  <2>1. CASE state = "RUN"
    BY <2>1, <1>1, <1>2 DEF RequestReboot
  <2>2. CASE state = "SHUTDOWN" /\ k.status = "REBOOT"
    BY <2>2, <1>2 DEF RequestReboot, Quiet
  <2>3. CASE state = "SHUTDOWN" /\ k.status # "REBOOT"
    BY <2>3, <1>5 DEF RequestReboot
  <2>4. QED BY <2>1, <2>2, <2>3
<1>7. QED BY <1>5, <1>6

\* container_exited, the deadlines and the workqueue of one container.
LEMMA ExitFacts ==
  ASSUME NEW k \in ContainerType, ExitedStatus(k.status) \in Status
  PROVE  LET x == [Terminate(k) EXCEPT !.status = ExitedStatus(@)] IN
         /\ SafeStep(k, x) /\ QuietStep(k, x)
         /\ sys_state = "SHUTDOWN" => x.status \in Quiet
<1> DEFINE s == ExitedStatus(k.status)
           x == [Terminate(k) EXCEPT !.status = ExitedStatus(@)]
<1>1. x = [k EXCEPT !.lxc = FALSE, !.status = s]
  BY DEF Terminate, ContainerType
<1>2. /\ s \notin Running
      /\ s = "DISABLE" <=> k.status = "DISABLE"
      /\ k.status \in {"RUN_WORKER", "EXIT"} => s \in {"RUN_WORKER", "EXIT"}
      /\ sys_state = "SHUTDOWN" => s \in Quiet
  BY DEF ExitedStatus, ContainerType, Status, Running, Quiet
<1> HIDE DEF s
<1>3. x \in ContainerType /\ x.status = s /\ ~ x.lxc
      /\ x.source = k.source /\ x.wq = k.wq /\ x.rootfs = k.rootfs /\ x.disk = k.disk
  BY <1>1 DEF s, ContainerType
<1> HIDE DEF x
<1>4. SafeStep(k, x)
  BY <1>2, <1>3 DEF SafeStep
<1>5. QuietStep(k, x) /\ (sys_state = "SHUTDOWN" => x.status \in Quiet)
  BY <1>2, <1>3 DEF QuietStep
<1> QED BY <1>4, <1>5 DEF x

LEMMA DeadlineFacts ==
  ASSUME NEW k \in ContainerType, TimedOut(k), NEW t \in {"NOT_STARTED", "DEAD", "EXIT"}
  PROVE  LET x == [Terminate(k) EXCEPT !.status = t] IN SafeStep(k, x) /\ QuietStep(k, x) /\ x.status = t
BY DEF TimedOut, Terminate, SafeStep, QuietStep, ContainerType, Status, Running

LEMMA AfterShutdownFacts ==
  ASSUME NEW k \in ContainerType
  PROVE  LET x == AfterShutdownEvent(k) IN
         /\ SafeStep(k, x) /\ QuietStep(k, x)
         /\ k.status \in Quiet => x.status \in Quiet
         /\ k.lxc /\ ~ x.lxc => TimedOut(k)
<1>1. CASE k.status = "RUN_WORKER" /\ CanCleanup(k.wq)
  <2>1. Cleanup(k.wq) \in WorkqueueType /\ Cleanup(k.wq).status = "INACTIVE"
    BY <1>1 DEF Cleanup, CanCleanup, ContainerType, WorkqueueType, WorkerStatus, Jobs
  <2>2. AfterShutdownEvent(k) = [k EXCEPT !.wq = Cleanup(@), !.status = "EXIT"]
    BY <1>1 DEF AfterShutdownEvent, TimedOut
  <2>3. QED BY <1>1, <2>1, <2>2 DEF SafeStep, QuietStep, ContainerType, Status, Running, Quiet, Busy
<1>2. CASE k.status = "RUN_WORKER" /\ ~ CanCleanup(k.wq) /\ k.expired
  <2>1. AfterShutdownEvent(k) = [k EXCEPT !.status = "EXIT"]
    BY <1>2 DEF AfterShutdownEvent, TimedOut
  <2>2. QED BY <1>2, <2>1 DEF SafeStep, QuietStep, ContainerType, Status, Running, Quiet
<1>3. CASE TimedOut(k)
  <2>1. AfterShutdownEvent(k) = [Terminate(k) EXCEPT !.status = "EXIT"]
    BY <1>3 DEF AfterShutdownEvent, TimedOut
  <2>2. QED BY <1>3, <2>1, DeadlineFacts DEF Quiet
<1>4. CASE ~ (k.status = "RUN_WORKER" /\ (CanCleanup(k.wq) \/ k.expired)) /\ ~ TimedOut(k)
  <2>1. AfterShutdownEvent(k) = k
    BY <1>4 DEF AfterShutdownEvent
  <2>2. QED BY <2>1 DEF SafeStep, QuietStep
<1>5. QED BY <1>1, <1>2, <1>3, <1>4

-----------------------------------------------------------------------------
(***************************************************************************)
(* ControlInv is inductive.                                                *)
(***************************************************************************)

LEMMA QueueFacts ==
  ASSUME NEW q \in Seq(Messages)
  PROVE  /\ Append(q, Message("NETIFUPDATED", 0)) \in Seq(Messages)
         /\ q # << >> => Head(q) \in Messages /\ Tail(q) \in Seq(Messages)
         /\ <<Message("TIMER_TICK", 0)>> \in Seq(Messages)
         /\ <<Message("SYSTEM_SHUTDOWN", 0)>> \in Seq(Messages)
         /\ \A c \in Container : <<Message("GUEST_EXIT", c)>> \in Seq(Messages)
<1>1. /\ Message("NETIFUPDATED", 0) \in Messages
      /\ Message("TIMER_TICK", 0) \in Messages
      /\ Message("SYSTEM_SHUTDOWN", 0) \in Messages
      /\ \A c \in Container : Message("GUEST_EXIT", c) \in Messages
  BY DEF Message, Messages
<1>2. q # << >> => Head(q) \in Messages /\ Tail(q) \in Seq(Messages)
  BY HeadTailProperties
<1>3. Append(q, Message("NETIFUPDATED", 0)) \in Seq(Messages)
  BY <1>1, AppendProperties
<1>4. \A m \in Messages : <<m>> \in Seq(Messages)
  OBVIOUS
<1>5. QED BY <1>1, <1>2, <1>3, <1>4

\* A handler that takes each container through a SafeStep keeps the invariant.
LEMMA SafeStepKeepsInv ==
  (/\ ControlInv /\ TypeOK' /\ PhaseInv'
   /\ \A c \in Container : SafeStep(cc[c], cc'[c])
   /\ pc' = "boot" => pc = "boot" /\ idx' = idx
   /\ pc' # "exited" => pc # "exited"
   /\ sys_state' = "SHUTDOWN" => \A c \in Container : cc'[c].status \in Quiet)
  => ControlInv'
<1> SUFFICES ASSUME ControlInv, TypeOK', PhaseInv',
                    \A c \in Container : SafeStep(cc[c], cc'[c]),
                    pc' = "boot" => pc = "boot" /\ idx' = idx,
                    pc' # "exited" => pc # "exited",
                    sys_state' = "SHUTDOWN" => \A c \in Container : cc'[c].status \in Quiet
             PROVE  ControlInv'
  OBVIOUS
<1>1. BootInv'
  BY DEF ControlInv, BootInv, SafeStep
<1>2. RoleExclusive'
  BY DEF ControlInv, RoleExclusive, SafeStep
<1>3. InstanceMatchesStatus'
  BY DEF ControlInv, InstanceMatchesStatus, SafeStep, Running
<1>4. NoLaunchInShutdown'
  BY DEF NoLaunchInShutdown, Quiet
<1>5. WorkerInv'
  BY DEF ControlInv, WorkerInv, SafeStep
<1>6. QED BY <1>1, <1>2, <1>3, <1>4, <1>5 DEF ControlInv

\* The same for a step that leaves the containers and the system state alone.
LEMMA SameContainers ==
  (/\ ControlInv /\ TypeOK' /\ PhaseInv' /\ UNCHANGED <<cc, sys_state>>
   /\ pc' = "boot" => pc = "boot" /\ idx' = idx
   /\ pc' # "exited" => pc # "exited")
  => ControlInv'
<1> SUFFICES ASSUME ControlInv, TypeOK', PhaseInv', UNCHANGED <<cc, sys_state>>,
                    pc' = "boot" => pc = "boot" /\ idx' = idx,
                    pc' # "exited" => pc # "exited"
             PROVE  ControlInv'
  OBVIOUS
<1>1. \A c \in Container : SafeStep(cc[c], cc'[c])
  BY DEF ControlInv, TypeOK, SafeStep
<1>2. sys_state' = "SHUTDOWN" => \A c \in Container : cc'[c].status \in Quiet
  BY DEF ControlInv, NoLaunchInShutdown, Quiet
<1>3. QED BY <1>1, <1>2, SafeStepKeepsInv

LEMMA InitInv == Init => ControlInv
<1> SUFFICES ASSUME Init PROVE ControlInv
  OBVIOUS
<1> USE ConfigAssumption DEF Init
<1>1. \A c \in Container :
        /\ cc[c] \in ContainerType
        /\ cc[c].status = "DISABLE" /\ ~ cc[c].lxc /\ cc[c].wq.status = "INACTIVE"
  BY DEF ContainerType, Status, InitialWorkqueue, WorkqueueType, WorkerStatus, Jobs
<1>2. TypeOK
  <2>1. cc \in [Container -> ContainerType]
    BY <1>1
  <2>2. queue \in Seq(Messages)
    OBVIOUS
  <2>3. idx \in Nat /\ idx \in 1 .. NumRoles + 1
    OBVIOUS
  <2>4. QED BY <2>1, <2>2, <2>3 DEF TypeOK, ProgramCounter
<1>3. PhaseInv /\ BootInv /\ RoleExclusive
  BY <1>1 DEF PhaseInv, BootInv, RoleExclusive
<1>4. InstanceMatchesStatus /\ NoLaunchInShutdown /\ WorkerInv
  BY <1>1 DEF InstanceMatchesStatus, NoLaunchInShutdown, WorkerInv, Busy
<1>5. QED BY <1>2, <1>3, <1>4 DEF ControlInv

\* A container of ControlInv that is disabled, dead or not started can be started.
LEMMA StartableFacts ==
  ASSUME ControlInv, NEW c \in Container, pc # "exited",
         cc[c].status \in {"DISABLE", "DEAD", "NOT_STARTED"}
  PROVE  /\ cc[c].status = "DEAD" => Startable(cc[c])
         /\ Startable([cc[c] EXCEPT !.status = "NOT_STARTED"])
<1>1. cc[c] \in ContainerType /\ ~ cc[c].lxc /\ cc[c].wq.status \notin Busy
  BY DEF ControlInv, TypeOK, InstanceMatchesStatus, WorkerInv
<1>2. QED BY <1>1 DEF Startable, ContainerType, Status

\* cc' is ccs with c started, for ccs in which every container is as
\* ControlInv wants it; no other guest of the role of c is enabled.
LEMMA StartKeepsInv ==
  ASSUME ControlInv, TypeOK', PhaseInv', sys_state' = "RUN", pc' # "exited",
         NEW c \in Container, NEW ccs \in [Container -> ContainerType], NEW x,
         cc' = [ccs EXCEPT ![c] = x], AfterStart(ccs[c], x),
         BootInv',
         \A d \in Container \ {c} :
           /\ RoleOf[d] = RoleOf[c] => ccs[d].status = "DISABLE"
           /\ cc[d].status = "DISABLE" => ccs[d].status = "DISABLE"
           /\ ccs[d].lxc <=> ccs[d].status \in Running
           /\ ccs[d].wq.status \in Busy =>
                ccs[d].status \in {"RUN_WORKER", "EXIT"} /\ ~ ccs[d].rootfs /\ ~ ccs[d].disk
  PROVE  ControlInv'
<1>1. cc'[c] = x /\ \A d \in Container \ {c} : cc'[d] = ccs[d]
  OBVIOUS
<1>2. RoleExclusive'
  BY <1>1 DEF ControlInv, RoleExclusive
<1>3. InstanceMatchesStatus'
  BY <1>1 DEF InstanceMatchesStatus, Running, AfterStart
<1>4. WorkerInv'
  BY <1>1 DEF WorkerInv, AfterStart
<1>5. NoLaunchInShutdown'
  BY DEF NoLaunchInShutdown
<1>6. QED BY <1>2, <1>3, <1>4, <1>5 DEF ControlInv

\* The same for StartGuest within a handler of the run state.
LEMMA StartGuestKeepsInv ==
  ASSUME ControlInv, pc # "exited", sys_state = "RUN",
         NEW c \in Container, NEW ccs \in [Container -> ContainerType], NEW notify \in BOOLEAN,
         Startable(ccs[c]), StartGuest(c, ccs, notify),
         UNCHANGED <<sys_state, active, mng, rootdev, disk_ok>>,
         pc' \in {"boot", "sweep", "timeouts"}, idx' \in Nat,
         pc' = "boot" => idx' \in 1 .. NumRoles + 1,
         pc' = "sweep" => idx' \in 1 .. NumContainers,
         pc' = "boot" => \A d \in Container : RoleOf[d] >= idx' => d # c /\ ccs[d].status = "DISABLE",
         \A d \in Container \ {c} :
           /\ RoleOf[d] = RoleOf[c] => ccs[d].status = "DISABLE"
           /\ cc[d].status = "DISABLE" => ccs[d].status = "DISABLE"
           /\ ccs[d].lxc <=> ccs[d].status \in Running
           /\ ccs[d].wq.status \in Busy =>
                ccs[d].status \in {"RUN_WORKER", "EXIT"} /\ ~ ccs[d].rootfs /\ ~ ccs[d].disk
  PROVE  ControlInv'
<1>1. TypeOK
  BY DEF ControlInv
<1>2. leaked \in BOOLEAN
  BY <1>1 DEF TypeOK
<1>3. PICK x :
        /\ cc' = [ccs EXCEPT ![c] = x]
        /\ AfterStart(ccs[c], x)
        /\ x.status = "STARTED" => guest[c] = "none" /\ guest' = [guest EXCEPT ![c] = "up"]
        /\ x.status # "STARTED" => guest' = guest
        /\ queue' \in {queue, Append(queue, Message("NETIFUPDATED", 0))}
        /\ leaked' \in BOOLEAN
  BY <1>2, StartGuestFacts
<1>4. TypeOK'
  <2>1. cc' \in [Container -> ContainerType]
    BY <1>3 DEF AfterStart
  <2>2. queue' \in Seq(Messages)
    BY <1>1, <1>3, QueueFacts DEF TypeOK
  <2>3. guest' \in [Container -> {"none", "up", "killed"}]
    BY <1>1, <1>3 DEF TypeOK
  <2>4. QED BY <1>1, <1>3, <2>1, <2>2, <2>3 DEF TypeOK, ProgramCounter
<1>5. PhaseInv'
  BY DEF PhaseInv
<1>6. BootInv'
  BY <1>3 DEF BootInv
<1>7. QED BY <1>3, <1>4, <1>5, <1>6, StartKeepsInv

LEMMA BootKeepsInv == ControlInv /\ Boot => ControlInv'
<1> SUFFICES ASSUME ControlInv, Boot PROVE ControlInv'
  OBVIOUS
<1> USE ConfigAssumption
<1> DEFINE c == active[idx]
           ccs == [cc EXCEPT ![c].status = "NOT_STARTED"]
<1>1. /\ TypeOK /\ PhaseInv /\ BootInv
      /\ pc = "boot" /\ idx \in Role /\ idx' = idx + 1 /\ sys_state = "RUN"
      /\ UNCHANGED <<sys_state, active, mng, pc, rootdev, disk_ok>>
  BY DEF ControlInv, Boot, TypeOK, PhaseInv, Role
<1>2. idx' \in Nat /\ idx' \in 1 .. NumRoles + 1
  BY <1>1 DEF Role
<1>3. \A d \in Container : RoleOf[d] \in Int /\ (RoleOf[d] >= idx' => RoleOf[d] >= idx /\ RoleOf[d] # idx)
  BY <1>1 DEF Role
<1>4. CASE c = 0
  <2>1. UNCHANGED <<cc, guest, leaked, queue>>
    BY <1>4 DEF Boot
  <2>2. TypeOK' /\ PhaseInv'
    BY <1>1, <1>2, <2>1 DEF TypeOK, PhaseInv
  <2>3. BootInv'
    BY <1>1, <1>3, <2>1 DEF BootInv
  <2>4. RoleExclusive' /\ InstanceMatchesStatus'
    BY <1>1, <2>1 DEF ControlInv, RoleExclusive, InstanceMatchesStatus
  <2>5. NoLaunchInShutdown' /\ WorkerInv'
    BY <1>1, <2>1 DEF ControlInv, NoLaunchInShutdown, WorkerInv
  <2>6. QED BY <2>2, <2>3, <2>4, <2>5 DEF ControlInv
<1>5. CASE c # 0
  <2>1. c \in Container /\ RoleOf[c] = idx
    BY <1>1, <1>5 DEF TypeOK
  <2>2. cc[c].status = "DISABLE" /\ \A d \in Container : RoleOf[d] >= idx => cc[d].status = "DISABLE"
    BY <1>1, <2>1 DEF BootInv, Role
  <2>3. Startable([cc[c] EXCEPT !.status = "NOT_STARTED"])
    BY <1>1, <2>1, <2>2, StartableFacts
  <2>4. /\ cc \in [Container -> ContainerType]
        /\ ccs[c] = [cc[c] EXCEPT !.status = "NOT_STARTED"]
        /\ \A d \in Container \ {c} : ccs[d] = cc[d]
        /\ ccs \in [Container -> ContainerType]
    <3>1. cc \in [Container -> ContainerType]
      BY <1>1 DEF TypeOK
    <3>2. [cc[c] EXCEPT !.status = "NOT_STARTED"] \in ContainerType
      BY <2>1, <3>1 DEF ContainerType, Status
    <3>3. ccs = [cc EXCEPT ![c] = [cc[c] EXCEPT !.status = "NOT_STARTED"]]
      BY <2>1, <3>1
    <3> HIDE DEF ccs
    <3>4. QED BY <2>1, <3>1, <3>2, <3>3
  <2>5. StartGuest(c, ccs, FALSE)
    BY <1>5 DEF Boot
  <2> HIDE DEF ccs
  <2>6. \A d \in Container \ {c} :
          /\ RoleOf[d] = RoleOf[c] => ccs[d].status = "DISABLE"
          /\ cc[d].status = "DISABLE" => ccs[d].status = "DISABLE"
          /\ ccs[d].lxc <=> ccs[d].status \in Running
          /\ ccs[d].wq.status \in Busy =>
               ccs[d].status \in {"RUN_WORKER", "EXIT"} /\ ~ ccs[d].rootfs /\ ~ ccs[d].disk
    <3>1. \A d \in Container \ {c} : RoleOf[d] = RoleOf[c] => ccs[d].status = "DISABLE"
      BY <1>1, <2>1, <2>2, <2>4 DEF Role
    <3>2. QED BY <1>1, <2>4, <3>1 DEF ControlInv, InstanceMatchesStatus, WorkerInv, Running
  <2>7. \A d \in Container : RoleOf[d] >= idx' => d # c /\ ccs[d].status = "DISABLE"
    BY <1>3, <2>1, <2>2, <2>4
  <2>8. /\ Startable(ccs[c]) /\ pc # "exited" /\ sys_state = "RUN"
        /\ pc' \in {"boot", "sweep", "timeouts"}
        /\ pc' = "sweep" => idx' \in 1 .. NumContainers
        /\ UNCHANGED <<sys_state, active, mng, rootdev, disk_ok>>
    BY <1>1, <2>3, <2>4
  <2> HIDE DEF c
  <2>9. FALSE \in BOOLEAN
    OBVIOUS
  <2>10. QED BY <1>2, <2>1, <2>4, <2>5, <2>6, <2>7, <2>8, <2>9, StartGuestKeepsInv
<1>6. QED BY <1>4, <1>5

LEMMA SweepFacts ==
  ASSUME ControlInv, pc = "sweep", NextInSweep, SweepUnchanged
  PROVE  /\ TypeOK /\ sys_state = "RUN" /\ sys_state' = "RUN" /\ idx \in Container
         /\ pc' \in {"sweep", "timeouts"} /\ idx' \in Nat
         /\ pc' = "sweep" => idx' \in 1 .. NumContainers
         /\ UNCHANGED <<sys_state, active, mng, rootdev, disk_ok>>
BY ConfigAssumption DEF ControlInv, TypeOK, PhaseInv, NextInSweep, SweepUnchanged, Container

LEMMA RelaunchKeepsInv ==
  ASSUME ControlInv, pc = "sweep", NextInSweep, SweepUnchanged, NEW c \in Container, Relaunch(c)
  PROVE  ControlInv'
<1>1. /\ TypeOK /\ pc # "exited" /\ sys_state = "RUN"
      /\ pc' \in {"boot", "sweep", "timeouts"} /\ pc' # "boot" /\ idx' \in Nat
      /\ pc' = "sweep" => idx' \in 1 .. NumContainers
      /\ UNCHANGED <<sys_state, active, mng, rootdev, disk_ok>>
  BY SweepFacts
<1>2. cc \in [Container -> ContainerType] /\ cc[c].status = "DEAD" /\ StartGuest(c, cc, TRUE)
  BY <1>1 DEF TypeOK, Relaunch
<1>3. Startable(cc[c])
  BY <1>1, <1>2, StartableFacts
<1>4. \A d \in Container \ {c} :
        /\ RoleOf[d] = RoleOf[c] => cc[d].status = "DISABLE"
        /\ cc[d].lxc <=> cc[d].status \in Running
        /\ cc[d].wq.status \in Busy =>
             cc[d].status \in {"RUN_WORKER", "EXIT"} /\ ~ cc[d].rootfs /\ ~ cc[d].disk
  BY <1>1, <1>2 DEF ControlInv, RoleExclusive, InstanceMatchesStatus, WorkerInv, Running
<1>5. TRUE \in BOOLEAN
  OBVIOUS
<1>6. QED BY <1>1, <1>2, <1>3, <1>4, <1>5, StartGuestKeepsInv

LEMMA ExchangeKeepsInv ==
  ASSUME ControlInv, pc = "sweep", NextInSweep, SweepUnchanged, NEW c \in Container, Exchange(c)
  PROVE  ControlInv'
<1> DEFINE a == ActiveOf(c)
           k == [CleanupContainer(cc[c]) EXCEPT !.status = "DISABLE"]
           n == [cc[a] EXCEPT !.status = "NOT_STARTED"]
           ccs == [cc EXCEPT ![c] = [CleanupContainer(@) EXCEPT !.status = "DISABLE"],
                             ![a].status = "NOT_STARTED"]
<1>1. /\ TypeOK /\ pc # "exited" /\ sys_state = "RUN"
      /\ pc' \in {"boot", "sweep", "timeouts"} /\ pc' # "boot" /\ idx' \in Nat
      /\ pc' = "sweep" => idx' \in 1 .. NumContainers
      /\ UNCHANGED <<sys_state, active, mng, rootdev, disk_ok>>
  BY SweepFacts
<1>2. cc[c].status = "NOT_STARTED" /\ a # c /\ a # 0 /\ StartGuest(a, ccs, TRUE)
  BY DEF Exchange
<1>3. a \in Container /\ RoleOf[a] = RoleOf[c]
  BY <1>1, <1>2, ConfigAssumption DEF TypeOK, ActiveOf
<1>4. cc \in [Container -> ContainerType] /\ cc[c].wq.status \notin Busy
  BY <1>1, <1>2 DEF TypeOK, ControlInv, WorkerInv
<1>5. k \in ContainerType /\ k.status = "DISABLE" /\ ~ k.lxc /\ k.wq = cc[c].wq
  BY <1>4 DEF CleanupContainer, Terminate, ContainerType, Status
<1>6. cc[a].status = "DISABLE"
  BY <1>2, <1>3 DEF ControlInv, RoleExclusive
<1>7. Startable(n) /\ n \in ContainerType
  BY <1>1, <1>3, <1>6, StartableFacts DEF Startable
<1>8. ccs = [cc EXCEPT ![c] = k, ![a] = n]
  BY <1>2, <1>3, <1>4
<1> HIDE DEF a, k, n, ccs
<1>9. /\ ccs \in [Container -> ContainerType]
      /\ ccs[a] = n /\ ccs[c] = k
      /\ \A d \in Container \ {a, c} : ccs[d] = cc[d]
  BY <1>2, <1>3, <1>4, <1>5, <1>7, <1>8
<1>10. \A d \in Container \ {a} :
         /\ RoleOf[d] = RoleOf[a] => ccs[d].status = "DISABLE"
         /\ cc[d].status = "DISABLE" => ccs[d].status = "DISABLE"
         /\ ccs[d].lxc <=> ccs[d].status \in Running
         /\ ccs[d].wq.status \in Busy =>
              ccs[d].status \in {"RUN_WORKER", "EXIT"} /\ ~ ccs[d].rootfs /\ ~ ccs[d].disk
  <2> TAKE d \in Container \ {a}
  <2>1. CASE d = c
    BY <2>1, <1>4, <1>5, <1>9 DEF Running
  <2>2. CASE d # c
    <3>1. RoleOf[d] = RoleOf[a] => cc[d].status = "DISABLE"
      BY <2>2, <1>2, <1>3 DEF ControlInv, RoleExclusive
    <3>2. QED BY <2>2, <3>1, <1>1, <1>9 DEF ControlInv, InstanceMatchesStatus, WorkerInv, Running
  <2>3. QED BY <2>1, <2>2
<1>11. Startable(ccs[a]) /\ TRUE \in BOOLEAN
  BY <1>7, <1>9
<1>12. QED BY <1>1, <1>2, <1>3, <1>9, <1>10, <1>11, StartGuestKeepsInv

\* A step that changes one container in a safe way.
LEMMA OneContainer ==
  ASSUME ControlInv, NEW c \in Container, NEW x, cc' = [cc EXCEPT ![c] = x], SafeStep(cc[c], x)
  PROVE  /\ cc' \in [Container -> ContainerType]
         /\ \A d \in Container : SafeStep(cc[d], cc'[d])
         /\ \A d \in Container : d # c => cc'[d] = cc[d]
         /\ cc'[c] = x
BY DEF ControlInv, TypeOK, SafeStep

LEMMA RunWorkerKeepsInv ==
  ASSUME ControlInv, pc = "sweep", NextInSweep, SweepUnchanged, NEW c \in Container, RunWorker(c)
  PROVE  ControlInv'
<1> DEFINE k == CleanupContainer(cc[c])
<1>1. /\ TypeOK /\ sys_state' = "RUN" /\ pc' \in {"sweep", "timeouts"} /\ idx' \in Nat
      /\ pc' = "sweep" => idx' \in 1 .. NumContainers
      /\ UNCHANGED <<sys_state, active, mng, rootdev, disk_ok>>
  BY SweepFacts
<1>2. cc[c].status = "NOT_STARTED" /\ UNCHANGED <<guest, leaked, queue>>
  BY DEF RunWorker
<1>3. cc[c] \in ContainerType /\ ~ cc[c].lxc /\ cc[c].wq.status \notin Busy
  BY <1>1, <1>2 DEF TypeOK, ControlInv, WorkerInv, InstanceMatchesStatus
<1>4. /\ k \in ContainerType /\ k.status = "NOT_STARTED" /\ ~ k.lxc /\ ~ k.rootfs /\ ~ k.disk
      /\ k.wq = cc[c].wq
  BY <1>2, <1>3 DEF CleanupContainer, Terminate, ContainerType
<1> HIDE DEF k
<1>5. PICK x : cc' = [cc EXCEPT ![c] = x] /\ SafeStep(cc[c], x)
  <2>1. CASE k.wq.status # "SCHEDULED"
    <3>1. cc' = [cc EXCEPT ![c] = k]
      BY <2>1 DEF RunWorker, k
    <3>2. QED BY <1>2, <1>3, <1>4, <3>1 DEF SafeStep, Running
  <2>2. CASE k.wq.status = "SCHEDULED"
    <3>1. PICK created \in BOOLEAN :
            cc' = [cc EXCEPT ![c] = [k EXCEPT !.wq = Run(@, created), !.status = "RUN_WORKER"]]
      BY <2>2 DEF RunWorker, k
    <3> DEFINE x == [k EXCEPT !.wq = Run(@, created), !.status = "RUN_WORKER"]
    <3>2. Run(k.wq, created) \in WorkqueueType
      BY <1>4 DEF Run, ContainerType, WorkqueueType, WorkerStatus
    <3>3. SafeStep(cc[c], x)
      BY <1>2, <1>3, <1>4, <3>2 DEF SafeStep, Running, ContainerType, Status
    <3>4. QED BY <3>1, <3>3
  <2>3. QED BY <2>1, <2>2
<1>6. cc' \in [Container -> ContainerType] /\ \A d \in Container : SafeStep(cc[d], cc'[d])
  BY <1>5, OneContainer
<1>7. TypeOK' /\ PhaseInv'
  BY <1>1, <1>2, <1>6 DEF TypeOK, ProgramCounter, PhaseInv
<1>8. QED BY <1>1, <1>6, <1>7, SafeStepKeepsInv

LEMMA FinishWorkerKeepsInv ==
  ASSUME ControlInv, pc = "sweep", NextInSweep, SweepUnchanged, NEW c \in Container, FinishWorker(c)
  PROVE  ControlInv'
<1> DEFINE x == [cc[c] EXCEPT !.wq = Cleanup(@),
                              !.status = IF cc[c].wq.after THEN "DEAD" ELSE "NOT_STARTED"]
<1>1. /\ TypeOK /\ sys_state' = "RUN" /\ pc' \in {"sweep", "timeouts"} /\ idx' \in Nat
      /\ pc' = "sweep" => idx' \in 1 .. NumContainers
      /\ UNCHANGED <<sys_state, active, mng, rootdev, disk_ok>>
  BY SweepFacts
<1>2. cc[c].status = "RUN_WORKER" /\ CanCleanup(cc[c].wq) /\ UNCHANGED <<guest, leaked, queue>>
  BY DEF FinishWorker
<1>3. cc \in [Container -> ContainerType] /\ cc[c] \in ContainerType /\ cc[c].wq \in WorkqueueType
  BY <1>1 DEF TypeOK, ContainerType
<1>4. cc' = [cc EXCEPT ![c] = x]
  BY <1>3 DEF FinishWorker
<1>5. Cleanup(cc[c].wq) \in WorkqueueType /\ Cleanup(cc[c].wq).status = "INACTIVE"
  BY <1>2, <1>3 DEF Cleanup, CanCleanup, WorkqueueType, WorkerStatus, Jobs
<1>6. SafeStep(cc[c], x)
  BY <1>2, <1>3, <1>5 DEF SafeStep, ContainerType, Status, Running, Busy
<1>7. cc' \in [Container -> ContainerType] /\ \A d \in Container : SafeStep(cc[d], cc'[d])
  BY <1>4, <1>6, OneContainer
<1>8. TypeOK' /\ PhaseInv'
  BY <1>1, <1>2, <1>7 DEF TypeOK, ProgramCounter, PhaseInv
<1>9. QED BY <1>1, <1>7, <1>8, SafeStepKeepsInv

LEMMA SweepKeepsInv == ControlInv /\ Sweep => ControlInv'
<1> SUFFICES ASSUME ControlInv, Sweep PROVE ControlInv'
  OBVIOUS
<1>1. pc = "sweep" /\ NextInSweep /\ SweepUnchanged
  BY DEF Sweep
<1>2. /\ TypeOK /\ sys_state' = "RUN" /\ idx \in Container
      /\ pc' \in {"sweep", "timeouts"} /\ idx' \in Nat
      /\ pc' = "sweep" => idx' \in 1 .. NumContainers
      /\ UNCHANGED <<sys_state, active, mng, rootdev, disk_ok>>
  BY <1>1, SweepFacts
<1>3. CASE SkipContainer(idx)
  <2>1. UNCHANGED <<cc, guest, leaked, queue>>
    BY <1>3 DEF SkipContainer
  <2>2. TypeOK' /\ PhaseInv'
    BY <1>2, <2>1 DEF TypeOK, ProgramCounter, PhaseInv
  <2>3. QED BY <1>1, <1>2, <2>1, <2>2, SameContainers
<1>4. CASE Relaunch(idx)
  BY <1>1, <1>2, <1>4, RelaunchKeepsInv
<1>5. CASE Exchange(idx)
  BY <1>1, <1>2, <1>5, ExchangeKeepsInv
<1>6. CASE RunWorker(idx)
  BY <1>1, <1>2, <1>6, RunWorkerKeepsInv
<1>7. CASE FinishWorker(idx)
  BY <1>1, <1>2, <1>7, FinishWorkerKeepsInv
<1>8. QED BY <1>3, <1>4, <1>5, <1>6, <1>7 DEF Sweep

LEMMA TimeoutsKeepsInv == ControlInv /\ Timeouts => ControlInv'
<1> SUFFICES ASSUME ControlInv, Timeouts PROVE ControlInv'
  OBVIOUS
<1> DEFINE x(c) == IF TimedOut(cc[c])
                   THEN [Terminate(cc[c]) EXCEPT !.status = IF @ = "REBOOT" THEN "DEAD" ELSE "NOT_STARTED"]
                   ELSE cc[c]
<1>1. TypeOK /\ sys_state = "RUN" /\ pc' = "idle"
  BY DEF ControlInv, PhaseInv, Timeouts
<1>2. cc' = [c \in Container |-> x(c)]
  BY DEF Timeouts
<1>3. \A c \in Container : SafeStep(cc[c], x(c))
  <2> TAKE c \in Container
  <2>1. cc[c] \in ContainerType
    BY <1>1 DEF TypeOK
  <2>2. CASE ~ TimedOut(cc[c])
    BY <2>1, <2>2 DEF SafeStep
  <2>3. CASE TimedOut(cc[c])
    <3> DEFINE t == IF cc[c].status = "REBOOT" THEN "DEAD" ELSE "NOT_STARTED"
    <3>1. x(c) = [Terminate(cc[c]) EXCEPT !.status = t]
      BY <2>1, <2>3 DEF Terminate, ContainerType
    <3>2. t \in {"NOT_STARTED", "DEAD", "EXIT"}
      OBVIOUS
    <3> HIDE DEF t
    <3>3. QED BY <2>1, <2>3, <3>1, <3>2, DeadlineFacts
  <2>4. QED BY <2>2, <2>3
<1> HIDE DEF x
<1>4. cc' \in [Container -> ContainerType] /\ \A c \in Container : SafeStep(cc[c], cc'[c])
  BY <1>2, <1>3 DEF SafeStep
<1>5. guest' \in [Container -> {"none", "up", "killed"}]
  BY <1>1 DEF Timeouts, TypeOK, ForceKill
<1>6. TypeOK' /\ PhaseInv' /\ sys_state' = "RUN"
  BY <1>1, <1>4, <1>5 DEF Timeouts, TypeOK, ProgramCounter, PhaseInv
<1>7. pc # "exited"
  BY DEF Timeouts
<1>8. QED BY <1>1, <1>4, <1>6, <1>7, SafeStepKeepsInv

\* container_cleanup of every container at the exit of the program.
LEMMA CleanupFacts ==
  ASSUME ControlInv, ExitManager(cc)
  PROVE  /\ cc' \in [Container -> ContainerType]
         /\ \A c \in Container : /\ cc'[c].status = cc[c].status
                                 /\ cc'[c].wq = cc[c].wq
                                 /\ ~ cc'[c].lxc /\ ~ cc'[c].rootfs /\ ~ cc'[c].disk
<1>1. \A k \in ContainerType :
        LET x == CleanupContainer(k) IN
        x \in ContainerType /\ x.status = k.status /\ x.wq = k.wq /\ ~ x.lxc /\ ~ x.rootfs /\ ~ x.disk
  BY DEF CleanupContainer, Terminate, ContainerType
<1>2. cc \in [Container -> ContainerType] /\ cc' = [c \in Container |-> CleanupContainer(cc[c])]
  BY DEF ControlInv, TypeOK, ExitManager
<1>3. QED BY <1>1, <1>2

LEMMA ExitKeepsInv ==
  ASSUME ControlInv, ExitManager(cc), sys_state' = sys_state, TypeOK'
  PROVE  ControlInv'
<1>1. \A c \in Container : /\ cc'[c].status = cc[c].status
                           /\ cc'[c].wq = cc[c].wq
                           /\ ~ cc'[c].rootfs /\ ~ cc'[c].disk
  BY CleanupFacts
<1>2. pc' = "exited"
  BY DEF ExitManager
<1>3. PhaseInv' /\ BootInv' /\ InstanceMatchesStatus'
  BY <1>2 DEF PhaseInv, BootInv, InstanceMatchesStatus
<1>4. RoleExclusive' /\ NoLaunchInShutdown' /\ WorkerInv'
  BY <1>1 DEF ControlInv, RoleExclusive, NoLaunchInShutdown, WorkerInv
<1>5. QED BY <1>3, <1>4 DEF ControlInv

LEMMA BootDoneKeepsInv == ControlInv /\ BootDone => ControlInv'
<1> SUFFICES ASSUME ControlInv, BootDone PROVE ControlInv'
  OBVIOUS
<1>1. /\ TypeOK /\ pc = "boot" /\ sys_state' = sys_state
      /\ queue' = Append(queue, Message("NETIFUPDATED", 0))
      /\ UNCHANGED <<sys_state, active, leaked, idx, guest, rootdev, disk_ok>>
  BY DEF ControlInv, BootDone
<1>2. queue' \in Seq(Messages)
  BY <1>1, QueueFacts DEF TypeOK
<1>3. CASE mng' \in {"none", "running"} /\ pc' = "idle" /\ UNCHANGED cc
  <2>1. TypeOK' /\ PhaseInv'
    BY <1>1, <1>2, <1>3 DEF TypeOK, ProgramCounter, PhaseInv
  <2>2. QED BY <1>1, <1>3, <2>1, SameContainers
<1>4. CASE mng' = "none" /\ ExitManager(cc)
  <2>1. cc' \in [Container -> ContainerType]
    BY <1>1, <1>4, CleanupFacts
  <2>2. TypeOK'
    BY <1>1, <1>2, <1>4, <2>1 DEF TypeOK, ProgramCounter, ExitManager
  <2>3. QED BY <1>1, <1>4, <2>2, ExitKeepsInv
<1>5. QED BY <1>3, <1>4 DEF BootDone

LEMMA ManagerTerminateKeepsInv == ControlInv /\ ManagerTerminate => ControlInv'
<1> SUFFICES ASSUME ControlInv, ManagerTerminate PROVE ControlInv'
  OBVIOUS
<1>1. /\ TypeOK /\ pc = "shutdown" /\ sys_state = "SHUTDOWN" /\ sys_state' = sys_state
      /\ UNCHANGED <<sys_state, active, queue, leaked, idx, guest, rootdev, disk_ok>>
  BY DEF ControlInv, PhaseInv, ManagerTerminate
<1>2. mng' \in {"none", "running", "finished"}
  BY <1>1 DEF ManagerTerminate, TypeOK
<1>3. CASE pc' = "idle" /\ UNCHANGED cc
  <2>1. TypeOK' /\ PhaseInv'
    BY <1>1, <1>2, <1>3 DEF TypeOK, ProgramCounter, PhaseInv
  <2>2. QED BY <1>1, <1>3, <2>1, SameContainers
<1>4. CASE ExitManager(cc)
  <2>1. cc' \in [Container -> ContainerType]
    BY <1>1, <1>4, CleanupFacts
  <2>2. TypeOK'
    BY <1>1, <1>2, <1>4, <2>1 DEF TypeOK, ProgramCounter, ExitManager
  <2>3. QED BY <1>1, <1>4, <2>2, ExitKeepsInv
<1>5. QED BY <1>3, <1>4 DEF ManagerTerminate

LEMMA WaitForExitKeepsInv == ControlInv /\ WaitForExit => ControlInv'
<1> SUFFICES ASSUME ControlInv, WaitForExit PROVE ControlInv'
  OBVIOUS
<1>1. /\ TypeOK /\ pc = "shutdown" /\ pc' = "idle" /\ sys_state = "SHUTDOWN"
      /\ UNCHANGED <<sys_state, active, queue, mng, leaked, idx, rootdev, disk_ok>>
  BY DEF ControlInv, PhaseInv, WaitForExit
<1>2. \A c \in Container :
        /\ SafeStep(cc[c], AfterShutdownEvent(cc[c]))
        /\ AfterShutdownEvent(cc[c]).status \in Quiet
  BY <1>1, AfterShutdownFacts DEF ControlInv, NoLaunchInShutdown, TypeOK, Quiet
<1>3. /\ cc' \in [Container -> ContainerType]
      /\ \A c \in Container : SafeStep(cc[c], cc'[c]) /\ cc'[c].status \in Quiet
  BY <1>2 DEF WaitForExit, SafeStep
<1>4. guest' \in [Container -> {"none", "up", "killed"}]
  BY <1>1 DEF WaitForExit, TypeOK, ForceKill
<1>5. TypeOK' /\ PhaseInv'
  BY <1>1, <1>3, <1>4 DEF TypeOK, ProgramCounter, PhaseInv
<1>6. QED BY <1>1, <1>3, <1>5, SafeStepKeepsInv

LEMMA ReceiveFacts ==
  ASSUME ControlInv, NEW command, NEW state \in {"RUN", "SHUTDOWN"}, Receive(command, state)
  PROVE  /\ TypeOK /\ pc = "idle" /\ sys_state' = state /\ idx' = 1 /\ idx' \in Nat
         /\ queue # << >> /\ Head(queue) \in Messages /\ Head(queue).command = command
         /\ queue' = Tail(queue) /\ queue' \in Seq(Messages)
         /\ pc' \in {"sweep", "shutdown"} /\ (pc' = "sweep" <=> state = "RUN")
         /\ pc' = "sweep" => idx' \in 1 .. NumContainers
<1>1. TypeOK /\ queue \in Seq(Messages) /\ queue # << >>
  BY DEF ControlInv, TypeOK, Receive
<1>2. Head(queue) \in Messages /\ Tail(queue) \in Seq(Messages)
  BY <1>1, QueueFacts
<1>3. QED BY <1>1, <1>2, ConfigAssumption DEF Receive

LEMMA ReceiveKeepsInv == ControlInv /\ (NetifUpdated \/ TimerTick) => ControlInv'
<1> SUFFICES ASSUME ControlInv, NetifUpdated \/ TimerTick PROVE ControlInv'
  OBVIOUS
<1>1. /\ TypeOK /\ sys_state \in {"RUN", "SHUTDOWN"}
      /\ UNCHANGED <<cc, active, mng, leaked, guest, rootdev, disk_ok>>
  BY DEF ControlInv, TypeOK, NetifUpdated, TimerTick
<1>2. PICK command : Receive(command, sys_state)
  BY DEF NetifUpdated, TimerTick
<1>3. /\ pc = "idle" /\ sys_state' = sys_state /\ idx' \in Nat
      /\ queue' \in Seq(Messages)
      /\ pc' \in {"sweep", "shutdown"} /\ (pc' = "sweep" <=> sys_state = "RUN")
      /\ pc' = "sweep" => idx' \in 1 .. NumContainers
  BY <1>1, <1>2, ReceiveFacts
<1>4. TypeOK' /\ PhaseInv'
  BY <1>1, <1>3 DEF TypeOK, ProgramCounter, PhaseInv
<1>5. QED BY <1>1, <1>3, <1>4, SameContainers

LEMMA GuestExitedKeepsInv == ControlInv /\ GuestExited => ControlInv'
<1> SUFFICES ASSUME ControlInv, GuestExited PROVE ControlInv'
  OBVIOUS
<1> DEFINE c == Head(queue).container
           x == [Terminate(cc[c]) EXCEPT !.status = ExitedStatus(@)]
<1>1. /\ TypeOK /\ sys_state \in {"RUN", "SHUTDOWN"} /\ Receive("GUEST_EXIT", sys_state)
      /\ UNCHANGED <<active, mng, leaked, guest, rootdev, disk_ok>>
  BY DEF ControlInv, TypeOK, GuestExited
<1>2. /\ pc = "idle" /\ sys_state' = sys_state /\ idx' \in Nat
      /\ Head(queue) \in Messages /\ Head(queue).command = "GUEST_EXIT"
      /\ queue' \in Seq(Messages)
      /\ pc' \in {"sweep", "shutdown"} /\ (pc' = "sweep" <=> sys_state = "RUN")
      /\ pc' = "sweep" => idx' \in 1 .. NumContainers
  BY <1>1, ReceiveFacts
<1>3. c \in Container
  BY <1>2 DEF Messages
<1> HIDE DEF c
<1>4. cc \in [Container -> ContainerType] /\ cc[c] \in ContainerType
  BY <1>1, <1>3 DEF TypeOK
<1>5. ExitedStatus(cc[c].status) \in Status
  BY <1>4 DEF ExitedStatus, ContainerType, Status
<1>6. SafeStep(cc[c], x) /\ (sys_state = "SHUTDOWN" => x.status \in Quiet)
  BY <1>4, <1>5, ExitFacts
<1>7. cc' = [cc EXCEPT ![c] = x]
  BY <1>4 DEF GuestExited, c
<1> HIDE DEF x
<1>8. /\ cc' \in [Container -> ContainerType]
      /\ \A d \in Container : SafeStep(cc[d], cc'[d])
      /\ \A d \in Container : d # c => cc'[d] = cc[d]
      /\ cc'[c] = x
  BY <1>3, <1>6, <1>7, OneContainer
<1>9. sys_state' = "SHUTDOWN" => \A d \in Container : cc'[d].status \in Quiet
  BY <1>2, <1>6, <1>8 DEF ControlInv, NoLaunchInShutdown, Quiet
<1>10. TypeOK' /\ PhaseInv'
  BY <1>1, <1>2, <1>8 DEF TypeOK, ProgramCounter, PhaseInv
<1>11. QED BY <1>2, <1>8, <1>9, <1>10, SafeStepKeepsInv

LEMMA SystemShutdownKeepsInv == ControlInv /\ SystemShutdown => ControlInv'
<1> SUFFICES ASSUME ControlInv, SystemShutdown PROVE ControlInv'
  OBVIOUS
<1>1. /\ TypeOK /\ Receive("SYSTEM_SHUTDOWN", "SHUTDOWN")
      /\ UNCHANGED <<active, mng, leaked, rootdev, disk_ok>>
  BY DEF ControlInv, SystemShutdown
<1>2. /\ pc = "idle" /\ sys_state' = "SHUTDOWN" /\ idx' \in Nat
      /\ queue' \in Seq(Messages) /\ pc' = "shutdown"
  BY <1>1, ReceiveFacts
<1>3. PICK ok \in [Container -> ShutdownAnswers] :
        /\ cc' = [c \in Container |-> RequestShutdown(cc[c], "SHUTDOWN", ok[c])]
        /\ guest' = [c \in Container |->
                       IF Kills(cc[c], ok[c]) THEN ForceKill(cc[c], guest[c]) ELSE guest[c]]
  BY DEF SystemShutdown
<1>4. \A c \in Container : cc[c] \in ContainerType /\ ok[c] \in BOOLEAN
  BY <1>1 DEF TypeOK, ShutdownAnswers
<1>5. \A c \in Container :
        LET x == RequestShutdown(cc[c], "SHUTDOWN", ok[c]) IN
        SafeStep(cc[c], x) /\ x.status \in Quiet
  BY <1>4, StopFacts
<1>6. /\ cc' \in [Container -> ContainerType]
      /\ \A c \in Container : SafeStep(cc[c], cc'[c]) /\ cc'[c].status \in Quiet
  BY <1>3, <1>5 DEF SafeStep
<1>7. guest' \in [Container -> {"none", "up", "killed"}]
  BY <1>1, <1>3 DEF TypeOK, ForceKill
<1>8. TypeOK' /\ PhaseInv'
  BY <1>1, <1>2, <1>6, <1>7 DEF TypeOK, ProgramCounter, PhaseInv
<1>9. QED BY <1>2, <1>6, <1>8, SafeStepKeepsInv

\* The sources of the loop: one message is written to the empty queue.
LEMMA SourceKeepsInv == ControlInv /\ (TimerFires \/ Sigterm) => ControlInv'
<1> SUFFICES ASSUME ControlInv, TimerFires \/ Sigterm PROVE ControlInv'
  OBVIOUS
<1>1. /\ TypeOK /\ PhaseInv /\ pc = "idle"
      /\ UNCHANGED <<sys_state, cc, active, mng, leaked, pc, idx, guest, rootdev, disk_ok>>
      /\ queue' \in {<<Message("TIMER_TICK", 0)>>, <<Message("SYSTEM_SHUTDOWN", 0)>>}
  BY DEF ControlInv, TypeOK, TimerFires, Sigterm, Idle
<1>2. queue' \in Seq(Messages)
  BY <1>1, QueueFacts DEF TypeOK
<1>3. TypeOK' /\ PhaseInv'
  BY <1>1, <1>2 DEF TypeOK, PhaseInv
<1>4. QED BY <1>1, <1>3, SameContainers

LEMMA PidfdReadyKeepsInv ==
  ASSUME ControlInv, NEW c \in Container, PidfdReady(c) PROVE ControlInv'
<1> DEFINE x == [cc[c] EXCEPT !.source = "none"]
<1>1. /\ TypeOK /\ PhaseInv /\ pc = "idle"
      /\ UNCHANGED <<sys_state, active, mng, leaked, pc, idx, guest, rootdev, disk_ok>>
      /\ queue' = <<Message("GUEST_EXIT", c)>>
  BY DEF ControlInv, PidfdReady, Idle
<1>2. queue' \in Seq(Messages)
  BY <1>1, QueueFacts DEF TypeOK
<1>3. cc \in [Container -> ContainerType] /\ cc[c] \in ContainerType
  BY <1>1 DEF TypeOK
<1>4. cc' = [cc EXCEPT ![c] = x] /\ SafeStep(cc[c], x) /\ x.status = cc[c].status
  BY <1>3 DEF PidfdReady, SafeStep, ContainerType
<1> HIDE DEF x
<1>5. /\ cc' \in [Container -> ContainerType]
      /\ \A d \in Container : SafeStep(cc[d], cc'[d]) /\ cc'[d].status = cc[d].status
  BY <1>4, OneContainer
<1>6. TypeOK' /\ PhaseInv'
  BY <1>1, <1>2, <1>5 DEF TypeOK, PhaseInv
<1>7. sys_state' = "SHUTDOWN" => \A d \in Container : cc'[d].status \in Quiet
  BY <1>1, <1>5 DEF ControlInv, NoLaunchInShutdown, Quiet
<1>8. QED BY <1>1, <1>5, <1>6, <1>7, SafeStepKeepsInv

\* A command changes at most one container, or the active guest of a role.
LEMMA CommandKeepsInv == ControlInv /\ Command => ControlInv'
<1> SUFFICES ASSUME ControlInv, Command PROVE ControlInv'
  OBVIOUS
<1>1. /\ TypeOK /\ PhaseInv /\ pc = "idle"
      /\ UNCHANGED <<sys_state, queue, mng, leaked, pc, idx, rootdev, disk_ok>>
  BY DEF ControlInv, Command, CommandShutdown, CommandReboot, CommandForceReboot, CommandChange,
         CommandTest, CommandUnchanged, Idle
<1>2. ASSUME NEW c \in Container, NEW x, cc' = [cc EXCEPT ![c] = x], SafeStep(cc[c], x),
             guest' \in [Container -> {"none", "up", "killed"}], active' = active,
             sys_state = "SHUTDOWN" => x.status \in Quiet
      PROVE  ControlInv'
  <2>1. /\ cc' \in [Container -> ContainerType]
        /\ \A d \in Container : SafeStep(cc[d], cc'[d])
        /\ \A d \in Container : d # c => cc'[d] = cc[d]
        /\ cc'[c] = x
    BY <1>2, OneContainer
  <2>2. sys_state' = "SHUTDOWN" => \A d \in Container : cc'[d].status \in Quiet
    BY <1>1, <1>2, <2>1 DEF ControlInv, NoLaunchInShutdown, Quiet
  <2>3. TypeOK' /\ PhaseInv'
    BY <1>1, <1>2, <2>1 DEF TypeOK, PhaseInv
  <2>4. QED BY <1>1, <2>1, <2>2, <2>3, SafeStepKeepsInv
<1>3. \A c \in Container : cc[c] \in ContainerType /\ (sys_state = "SHUTDOWN" => cc[c].status \in Quiet)
  BY <1>1 DEF TypeOK, ControlInv, NoLaunchInShutdown, Quiet
<1>4. sys_state \in {"RUN", "SHUTDOWN"}
  BY <1>1 DEF TypeOK
<1>5. ASSUME NEW c \in Container, CommandShutdown(c) PROVE ControlInv'
  <2>1. PICK ok \in BOOLEAN :
          /\ cc' = [cc EXCEPT ![c] = RequestShutdown(@, sys_state, ok)]
          /\ guest' = [guest EXCEPT ![c] = IF Kills(cc[c], ok) THEN ForceKill(cc[c], @) ELSE @]
    BY <1>5 DEF CommandShutdown, ShutdownAnswers
  <2> DEFINE x == RequestShutdown(cc[c], sys_state, ok)
  <2>2. SafeStep(cc[c], x) /\ (sys_state = "SHUTDOWN" => x.status \in Quiet)
    BY <1>3, <1>4, StopFacts
  <2>3. guest' \in [Container -> {"none", "up", "killed"}] /\ active' = active
    BY <1>1, <1>5, <2>1 DEF TypeOK, ForceKill, CommandShutdown
  <2>4. cc' = [cc EXCEPT ![c] = x]
    BY <1>1, <2>1 DEF TypeOK
  <2> HIDE DEF x
  <2>5. QED BY <1>2, <2>2, <2>3, <2>4
<1>6. ASSUME NEW c \in Container, CommandReboot(c) PROVE ControlInv'
  <2>1. PICK ok \in BOOLEAN :
          /\ cc' = [cc EXCEPT ![c] = RequestReboot(@, sys_state, ok)]
          /\ guest' = [guest EXCEPT ![c] = IF Kills(cc[c], ok) THEN ForceKill(cc[c], @) ELSE @]
    BY <1>6 DEF CommandReboot, ShutdownAnswers
  <2> DEFINE x == RequestReboot(cc[c], sys_state, ok)
  <2>2. SafeStep(cc[c], x) /\ (sys_state = "SHUTDOWN" => x.status \in Quiet)
    BY <1>3, <1>4, StopFacts
  <2>3. guest' \in [Container -> {"none", "up", "killed"}] /\ active' = active
    BY <1>1, <1>6, <2>1 DEF TypeOK, ForceKill, CommandReboot
  <2>4. cc' = [cc EXCEPT ![c] = x]
    BY <1>1, <2>1 DEF TypeOK
  <2> HIDE DEF x
  <2>5. QED BY <1>2, <2>2, <2>3, <2>4
<1>7. ASSUME NEW c \in Container, CommandForceReboot(c) PROVE ControlInv'
  <2>1. TypeOK' /\ PhaseInv' /\ UNCHANGED cc
    BY <1>1, <1>7 DEF TypeOK, PhaseInv, CommandForceReboot, ForceKill
  <2>2. QED BY <1>1, <2>1, SameContainers
<1>8. ASSUME NEW c \in Container, CommandChange(c) PROVE ControlInv'
  <2>1. TypeOK' /\ PhaseInv' /\ UNCHANGED cc
    BY <1>1, <1>8, ConfigAssumption DEF TypeOK, PhaseInv, CommandChange
  <2>2. QED BY <1>1, <2>1, SameContainers
<1>9. ASSUME NEW c \in TestTargets, CommandTest(c) PROVE ControlInv'
  <2>1. c \in Container
    BY ConfigAssumption
  <2>2. cc[c] \in ContainerType /\ cc[c].wq \in WorkqueueType /\ "test" \in Jobs
    BY <1>3, <2>1 DEF ContainerType, Jobs
  <2>3. PICK x \in {cc[c], [cc[c] EXCEPT !.wq = Schedule(@, "test", TRUE)]} :
          cc' = [cc EXCEPT ![c] = x]
    BY <1>9 DEF CommandTest, ScheduleOutcomes
  <2>4. SafeStep(cc[c], x) /\ x.status = cc[c].status
    <3>1. /\ Schedule(cc[c].wq, "test", TRUE) \in WorkqueueType
          /\ Schedule(cc[c].wq, "test", TRUE).status \in Busy => cc[c].wq.status \in Busy
      BY <2>2, WorkqueueFacts
    <3>2. CASE x = cc[c]
      BY <2>2, <3>2 DEF SafeStep
    <3>3. CASE x = [cc[c] EXCEPT !.wq = Schedule(@, "test", TRUE)]
      BY <2>2, <3>1, <3>3 DEF SafeStep, ContainerType
    <3>4. QED BY <2>3, <3>2, <3>3
  <2>5. active' = active /\ guest' \in [Container -> {"none", "up", "killed"}]
    BY <1>1, <1>9 DEF CommandTest, TypeOK
  <2>6. QED BY <1>2, <1>3, <2>1, <2>3, <2>4, <2>5
<1>10. QED BY <1>5, <1>6, <1>7, <1>8, <1>9 DEF Command

LEMMA EnvironmentKeepsInv == ControlInv /\ Environment => ControlInv'
<1> SUFFICES ASSUME ControlInv, Environment PROVE ControlInv'
  OBVIOUS
<1>1. /\ TypeOK /\ PhaseInv
      /\ UNCHANGED <<sys_state, active, queue, leaked, pc, idx>>
  BY DEF ControlInv, Environment, GuestExits, DeadlinePasses, WorkerEnds, RootDeviceAppears,
         DiskDamaged, ManagerWorkerEnds, ManagerUnchanged
<1>2. ASSUME NEW c \in Container, NEW x, cc' = [cc EXCEPT ![c] = x], SafeStep(cc[c], x),
             x.status = cc[c].status,
             mng' = mng, guest' \in [Container -> {"none", "up", "killed"}],
             rootdev' \in [Container -> BOOLEAN], disk_ok' \in [Container -> BOOLEAN]
      PROVE  ControlInv'
  <2>1. /\ cc' \in [Container -> ContainerType]
        /\ \A d \in Container : SafeStep(cc[d], cc'[d])
        /\ \A d \in Container : d # c => cc'[d] = cc[d]
        /\ cc'[c] = x
    BY <1>2, OneContainer
  <2>2. TypeOK' /\ PhaseInv'
    BY <1>1, <1>2, <2>1 DEF TypeOK, PhaseInv
  <2>3. sys_state' = "SHUTDOWN" => \A d \in Container : cc'[d].status \in Quiet
    BY <1>1, <1>2, <2>1 DEF ControlInv, NoLaunchInShutdown, Quiet
  <2>4. QED BY <1>1, <2>1, <2>2, <2>3, SafeStepKeepsInv
<1>3. cc \in [Container -> ContainerType]
  BY <1>1 DEF TypeOK
<1>4. ASSUME NEW c \in Container, GuestExits(c) PROVE ControlInv'
  <2> DEFINE x == [cc[c] EXCEPT !.source = IF @ = "live" THEN "dead" ELSE @]
  <2>1. cc' = [cc EXCEPT ![c] = x] /\ SafeStep(cc[c], x) /\ x.status = cc[c].status
    BY <1>3, <1>4 DEF GuestExits, SafeStep, ContainerType
  <2>2. /\ mng' = mng /\ guest' \in [Container -> {"none", "up", "killed"}]
        /\ rootdev' \in [Container -> BOOLEAN] /\ disk_ok' \in [Container -> BOOLEAN]
    BY <1>1, <1>4 DEF GuestExits, TypeOK
  <2> HIDE DEF x
  <2>3. QED BY <1>2, <2>1, <2>2
<1>5. ASSUME NEW c \in Container, DeadlinePasses(c) PROVE ControlInv'
  <2> DEFINE x == [cc[c] EXCEPT !.expired = TRUE]
  <2>1. cc' = [cc EXCEPT ![c] = x] /\ SafeStep(cc[c], x) /\ x.status = cc[c].status
    BY <1>3, <1>5 DEF DeadlinePasses, SafeStep, ContainerType
  <2>2. /\ mng' = mng /\ guest' \in [Container -> {"none", "up", "killed"}]
        /\ rootdev' \in [Container -> BOOLEAN] /\ disk_ok' \in [Container -> BOOLEAN]
    BY <1>1, <1>5 DEF DeadlinePasses, TypeOK
  <2> HIDE DEF x
  <2>3. QED BY <1>2, <2>1, <2>2
<1>6. ASSUME NEW c \in Container, WorkerEnds(c) PROVE ControlInv'
  <2> DEFINE x == [cc[c] EXCEPT !.wq = Complete(@)]
  <2>1. cc[c] \in ContainerType /\ cc[c].wq \in WorkqueueType /\ cc[c].wq.thread
    BY <1>3, <1>6 DEF ContainerType, WorkerEnds
  <2>2. Complete(cc[c].wq) \in WorkqueueType /\ cc[c].wq.status \in Busy
    BY <2>1 DEF Complete, WorkqueueType, WorkerStatus, Busy
  <2>3. cc' = [cc EXCEPT ![c] = x] /\ SafeStep(cc[c], x) /\ x.status = cc[c].status
    BY <1>3, <1>6, <2>1, <2>2 DEF WorkerEnds, SafeStep, ContainerType
  <2>4. /\ mng' = mng /\ guest' \in [Container -> {"none", "up", "killed"}]
        /\ rootdev' \in [Container -> BOOLEAN] /\ disk_ok' \in [Container -> BOOLEAN]
    BY <1>1, <1>6 DEF WorkerEnds, TypeOK
  <2> HIDE DEF x
  <2>5. QED BY <1>2, <2>3, <2>4
<1>7. ASSUME NEW c \in Container, RootDeviceAppears(c) \/ DiskDamaged(c) PROVE ControlInv'
  <2>1. UNCHANGED cc /\ TypeOK' /\ PhaseInv'
    BY <1>1, <1>7 DEF RootDeviceAppears, DiskDamaged, TypeOK, PhaseInv
  <2>2. QED BY <1>1, <2>1, SameContainers
<1>8. CASE ManagerWorkerEnds
  <2>1. UNCHANGED cc /\ TypeOK' /\ PhaseInv'
    BY <1>1, <1>8 DEF ManagerWorkerEnds, TypeOK, PhaseInv
  <2>2. QED BY <1>1, <2>1, SameContainers
<1>9. QED BY <1>4, <1>5, <1>6, <1>7, <1>8 DEF Environment

LEMMA StutterKeepsInv == ControlInv /\ UNCHANGED vars => ControlInv'
<1> SUFFICES ASSUME ControlInv, UNCHANGED vars PROVE ControlInv'
  OBVIOUS
<1>1. TypeOK' /\ PhaseInv'
  BY DEF ControlInv, TypeOK, PhaseInv, vars
<1>2. QED BY <1>1, SameContainers DEF vars

LEMMA NextKeepsInv == ControlInv /\ [Next]_vars => ControlInv'
<1> SUFFICES ASSUME ControlInv, [Next]_vars PROVE ControlInv'
  OBVIOUS
<1>1. CASE EventLoop
  BY <1>1, BootKeepsInv, BootDoneKeepsInv, ReceiveKeepsInv, GuestExitedKeepsInv,
     SystemShutdownKeepsInv, SweepKeepsInv, TimeoutsKeepsInv, ManagerTerminateKeepsInv,
     WaitForExitKeepsInv DEF EventLoop
<1>2. CASE TimerFires \/ Sigterm
  BY <1>2, SourceKeepsInv
<1>3. CASE \E c \in Container : PidfdReady(c)
  BY <1>3, PidfdReadyKeepsInv
<1>4. CASE Command
  BY <1>4, CommandKeepsInv
<1>5. CASE Environment
  BY <1>5, EnvironmentKeepsInv
<1>6. CASE Terminated \/ UNCHANGED vars
  BY <1>6, StutterKeepsInv DEF Terminated
<1>7. QED BY <1>1, <1>2, <1>3, <1>4, <1>5, <1>6 DEF Next

LEMMA ControlInvariant == Spec => []ControlInv
<1>1. Init => ControlInv
  BY InitInv
<1>2. ControlInv /\ [Next]_vars => ControlInv'
  BY NextKeepsInv
<1>3. QED BY <1>1, <1>2, PTL DEF Spec

\* The state of the program stays within its types: the loop variable of a
\* handler is in range and a queued message has the payload of its command.
THEOREM TypeCorrect == Spec => []TypeOK
<1>1. ControlInv => TypeOK
  BY DEF ControlInv
<1>2. QED BY <1>1, ControlInvariant, PTL

\* A role is served by one guest, whatever guests, devices, workers and commands
\* do and whichever calls to the outside fail: container_exec_internal_event
\* exchanges the guests of a role without a state in which two are enabled.
THEOREM RoleServedByOne == Spec => []RoleExclusive
<1>1. ControlInv => RoleExclusive
  BY DEF ControlInv
<1>2. QED BY <1>1, ControlInvariant, PTL

\* container_start never overwrites a liblxc instance and no instance is kept
\* for a guest that the manager takes to be stopped.
THEOREM InstancesBelongToGuests == Spec => []InstanceMatchesStatus
<1>1. ControlInv => InstanceMatchesStatus
  BY DEF ControlInv
<1>2. QED BY <1>1, ControlInvariant, PTL

\* After container_manager_shutdown no handler, late message or command brings a
\* container back to a state that container_exec_internal_event launches from.
THEOREM ShutdownIsFinal == Spec => []NoLaunchInShutdown
<1>1. ControlInv => NoLaunchInShutdown
  BY DEF ControlInv
<1>2. QED BY <1>1, ControlInvariant, PTL

-----------------------------------------------------------------------------
(***************************************************************************)
(* GuestInv is inductive, together with ControlInv, if every started guest *)
(* is monitored.                                                           *)
(***************************************************************************)

\* A step that starts no guest and after which the loop still watches those
\* that run.
WatchedStep(c) ==
  guest'[c] = "up" =>
    /\ guest[c] = "up"
    /\ QuietStep(cc[c], cc'[c])
    /\ cc[c].lxc => cc'[c].lxc \/ pc' = "exited"

LEMMA WatchedStepKeepsGuests ==
  ASSUME GuestInv, \A c \in Container : WatchedStep(c), pc' # "exited" => pc # "exited",
         NoExit(queue') \/ (queue' = queue /\ pc' = pc /\ queue \in Seq(Messages))
  PROVE  GuestInv'
<1>1. \A c \in Container :
        guest'[c] = "up" =>
          /\ cc'[c].wq.status \notin Busy
          /\ cc'[c].source # "dead"
          /\ pc' # "exited" => cc'[c].lxc /\ cc'[c].source = "live"
  BY DEF GuestInv, WatchedStep, QuietStep
<1>2. \A i \in 1 .. Len(queue') :
        queue'[i].command = "GUEST_EXIT" =>
          Len(queue') = 1 /\ pc' = "idle" /\ guest'[queue'[i].container] # "up"
  <2>1. CASE NoExit(queue')
    BY <2>1 DEF NoExit
  <2>2. CASE queue' = queue /\ pc' = pc /\ queue \in Seq(Messages)
    <3> TAKE i \in 1 .. Len(queue')
    <3> HAVE queue'[i].command = "GUEST_EXIT"
    <3>1. i \in 1 .. Len(queue) /\ queue[i].command = "GUEST_EXIT" /\ queue[i] \in Messages
      BY <2>2
    <3>2. queue[i].container \in Container
      BY <3>1 DEF Messages
    <3>3. QED BY <2>2, <3>1, <3>2 DEF GuestInv, WatchedStep
  <2>3. QED BY <2>1, <2>2
<1>3. QED BY <1>1, <1>2 DEF GuestInv

\* A container without an instance has no running guest.
LEMMA NoInstanceNoGuest ==
  ASSUME ControlInv, GuestInv, pc # "exited", NEW c \in Container,
         cc[c].status \notin Running
  PROVE  ~ cc[c].lxc /\ guest[c] # "up"
BY DEF ControlInv, GuestInv, InstanceMatchesStatus, Running

\* GUEST_EXIT is alone in the queue while the loop waits, and is the message
\* that is taken.
LEMMA ExitQueueFacts ==
  ASSUME ControlInv, GuestInv
  PROVE  /\ queue \in Seq(Messages)
         /\ pc # "idle" => NoExit(queue) /\ NoExit(Append(queue, Message("NETIFUPDATED", 0)))
         /\ queue # << >> => NoExit(Tail(queue))
         /\ queue # << >> /\ Head(queue).command = "GUEST_EXIT" => guest[Head(queue).container] # "up"
<1>1. queue \in Seq(Messages)
  BY DEF ControlInv, TypeOK
<1>2. pc # "idle" => NoExit(queue) /\ NoExit(Append(queue, Message("NETIFUPDATED", 0)))
  <2> SUFFICES ASSUME pc # "idle" 
               PROVE NoExit(queue) /\ NoExit(Append(queue, Message("NETIFUPDATED", 0)))
    OBVIOUS
  <2>1. NoExit(queue)
    BY DEF GuestInv, NoExit
  <2>2. Message("NETIFUPDATED", 0) \in Messages /\ Message("NETIFUPDATED", 0).command # "GUEST_EXIT"
    BY DEF Messages, Message
  <2> DEFINE m == Message("NETIFUPDATED", 0)
  <2> HIDE DEF m
  <2>3. \A i \in 1 .. Len(Append(queue, m)) : Append(queue, m)[i] \in {queue[i], m} /\ (i > Len(queue) => Append(queue, m)[i] = m)
    BY <1>1, <2>2, AppendProperties DEF m
  <2>4. Len(queue) \in Nat
    BY <1>1
  <2>5. QED BY <1>1, <2>1, <2>2, <2>3, <2>4 DEF NoExit, m
<1>3. ASSUME queue # << >> 
      PROVE  /\ NoExit(Tail(queue))
             /\ Head(queue).command = "GUEST_EXIT" => guest[Head(queue).container] # "up"
  <2>1. /\ Len(queue) \in Nat \ {0} /\ Head(queue) = queue[1]
        /\ Len(Tail(queue)) = Len(queue) - 1
        /\ \A i \in 1 .. Len(Tail(queue)) : Tail(queue)[i] = queue[i + 1]
    BY <1>1, <1>3, HeadTailProperties
  <2>2. QED BY <2>1 DEF NoExit, GuestInv
<1>4. QED BY <1>1, <1>2, <1>3

LEMMA StartGuestKeepsGuests ==
  ASSUME "monitor" \notin Faults, ControlInv, GuestInv, pc \notin {"idle", "exited"},
         NEW c \in Container, NEW ccs \in [Container -> ContainerType], NEW notify \in BOOLEAN,
         Startable(ccs[c]), StartGuest(c, ccs, notify),
         \A d \in Container \ {c} : guest[d] = "up" => ccs[d] = cc[d],
         guest[c] # "up"
  PROVE  GuestInv'
<1>1. leaked \in BOOLEAN /\ guest \in [Container -> {"none", "up", "killed"}]
  BY DEF ControlInv, TypeOK
<1>2. PICK x :
        /\ cc' = [ccs EXCEPT ![c] = x]
        /\ AfterStart(ccs[c], x)
        /\ x.status = "STARTED" => guest' = [guest EXCEPT ![c] = "up"] /\ x.source = "live"
        /\ x.status # "STARTED" => guest' = guest
        /\ queue' \in {queue, Append(queue, Message("NETIFUPDATED", 0))}
  BY <1>1, StartGuestFacts
<1>3. NoExit(queue')
  BY <1>2, ExitQueueFacts
<1>4. \A d \in Container :
        guest'[d] = "up" =>
          cc'[d].wq.status \notin Busy /\ cc'[d].lxc /\ cc'[d].source = "live"
  <2> TAKE d \in Container
  <2>1. CASE d = c
    BY <2>1, <1>1, <1>2 DEF AfterStart
  <2>2. CASE d # c
    BY <2>2, <1>1, <1>2 DEF GuestInv
  <2>3. QED BY <2>1, <2>2
<1>5. QED BY <1>3, <1>4 DEF GuestInv, NoExit

\* An operation on one container: guests keeps their state, or are stopped.
LEMMA OneContainerKeepsGuests ==
  ASSUME ControlInv, GuestInv, NEW c \in Container, NEW x, cc' = [cc EXCEPT ![c] = x],
         \A d \in Container : guest'[d] = "up" => guest[d] = "up",
         guest'[c] = "up" => QuietStep(cc[c], x) /\ (cc[c].lxc => x.lxc),
         pc' # "exited" => pc # "exited",
         NoExit(queue') \/ (queue' = queue /\ pc' = pc)
  PROVE  GuestInv'
<1>1. queue \in Seq(Messages) /\ cc \in [Container -> ContainerType]
  BY DEF ControlInv, TypeOK
<1>2. \A d \in Container : WatchedStep(d)
  BY <1>1 DEF WatchedStep, QuietStep
<1>3. QED BY <1>1, <1>2, WatchedStepKeepsGuests

\* The containers and their guests stay as they are, or guests are killed.
LEMMA SameKeepsGuests ==
  ASSUME ControlInv, GuestInv, UNCHANGED cc,
         \A d \in Container : guest'[d] = "up" => guest[d] = "up",
         pc' # "exited" => pc # "exited",
         NoExit(queue') \/ (queue' = queue /\ pc' = pc)
  PROVE  GuestInv'
<1>1. queue \in Seq(Messages)
  BY DEF ControlInv, TypeOK
<1>2. \A d \in Container : WatchedStep(d)
  BY DEF WatchedStep, QuietStep
<1>3. QED BY <1>1, <1>2, WatchedStepKeepsGuests

LEMMA BootKeepsGuests ==
  ASSUME "monitor" \notin Faults, ControlInv, GuestInv, Boot PROVE GuestInv'
<1> DEFINE c == active[idx]
           ccs == [cc EXCEPT ![c].status = "NOT_STARTED"]
<1>1. /\ TypeOK /\ BootInv /\ pc = "boot" /\ pc' = "boot" /\ idx \in Role
  BY ConfigAssumption DEF ControlInv, Boot, TypeOK, Role
<1>2. CASE c = 0
  <2>1. UNCHANGED <<cc, guest, queue>> /\ NoExit(queue')
    BY <1>1, <1>2, ExitQueueFacts DEF Boot
  <2>2. QED BY <1>1, <2>1, SameKeepsGuests
<1>3. CASE c # 0
  <2>1. c \in Container /\ RoleOf[c] = idx
    BY <1>1, <1>3 DEF TypeOK
  <2>2. cc[c].status = "DISABLE" /\ cc \in [Container -> ContainerType]
    BY <1>1, <2>1 DEF BootInv, Role, TypeOK
  <2>3. Startable([cc[c] EXCEPT !.status = "NOT_STARTED"])
    BY <1>1, <2>1, <2>2, StartableFacts
  <2>4. guest[c] # "up"
    BY <1>1, <2>1, <2>2, NoInstanceNoGuest DEF Running
  <2>5. /\ ccs \in [Container -> ContainerType] /\ Startable(ccs[c])
        /\ \A d \in Container \ {c} : guest[d] = "up" => ccs[d] = cc[d]
    BY <2>1, <2>2, <2>3 DEF ContainerType, Status
  <2>6. StartGuest(c, ccs, FALSE) /\ FALSE \in BOOLEAN
    BY <1>3 DEF Boot
  <2> HIDE DEF ccs, c
  <2>7. QED BY <1>1, <2>1, <2>4, <2>5, <2>6, StartGuestKeepsGuests
<1>4. QED BY <1>2, <1>3

LEMMA ExitManagerKeepsGuests ==
  ASSUME ControlInv, GuestInv, ExitManager(cc), UNCHANGED guest, NoExit(queue')
  PROVE  GuestInv'
<1>1. \A k \in ContainerType : QuietStep(k, CleanupContainer(k))
  BY DEF QuietStep, CleanupContainer, Terminate, ContainerType
<1>2. /\ cc \in [Container -> ContainerType]
      /\ cc' = [c \in Container |-> CleanupContainer(cc[c])] /\ pc' = "exited"
  BY DEF ControlInv, TypeOK, ExitManager
<1>3. \A c \in Container : WatchedStep(c)
  BY <1>1, <1>2 DEF WatchedStep
<1>4. QED BY <1>2, <1>3, WatchedStepKeepsGuests

LEMMA BootDoneKeepsGuests ==
  ASSUME ControlInv, GuestInv, BootDone PROVE GuestInv'
<1>1. /\ pc = "boot" /\ queue' = Append(queue, Message("NETIFUPDATED", 0)) /\ UNCHANGED guest
      /\ NoExit(queue')
  BY ExitQueueFacts DEF BootDone
<1>2. CASE UNCHANGED cc
  BY <1>1, <1>2, SameKeepsGuests
<1>3. CASE ExitManager(cc)
  BY <1>1, <1>3, ExitManagerKeepsGuests
<1>4. QED BY <1>2, <1>3 DEF BootDone

LEMMA ReceiveKeepsGuests ==
  ASSUME ControlInv, GuestInv, NetifUpdated \/ TimerTick \/ GuestExited \/ SystemShutdown
  PROVE  GuestInv'
<1>1. PICK command, state : Receive(command, state)
  BY DEF NetifUpdated, TimerTick, GuestExited, SystemShutdown
<1>2. pc = "idle" /\ pc' # "exited" /\ queue # << >> /\ NoExit(queue')
  BY <1>1, ExitQueueFacts DEF Receive
<1>3. CASE NetifUpdated \/ TimerTick
  <2>1. UNCHANGED <<cc, guest>>
    BY <1>3 DEF NetifUpdated, TimerTick
  <2>2. QED BY <1>2, <2>1, SameKeepsGuests
<1>4. CASE GuestExited
  <2> DEFINE c == Head(queue).container
             x == [Terminate(cc[c]) EXCEPT !.status = ExitedStatus(@)]
  <2>1. Head(queue) \in Messages /\ Head(queue).command = "GUEST_EXIT"
    BY <1>4, ReceiveFacts DEF GuestExited, ControlInv, TypeOK
  <2>2. c \in Container /\ guest[c] # "up"
    BY <1>2, <2>1, ExitQueueFacts DEF Messages
  <2>3. cc' = [cc EXCEPT ![c] = x] /\ guest' = guest
    BY <1>4 DEF GuestExited
  <2> HIDE DEF c, x
  <2>4. QED BY <1>2, <2>2, <2>3, OneContainerKeepsGuests
<1>5. CASE SystemShutdown
  <2>1. PICK ok \in [Container -> ShutdownAnswers] :
          /\ cc' = [c \in Container |-> RequestShutdown(cc[c], "SHUTDOWN", ok[c])]
          /\ guest' = [c \in Container |->
                         IF Kills(cc[c], ok[c]) THEN ForceKill(cc[c], guest[c]) ELSE guest[c]]
    BY <1>5 DEF SystemShutdown
  <2>2. \A c \in Container : WatchedStep(c)
    <3> TAKE c \in Container
    <3>1. cc[c] \in ContainerType /\ ok[c] \in BOOLEAN
      BY DEF ControlInv, TypeOK, ShutdownAnswers
    <3>2. /\ QuietStep(cc[c], RequestShutdown(cc[c], "SHUTDOWN", ok[c]))
          /\ cc[c].lxc /\ ~ RequestShutdown(cc[c], "SHUTDOWN", ok[c]).lxc => Kills(cc[c], ok[c])
      BY <3>1, StopFacts
    <3>3. cc[c].lxc /\ Kills(cc[c], ok[c]) => guest'[c] # "up"
      BY <2>1 DEF ForceKill
    <3>4. guest'[c] = "up" => guest[c] = "up"
      BY <2>1 DEF ForceKill
    <3>5. QED BY <2>1, <3>2, <3>3, <3>4 DEF WatchedStep
  <2>3. QED BY <1>2, <2>2, WatchedStepKeepsGuests
<1>6. QED BY <1>3, <1>4, <1>5

LEMMA SweepKeepsGuests ==
  ASSUME "monitor" \notin Faults, ControlInv, GuestInv, Sweep PROVE GuestInv'
<1>1. pc = "sweep" /\ NextInSweep /\ SweepUnchanged
  BY DEF Sweep
<1>2. /\ TypeOK /\ idx \in Container /\ pc \notin {"idle", "exited"} /\ NoExit(queue)
      /\ cc \in [Container -> ContainerType] /\ TRUE \in BOOLEAN
  BY <1>1, SweepFacts, ExitQueueFacts DEF TypeOK
<1>3. CASE Relaunch(idx)
  <2>1. cc[idx].status = "DEAD" /\ StartGuest(idx, cc, TRUE)
    BY <1>3 DEF Relaunch
  <2>2. Startable(cc[idx]) /\ guest[idx] # "up"
    BY <1>2, <2>1, StartableFacts, NoInstanceNoGuest DEF Running
  <2>3. QED BY <1>2, <2>1, <2>2, StartGuestKeepsGuests
<1>4. CASE Exchange(idx)
  <2> DEFINE a == ActiveOf(idx)
             k == [CleanupContainer(cc[idx]) EXCEPT !.status = "DISABLE"]
             n == [cc[a] EXCEPT !.status = "NOT_STARTED"]
             ccs == [cc EXCEPT ![idx] = [CleanupContainer(@) EXCEPT !.status = "DISABLE"],
                               ![a].status = "NOT_STARTED"]
  <2>1. cc[idx].status = "NOT_STARTED" /\ a # idx /\ a # 0 /\ StartGuest(a, ccs, TRUE)
    BY <1>4 DEF Exchange
  <2>2. a \in Container /\ RoleOf[a] = RoleOf[idx]
    BY <1>2, <2>1, ConfigAssumption DEF TypeOK, ActiveOf
  <2>3. cc[a].status = "DISABLE"
    BY <1>2, <2>1, <2>2 DEF ControlInv, RoleExclusive
  <2>4. guest[a] # "up" /\ guest[idx] # "up"
    BY <1>2, <2>1, <2>2, <2>3, NoInstanceNoGuest DEF Running
  <2>5. Startable(n) /\ n \in ContainerType
    BY <1>2, <2>2, <2>3, StartableFacts DEF Startable
  <2>6. k \in ContainerType
    BY <1>2 DEF CleanupContainer, Terminate, ContainerType, Status
  <2>7. ccs = [cc EXCEPT ![idx] = k, ![a] = n]
    BY <1>2, <2>1, <2>2
  <2> HIDE DEF a, k, n, ccs
  <2>8. /\ ccs \in [Container -> ContainerType] /\ Startable(ccs[a])
        /\ \A d \in Container \ {a} : guest[d] = "up" => ccs[d] = cc[d]
    BY <1>2, <2>1, <2>2, <2>4, <2>5, <2>6, <2>7
  <2>9. QED BY <1>2, <2>1, <2>2, <2>4, <2>8, StartGuestKeepsGuests
<1>5. CASE RunWorker(idx) \/ FinishWorker(idx)
  <2>1. PICK x : cc' = [cc EXCEPT ![idx] = x]
    BY <1>2, <1>5 DEF RunWorker, FinishWorker
  <2>2. guest' = guest /\ queue' = queue /\ guest[idx] # "up"
    BY <1>2, <1>5, NoInstanceNoGuest DEF RunWorker, FinishWorker, Running
  <2>3. QED BY <1>2, <2>1, <2>2, OneContainerKeepsGuests
<1>6. CASE SkipContainer(idx)
  <2>1. UNCHANGED <<cc, guest, queue>>
    BY <1>6 DEF SkipContainer
  <2>2. QED BY <1>2, <2>1, SameKeepsGuests
<1>7. QED BY <1>3, <1>4, <1>5, <1>6 DEF Sweep

\* The deadlines, in the run state and in the shutdown state.
LEMMA DeadlinesKeepGuests ==
  ASSUME ControlInv, GuestInv, Timeouts \/ WaitForExit PROVE GuestInv'
<1>1. /\ pc \notin {"idle", "exited"} /\ queue' = queue /\ NoExit(queue')
      /\ guest' = [c \in Container |-> IF TimedOut(cc[c]) THEN ForceKill(cc[c], guest[c]) ELSE guest[c]]
  BY ExitQueueFacts DEF Timeouts, WaitForExit
<1>2. \A c \in Container : /\ guest'[c] = "up" => guest[c] = "up"
                           /\ cc[c].lxc /\ TimedOut(cc[c]) => guest'[c] # "up"
  BY <1>1 DEF ForceKill
<1>3. \A c \in Container : WatchedStep(c)
  <2> TAKE c \in Container
  <2>1. cc[c] \in ContainerType
    BY DEF ControlInv, TypeOK
  <2>2. CASE Timeouts
    <3>1. CASE ~ TimedOut(cc[c])
      BY <1>2, <2>2, <3>1 DEF Timeouts, WatchedStep, QuietStep
    <3>2. CASE TimedOut(cc[c])
      <4> DEFINE t == IF cc[c].status = "REBOOT" THEN "DEAD" ELSE "NOT_STARTED"
                 x == [Terminate(cc[c]) EXCEPT !.status = t]
      <4>1. cc'[c] = x
        BY <2>1, <2>2, <3>2 DEF Timeouts, Terminate, ContainerType
      <4>2. QuietStep(cc[c], x)
        BY <2>1 DEF QuietStep, Terminate, ContainerType
      <4>3. cc[c].lxc \/ guest[c] # "up"
        BY <1>1 DEF GuestInv
      <4> HIDE DEF x
      <4>4. QED BY <1>2, <3>2, <4>1, <4>2, <4>3 DEF WatchedStep
    <3>3. QED BY <3>1, <3>2
  <2>3. CASE WaitForExit
    <3>1. cc'[c] = AfterShutdownEvent(cc[c])
      BY <2>3 DEF WaitForExit
    <3>2. QuietStep(cc[c], cc'[c]) /\ (cc[c].lxc /\ ~ cc'[c].lxc => TimedOut(cc[c]))
      BY <2>1, <3>1, AfterShutdownFacts
    <3>3. QED BY <1>2, <3>2 DEF WatchedStep
  <2>4. QED BY <2>2, <2>3
<1>4. QED BY <1>1, <1>3, WatchedStepKeepsGuests

LEMMA ManagerTerminateKeepsGuests ==
  ASSUME ControlInv, GuestInv, ManagerTerminate PROVE GuestInv'
<1>1. pc = "shutdown" /\ queue' = queue /\ UNCHANGED guest /\ NoExit(queue')
  BY ExitQueueFacts DEF ManagerTerminate
<1>2. CASE UNCHANGED cc
  BY <1>1, <1>2, SameKeepsGuests
<1>3. CASE ExitManager(cc)
  BY <1>1, <1>3, ExitManagerKeepsGuests
<1>4. QED BY <1>2, <1>3 DEF ManagerTerminate

\* The sources of the loop write to the empty queue.
LEMMA SourceKeepsGuests ==
  ASSUME ControlInv, GuestInv, TimerFires \/ Sigterm PROVE GuestInv'
<1>1. UNCHANGED <<cc, guest, pc>> /\ queue' \in {<<Message("TIMER_TICK", 0)>>, <<Message("SYSTEM_SHUTDOWN", 0)>>}
  BY DEF TimerFires, Sigterm
<1>2. NoExit(queue')
  BY <1>1 DEF NoExit, Message
<1>3. QED BY <1>1, <1>2, SameKeepsGuests

LEMMA PidfdReadyKeepsGuests ==
  ASSUME ControlInv, GuestInv, NEW c \in Container, PidfdReady(c) PROVE GuestInv'
<1>1. /\ pc = "idle" /\ pc' = "idle" /\ guest' = guest
      /\ queue' = <<Message("GUEST_EXIT", c)>>
      /\ guest[c] # "up"
  BY DEF PidfdReady, Idle, GuestInv
<1>2. cc \in [Container -> ContainerType]
  BY DEF ControlInv, TypeOK
<1>3. \A d \in Container : guest[d] = "up" => cc'[d] = cc[d]
  BY <1>1, <1>2 DEF PidfdReady
<1>4. Len(queue') = 1 /\ queue'[1] = Message("GUEST_EXIT", c) /\ queue'[1].container = c
  BY <1>1 DEF Message
<1>5. QED BY <1>1, <1>3, <1>4 DEF GuestInv

LEMMA CommandKeepsGuests ==
  ASSUME ControlInv, GuestInv, Command PROVE GuestInv'
<1>1. /\ pc = "idle" /\ queue' = queue /\ pc' = pc /\ sys_state \in {"RUN", "SHUTDOWN"}
      /\ cc \in [Container -> ContainerType] /\ guest \in [Container -> {"none", "up", "killed"}]
  BY DEF Command, CommandShutdown, CommandReboot, CommandForceReboot, CommandChange,
         CommandTest, CommandUnchanged, Idle, ControlInv, TypeOK
<1>2. ASSUME NEW c \in Container, CommandShutdown(c) \/ CommandReboot(c) PROVE GuestInv'
  <2>1. ASSUME NEW ok \in BOOLEAN,
               NEW x \in {RequestShutdown(cc[c], sys_state, ok), RequestReboot(cc[c], sys_state, ok)},
               cc' = [cc EXCEPT ![c] = x],
               guest' = [guest EXCEPT ![c] = IF Kills(cc[c], ok) THEN ForceKill(cc[c], @) ELSE @]
        PROVE  GuestInv'
    <3>1. QuietStep(cc[c], x) /\ (cc[c].lxc /\ ~ x.lxc => Kills(cc[c], ok))
      BY <1>1, StopFacts
    <3>2. /\ \A d \in Container : guest'[d] = "up" => guest[d] = "up"
          /\ cc[c].lxc /\ Kills(cc[c], ok) => guest'[c] # "up"
      BY <1>1, <2>1 DEF ForceKill
    <3>3. QED BY <1>1, <2>1, <3>1, <3>2, OneContainerKeepsGuests
  <2>2. CASE CommandShutdown(c)
    <3>1. PICK ok \in BOOLEAN :
            /\ cc' = [cc EXCEPT ![c] = RequestShutdown(@, sys_state, ok)]
            /\ guest' = [guest EXCEPT ![c] = IF Kills(cc[c], ok) THEN ForceKill(cc[c], @) ELSE @]
      BY <2>2 DEF CommandShutdown, ShutdownAnswers
    <3>2. QED BY <2>1, <3>1
  <2>3. CASE CommandReboot(c)
    <3>1. PICK ok \in BOOLEAN :
            /\ cc' = [cc EXCEPT ![c] = RequestReboot(@, sys_state, ok)]
            /\ guest' = [guest EXCEPT ![c] = IF Kills(cc[c], ok) THEN ForceKill(cc[c], @) ELSE @]
      BY <2>3 DEF CommandReboot, ShutdownAnswers
    <3>2. QED BY <2>1, <3>1
  <2>4. QED BY <1>2, <2>2, <2>3
<1>3. ASSUME NEW c \in Container, CommandForceReboot(c) \/ CommandChange(c) PROVE GuestInv'
  <2>1. UNCHANGED cc /\ \A d \in Container : guest'[d] = "up" => guest[d] = "up"
    BY <1>1, <1>3 DEF CommandForceReboot, CommandChange, ForceKill
  <2>2. QED BY <1>1, <2>1, SameKeepsGuests
<1>4. ASSUME NEW c \in TestTargets, CommandTest(c) PROVE GuestInv'
  <2>1. c \in Container /\ guest' = guest
    BY <1>4, ConfigAssumption DEF CommandTest
  <2>2. PICK x \in {cc[c], [cc[c] EXCEPT !.wq = Schedule(@, "test", TRUE)]} :
          cc' = [cc EXCEPT ![c] = x]
    BY <1>4 DEF CommandTest, ScheduleOutcomes
  <2>3. QuietStep(cc[c], x) /\ x.lxc = cc[c].lxc
    <3>1. cc[c] \in ContainerType /\ cc[c].wq \in WorkqueueType /\ "test" \in Jobs
      BY <1>1, <2>1 DEF ContainerType, Jobs
    <3>2. Schedule(cc[c].wq, "test", TRUE).status \in Busy => cc[c].wq.status \in Busy
      BY <3>1, WorkqueueFacts
    <3>3. QED BY <2>2, <3>1, <3>2 DEF QuietStep, ContainerType
  <2>4. QED BY <1>1, <2>1, <2>2, <2>3, OneContainerKeepsGuests
<1>5. QED BY <1>2, <1>3, <1>4 DEF Command

LEMMA EnvironmentKeepsGuests ==
  ASSUME ControlInv, GuestInv, Environment PROVE GuestInv'
<1>1. /\ queue' = queue /\ pc' = pc
      /\ cc \in [Container -> ContainerType] /\ guest \in [Container -> {"none", "up", "killed"}]
  BY DEF Environment, GuestExits, DeadlinePasses, WorkerEnds, RootDeviceAppears, DiskDamaged,
         ManagerWorkerEnds, ManagerUnchanged, ControlInv, TypeOK
<1>2. ASSUME NEW c \in Container, GuestExits(c) PROVE GuestInv'
  <2> DEFINE x == [cc[c] EXCEPT !.source = IF @ = "live" THEN "dead" ELSE @]
  <2>1. cc' = [cc EXCEPT ![c] = x]
    BY <1>1, <1>2 DEF GuestExits
  <2>2. guest'[c] # "up" /\ \A d \in Container : guest'[d] = "up" => guest[d] = "up"
    BY <1>1, <1>2 DEF GuestExits
  <2> HIDE DEF x
  <2>3. QED BY <1>1, <2>1, <2>2, OneContainerKeepsGuests
<1>3. ASSUME NEW c \in Container, DeadlinePasses(c) PROVE GuestInv'
  <2> DEFINE x == [cc[c] EXCEPT !.expired = TRUE]
  <2>1. cc' = [cc EXCEPT ![c] = x] /\ QuietStep(cc[c], x) /\ x.lxc = cc[c].lxc /\ guest' = guest
    BY <1>1, <1>3 DEF DeadlinePasses, QuietStep, ContainerType
  <2> HIDE DEF x
  <2>2. QED BY <1>1, <2>1, OneContainerKeepsGuests
<1>4. ASSUME NEW c \in Container, WorkerEnds(c) PROVE GuestInv'
  <2> DEFINE x == [cc[c] EXCEPT !.wq = Complete(@)]
  <2>1. cc' = [cc EXCEPT ![c] = x] /\ guest' = guest /\ cc[c].wq.status \in Busy
    BY <1>1, <1>4 DEF WorkerEnds, ContainerType, WorkqueueType, Busy
  <2>2. QuietStep(cc[c], x) /\ x.lxc = cc[c].lxc
    BY <1>1, <2>1 DEF QuietStep, ContainerType
  <2> HIDE DEF x
  <2>3. QED BY <1>1, <2>1, <2>2, OneContainerKeepsGuests
<1>5. ASSUME NEW c \in Container, RootDeviceAppears(c) \/ DiskDamaged(c) PROVE GuestInv'
  <2>1. UNCHANGED <<cc, guest>>
    BY <1>5 DEF RootDeviceAppears, DiskDamaged
  <2>2. QED BY <1>1, <2>1, SameKeepsGuests
<1>6. CASE ManagerWorkerEnds
  <2>1. UNCHANGED <<cc, guest>>
    BY <1>6 DEF ManagerWorkerEnds
  <2>2. QED BY <1>1, <2>1, SameKeepsGuests
<1>7. QED BY <1>2, <1>3, <1>4, <1>5, <1>6 DEF Environment

LEMMA NextKeepsGuests ==
  ASSUME "monitor" \notin Faults, ControlInv, GuestInv, [Next]_vars PROVE GuestInv'
<1>1. CASE EventLoop
  BY <1>1, BootKeepsGuests, BootDoneKeepsGuests, ReceiveKeepsGuests, SweepKeepsGuests,
     DeadlinesKeepGuests, ManagerTerminateKeepsGuests DEF EventLoop
<1>2. CASE TimerFires \/ Sigterm
  BY <1>2, SourceKeepsGuests
<1>3. CASE \E c \in Container : PidfdReady(c)
  BY <1>3, PidfdReadyKeepsGuests
<1>4. CASE Command
  BY <1>4, CommandKeepsGuests
<1>5. CASE Environment
  BY <1>5, EnvironmentKeepsGuests
<1>6. CASE Terminated \/ UNCHANGED vars
  BY <1>6, SameKeepsGuests DEF Terminated, vars
<1>7. QED BY <1>1, <1>2, <1>3, <1>4, <1>5, <1>6 DEF Next

LEMMA GuestInvariant ==
  ASSUME "monitor" \notin Faults
  PROVE  Spec => [](ControlInv /\ GuestInv)
<1>1. Init => ControlInv /\ GuestInv
  <2>1. Init => GuestInv
    BY DEF Init, GuestInv
  <2>2. QED BY <2>1, InitInv
<1>2. (ControlInv /\ GuestInv) /\ [Next]_vars => (ControlInv /\ GuestInv)'
  BY NextKeepsInv, NextKeepsGuests
<1>3. QED BY <1>1, <1>2, PTL DEF Spec

\* If every started guest is monitored, a running guest that was not killed
\* never drops out of the view of the loop: container_mngsm_guest_exit and
\* container_exited will be told of its end.
THEOREM RunningGuestIsWatched ==
  ASSUME "monitor" \notin Faults
  PROVE  Spec => []RunningGuestWatched
<1>1. GuestInv => RunningGuestWatched
  BY DEF GuestInv, RunningGuestWatched
<1>2. QED BY <1>1, GuestInvariant, PTL

\* If every started guest is monitored, the worker of container_workqueue_run
\* never works on a disk that the manager has mounted or a guest still uses,
\* also when it is cancelled or given up in a shutdown.
THEOREM WorkerHasDiskAlone ==
  ASSUME "monitor" \notin Faults
  PROVE  Spec => []WorkerOwnsDisk
<1>1. ControlInv /\ GuestInv => WorkerOwnsDisk
  BY DEF ControlInv, WorkerInv, GuestInv, WorkerOwnsDisk, Busy
<1>2. QED BY <1>1, GuestInvariant, PTL

\* If every started guest is monitored, container_exited is never called for a
\* container that has been launched again in the meantime.
THEOREM ExitIsCurrent ==
  ASSUME "monitor" \notin Faults
  PROVE  Spec => []NoStaleExit
<1>1. GuestInv => NoStaleExit
  BY DEF GuestInv, NoStaleExit
<1>2. QED BY <1>1, GuestInvariant, PTL

\* If every started guest is monitored and the manager starts, it ends only
\* after each of its guests has ended or was killed.
THEOREM NoGuestLeftBehind ==
  ASSUME "monitor" \notin Faults, "manager" \notin Faults
  PROVE  Spec => []ExitLeavesNoGuest
<1>1. Init => ExitLeavesNoGuest
  BY DEF Init, ExitLeavesNoGuest
<1>2. ControlInv /\ GuestInv /\ ExitLeavesNoGuest /\ [Next]_vars => ExitLeavesNoGuest'
  <2> SUFFICES ASSUME ControlInv, GuestInv, ExitLeavesNoGuest, [Next]_vars, pc' = "exited",
                      NEW c \in Container
               PROVE  guest'[c] # "up"
    BY DEF ExitLeavesNoGuest
  <2>1. CASE pc = "exited"
    <3>1. guest[c] # "up" /\ guest \in [Container -> {"none", "up", "killed"}]
      BY <2>1 DEF ExitLeavesNoGuest, ControlInv, TypeOK
    <3>2. Environment \/ UNCHANGED vars
      BY <2>1 DEF Next, EventLoop, Boot, BootDone, NetifUpdated, TimerTick, GuestExited,
                  SystemShutdown, Receive, Sweep, Timeouts, ManagerTerminate, WaitForExit,
                  TimerFires, Sigterm, PidfdReady, Idle, Command, CommandShutdown, CommandReboot,
                  CommandForceReboot, CommandChange, CommandTest, Terminated
    <3>3. QED BY <3>1, <3>2 DEF Environment, GuestExits, DeadlinePasses, WorkerEnds,
                                RootDeviceAppears, DiskDamaged, ManagerWorkerEnds, vars
  <2>2. CASE pc # "exited"
    <3>1. ManagerTerminate
      BY <2>2 DEF Next, EventLoop, Boot, BootDone, NetifUpdated, TimerTick, GuestExited,
                  SystemShutdown, Receive, Sweep, NextInSweep, Timeouts, WaitForExit, TimerFires,
                  Sigterm, PidfdReady, Idle, Command, CommandShutdown, CommandReboot,
                  CommandForceReboot, CommandChange, CommandTest, CommandUnchanged, Terminated,
                  Environment, GuestExits, DeadlinePasses, WorkerEnds, RootDeviceAppears,
                  DiskDamaged, ManagerWorkerEnds, ManagerUnchanged, vars
    <3>2. cc[c].status \in {"EXIT", "DISABLE"} /\ guest' = guest
      BY <3>1 DEF ManagerTerminate, AllExited
    <3>3. QED BY <2>2, <3>2, NoInstanceNoGuest DEF Running
  <2>3. QED BY <2>1, <2>2
<1>3. QED BY <1>1, <1>2, GuestInvariant, PTL DEF Spec

-----------------------------------------------------------------------------
(***************************************************************************)
(* What a launch needs.                                                    *)
(***************************************************************************)

\* The disks a guest cannot run without are mounted.
HasMounts(c, k) == k.rootfs /\ (Redundancy[c] \in {"ab", "fsck", "mkfs"} => k.disk)

\* container_start_preprocess_base succeeds with the mandatory disks mounted only.
LEMMA PreprocessMounts ==
  ASSUME NEW c \in Container, NEW k \in ContainerType, Preprocess(c, k).ok
  PROVE  HasMounts(c, Preprocess(c, k).cc)
<1>1. CASE k.rootfs \/ rootdev[c]
  <2> DEFINE r == [k EXCEPT !.rootfs = TRUE]
  <2>1. r \in ContainerType /\ r.rootfs /\ r.disk = k.disk
    BY DEF ContainerType
  <2> HIDE DEF r
  <2>2. Preprocess(c, k) =
          IF Redundancy[c] = "none" \/ k.disk THEN [ok |-> TRUE, cc |-> r]
          ELSE IF disk_ok[c] THEN [ok |-> TRUE, cc |-> [r EXCEPT !.disk = TRUE, !.disk_err = FALSE]]
          ELSE [ok |-> Redundancy[c] = "failover", cc |-> [r EXCEPT !.disk_err = TRUE]]
    BY <1>1 DEF Preprocess, r
  <2>3. CASE Redundancy[c] = "none" \/ k.disk
    BY <2>1, <2>2, <2>3 DEF HasMounts
  <2>4. CASE ~ (Redundancy[c] = "none" \/ k.disk) /\ disk_ok[c]
    <3> DEFINE d == [r EXCEPT !.disk = TRUE]
    <3>1. d \in ContainerType /\ d.rootfs = r.rootfs /\ d.disk
      BY <2>1 DEF ContainerType
    <3>2. Preprocess(c, k).cc = [d EXCEPT !.disk_err = FALSE]
      BY <2>2, <2>4
    <3> HIDE DEF d
    <3>3. Preprocess(c, k).cc.rootfs = d.rootfs /\ Preprocess(c, k).cc.disk = d.disk
      BY <3>1, <3>2 DEF ContainerType
    <3> QED
      BY <2>1, <3>1, <3>3 DEF HasMounts
  <2>5. CASE ~ (Redundancy[c] = "none" \/ k.disk) /\ ~ disk_ok[c]
    BY <2>1, <2>2, <2>5 DEF HasMounts, ContainerType
  <2> QED
    BY <2>3, <2>4, <2>5
<1>2. CASE ~ (k.rootfs \/ rootdev[c])
  BY <1>2 DEF Preprocess
<1> QED
  BY <1>1, <1>2

\* container_start launches a guest only then.
LEMMA LaunchMounts ==
  ASSUME NEW c \in Container, NEW k, Startable(k), NEW x \in StartOutcomes(c, k), x.status = "STARTED"
  PROVE  HasMounts(c, x)
<1> DEFINE p == Preprocess(c, k)
<1>1. p.cc \in ContainerType /\ p.cc.status = k.status /\ p.ok \in BOOLEAN
  BY PreprocessFacts DEF Startable
<1>2. p.ok => HasMounts(c, p.cc)
  BY PreprocessMounts DEF Startable
<1> HIDE DEF p
<1>3. CASE p.ok
  <2>1. x \in LaunchOutcomes(c, p.cc)
    BY <1>3 DEF StartOutcomes, p, Startable
  <2>2. x = [p.cc EXCEPT !.status = "STARTED", !.lxc = TRUE]
        \/ x = [p.cc EXCEPT !.status = "DEAD", !.lxc = FALSE]
    BY <2>1 DEF LaunchOutcomes
  <2>3. x.rootfs = p.cc.rootfs /\ x.disk = p.cc.disk
    BY <1>1, <2>2 DEF ContainerType
  <2> QED
    BY <1>2, <1>3, <2>3 DEF HasMounts
<1>4. CASE ~ p.ok
  <2>1. x \in RecoveryOutcomes(c, p.cc)
    BY <1>4 DEF StartOutcomes, p, Startable
  <2>2. x = p.cc \/ x = [p.cc EXCEPT !.wq = Schedule(@, "recovery", TRUE)]
    BY <2>1 DEF RecoveryOutcomes, ScheduleOutcomes
  <2>3. x.status = k.status
    BY <1>1, <2>2 DEF ContainerType
  <2> QED
    BY <2>3 DEF Startable
<1> QED
  BY <1>1, <1>3, <1>4

\* A call that starts a guest makes this one run, with its disks.
LEMMA StartGuestMounts ==
  ASSUME ControlInv, NEW c \in Container, NEW ccs \in [Container -> ContainerType],
         NEW notify \in BOOLEAN, Startable(ccs[c]), StartGuest(c, ccs, notify)
  PROVE  \A d \in Container : guest[d] # "up" /\ guest'[d] = "up" =>
           d = c /\ cc'[d].status = "STARTED" /\ HasMounts(d, cc'[d])
<1>1. PICK k \in StartOutcomes(c, ccs[c]) :
        IF k.status = "STARTED"
        THEN \E m \in MonitorOutcomes(k) :
               /\ cc' = [ccs EXCEPT ![c] = m]
               /\ guest' = [guest EXCEPT ![c] = "up"]
        ELSE guest' = guest
  BY DEF StartGuest
<1>2. CASE k.status = "STARTED"
  <2>1. PICK m \in MonitorOutcomes(k) :
          cc' = [ccs EXCEPT ![c] = m] /\ guest' = [guest EXCEPT ![c] = "up"]
    BY <1>1, <1>2
  <2>2. k \in ContainerType /\ HasMounts(c, k)
    BY <1>2, StartFacts, LaunchMounts DEF AfterStart
  <2>3. m.rootfs = k.rootfs /\ m.disk = k.disk /\ m.status = "STARTED"
    BY <1>2, <2>2 DEF MonitorOutcomes, ContainerType
  <2>4. cc'[c].status = "STARTED" /\ HasMounts(c, cc'[c]) /\ \A d \in Container : d # c => guest'[d] = guest[d]
    BY <2>1, <2>2, <2>3 DEF HasMounts, ControlInv, TypeOK
  <2> QED
    BY <2>4
<1>3. CASE k.status # "STARTED"
  BY <1>1, <1>3
<1> QED
  BY <1>2, <1>3

\* The steps that do not start a guest leave no guest running that did not run.
LEMMA OthersStartNobody ==
  ASSUME ControlInv, [Next]_vars, ~ Boot, ~ Sweep, NEW c \in Container, guest'[c] = "up"
  PROVE  guest[c] = "up"
<1>1. guest \in [Container -> {"none", "up", "killed"}]
  BY DEF ControlInv, TypeOK
<1>2. \A k : ForceKill(k, guest[c]) = "up" => guest[c] = "up"
  BY DEF ForceKill
<1>3. CASE EventLoop
  BY <1>2, <1>3 DEF EventLoop, BootDone, NetifUpdated, TimerTick, GuestExited, SystemShutdown,
                    Timeouts, ManagerTerminate, WaitForExit
<1>4. CASE Command
  BY <1>1, <1>2, <1>4 DEF Command, CommandShutdown, CommandReboot, CommandForceReboot, CommandChange,
                          CommandTest
<1>5. CASE Environment
  BY <1>1, <1>5 DEF Environment, GuestExits, DeadlinePasses, WorkerEnds, RootDeviceAppears,
                    DiskDamaged, ManagerWorkerEnds
<1>6. CASE TimerFires \/ Sigterm \/ (\E d \in Container : PidfdReady(d)) \/ Terminated \/ UNCHANGED vars
  BY <1>6 DEF TimerFires, Sigterm, PidfdReady, Terminated, vars
<1> QED
  BY <1>3, <1>4, <1>5, <1>6 DEF Next

\* A guest that starts now is dead, or it is the active one of its role and disabled.
Due(c) == cc[c].status = "DEAD" \/ (cc[c].status = "DISABLE" /\ ActiveOf(c) = c)

\* At the start of the manager.
LEMMA BootMounts ==
  ASSUME ControlInv, Boot, NEW d \in Container, guest[d] # "up", guest'[d] = "up"
  PROVE  Due(d) /\ cc'[d].status = "STARTED" /\ HasMounts(d, cc'[d])
<1> DEFINE c == active[idx]
           ccs == [cc EXCEPT ![c].status = "NOT_STARTED"]
<1>1. pc = "boot" /\ idx \in Role /\ c # 0 /\ StartGuest(c, ccs, FALSE)
  <2>1. pc = "boot" /\ idx <= NumRoles /\ IF c = 0 THEN guest' = guest ELSE StartGuest(c, ccs, FALSE)
    BY DEF Boot
  <2>2. idx \in Role
    BY <2>1, ConfigAssumption DEF ControlInv, TypeOK, Role
  <2> HIDE DEF c, ccs
  <2> QED
    BY <2>1, <2>2
<1>2. c \in Container /\ RoleOf[c] = idx /\ cc \in [Container -> ContainerType]
  BY <1>1 DEF ControlInv, TypeOK
<1>3. cc[c].status = "DISABLE"
  BY <1>1, <1>2 DEF ControlInv, BootInv, Role
<1>4. Due(c)
  BY <1>2, <1>3 DEF Due, ActiveOf
<1>5. Startable([cc[c] EXCEPT !.status = "NOT_STARTED"])
  BY <1>1, <1>2, <1>3, StartableFacts
<1>6. ccs = [cc EXCEPT ![c] = [cc[c] EXCEPT !.status = "NOT_STARTED"]]
  BY <1>2
<1> HIDE DEF ccs, c
<1>7. ccs \in [Container -> ContainerType] /\ Startable(ccs[c])
  BY <1>2, <1>5, <1>6 DEF Startable
<1>8. FALSE \in BOOLEAN
  OBVIOUS
<1> QED
  BY <1>1, <1>2, <1>7, <1>8, <1>4, StartGuestMounts

\* In the cyclic event.
LEMMA SweepMounts ==
  ASSUME ControlInv, Sweep, NEW d \in Container, guest[d] # "up", guest'[d] = "up"
  PROVE  Due(d) /\ cc'[d].status = "STARTED" /\ HasMounts(d, cc'[d])
<1>1. /\ pc = "sweep" /\ idx \in Container /\ cc \in [Container -> ContainerType]
      /\ TRUE \in BOOLEAN
  BY SweepFacts DEF Sweep, TypeOK
<1>2. CASE Relaunch(idx)
  <2>1. Startable(cc[idx]) /\ StartGuest(idx, cc, TRUE) /\ Due(idx)
    BY <1>1, <1>2, StartableFacts DEF Relaunch, Due
  <2> QED
    BY <1>1, <2>1, StartGuestMounts
<1>3. CASE Exchange(idx)
  <2> DEFINE c == idx
             a == ActiveOf(c)
             k == [CleanupContainer(cc[c]) EXCEPT !.status = "DISABLE"]
             n == [cc[a] EXCEPT !.status = "NOT_STARTED"]
             ccs == [cc EXCEPT ![c] = [CleanupContainer(@) EXCEPT !.status = "DISABLE"],
                               ![a].status = "NOT_STARTED"]
  <2>1. cc[c].status = "NOT_STARTED" /\ a # c /\ a # 0 /\ StartGuest(a, ccs, TRUE)
    BY <1>3 DEF Exchange
  <2>2. a \in Container /\ RoleOf[a] = RoleOf[c]
    BY <1>1, <2>1, ConfigAssumption DEF ControlInv, TypeOK, ActiveOf
  <2>3. cc[a].status = "DISABLE"
    BY <1>1, <2>1, <2>2 DEF ControlInv, RoleExclusive
  <2>4. Due(a)
    BY <2>2, <2>3 DEF Due, ActiveOf
  <2>5. Startable(n)
    BY <1>1, <2>2, <2>3, StartableFacts
  <2>6. k \in ContainerType
    <3>1. cc[c] \in ContainerType
      BY <1>1
    <3> QED
      BY <3>1 DEF CleanupContainer, Terminate, ContainerType, Status
  <2>7. ccs = [cc EXCEPT ![c] = k, ![a] = n]
    BY <1>1, <2>1, <2>2
  <2> HIDE DEF a, k, n, ccs
  <2>8. ccs \in [Container -> ContainerType] /\ Startable(ccs[a])
    BY <1>1, <2>1, <2>2, <2>5, <2>6, <2>7 DEF Startable
  <2> QED
    BY <1>1, <2>1, <2>2, <2>8, <2>4, StartGuestMounts
<1>4. CASE RunWorker(idx) \/ FinishWorker(idx) \/ SkipContainer(idx)
  BY <1>4 DEF RunWorker, FinishWorker, SkipContainer
<1> QED
  BY <1>2, <1>3, <1>4 DEF Sweep

\* No guest is ever launched in a shutdown, without being the active one of its role or
\* a dead one, beside another enabled guest of its role or without its mandatory mounts,
\* by whichever of the three callers of container_start and whatever fails in it.
THEOREM OnlyDueLaunches == Spec => LaunchIsDue
<1>1. ASSUME ControlInv, ControlInv', [Next]_vars,
             NEW c \in Container, guest[c] # "up", guest'[c] = "up"
      PROVE  /\ sys_state = "RUN" /\ pc \in {"boot", "sweep"} /\ Due(c)
             /\ \A d \in Container \ {c} : RoleOf[d] = RoleOf[c] => cc'[d].status = "DISABLE"
             /\ HasMounts(c, cc'[c])
  <2>1. Boot \/ Sweep
    BY <1>1, OthersStartNobody
  <2>2. pc \in {"boot", "sweep"} /\ sys_state = "RUN"
    BY <1>1, <2>1 DEF Boot, Sweep, ControlInv, PhaseInv
  <2>3. Due(c) /\ HasMounts(c, cc'[c]) /\ cc'[c].status = "STARTED"
    BY <1>1, <2>1, BootMounts, SweepMounts
  <2>4. \A d \in Container \ {c} : RoleOf[d] = RoleOf[c] => cc'[d].status = "DISABLE"
    BY <1>1, <2>3 DEF ControlInv, RoleExclusive
  <2> QED
    BY <2>2, <2>3, <2>4
<1>2. ControlInv /\ ControlInv' /\ [Next]_vars =>
        \A c \in Container :
          guest[c] # "up" /\ guest'[c] = "up" =>
            /\ sys_state = "RUN" /\ pc \in {"boot", "sweep"}
            /\ cc[c].status = "DEAD" \/ (cc[c].status = "DISABLE" /\ ActiveOf(c) = c)
            /\ \A d \in Container \ {c} : RoleOf[d] = RoleOf[c] => cc'[d].status = "DISABLE"
            /\ cc'[c].rootfs
            /\ Redundancy[c] \in {"ab", "fsck", "mkfs"} => cc'[c].disk
  BY <1>1 DEF HasMounts, Due
<1> QED
  BY <1>2, ControlInvariant, PTL DEF Spec, LaunchIsDue
=============================================================================
