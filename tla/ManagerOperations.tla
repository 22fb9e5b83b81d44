-------------------------- MODULE ManagerOperations --------------------------
(***************************************************************************)
(* The delayed mounts of the container manager                             *)
(* (container-manager-operations.c): the disks of "operation.mount" are    *)
(* mounted by a detached thread after the guests were started and          *)
(* unmounted by a second one after they have ended.  The main thread       *)
(* learns the outcome from responses on a socket pair, one per poll, and   *)
(* decides by them when the thread is done.                                *)
(*                                                                         *)
(* Each thread gets its own copy of the list and its own socket pair.  The *)
(* thread of manager_operation_delayed_launch is called "launch" here,     *)
(* that of manager_operation_delayed_terminate "terminate".  The main      *)
(* thread never sends a request, so that cancellation by request is        *)
(* unreachable and left out; error_count is written and never read.        *)
(***************************************************************************)
EXTENDS Integers, Sequences

CONSTANTS
  NumDisks,     \* elements of the mount list; an index names one
  Redundancy,   \* how each disk is mounted
  Faults        \* calls that may fail: "setup" (memory, socketpair),
                \* "thread", "fork", "pidfd", "poll"

Disks == 0..(NumDisks - 1)

ASSUME DisksAssumption ==
  /\ NumDisks \in Nat
  /\ Redundancy \in [Disks -> {"failover", "ab", "fsck", "mkfs"}]
  /\ Faults \subseteq {"setup", "thread", "fork", "pidfd", "poll"}

VARIABLES
  phase,     \* main thread: boot, run, shutdown (every guest has ended), exited
  elem,      \* host side of the list: is_mounted and is_dispatched
  storage,   \* whose responses cmo->storage->host_fd delivers, or "none"
  worker,    \* per thread: pc, position in its list, state of each element
  chan,      \* per thread: responses written and not yet read
  child,     \* fsck or mkfs process of the thread
  mounted    \* the mount table of the kernel

vars == <<phase, elem, storage, worker, chan, child, mounted>>
threadVars == <<worker, child, mounted>>

Workers == {"launch", "terminate"}
Repairable(i) == Redundancy[i] \in {"fsck", "mkfs"}

(* Element states; "absent" is an element that is not in the thread's list. *)
ElemStates == {"absent", "QUEUED", "COMPLETE", "CANCELED"}
ThreadStates ==
  {"none", "mount", "exec", "wait", "blind", "reap", "retake", "close", "ended"}

(* worker_response_t: operation 0 is a mount, 1 an unmount; result 0 is     *)
(* success, -1 an error.  The result 1 answers a cancellation.              *)
Response == [index : Disks, operation : {0, 1}, result : {0, -1}]

(* The type invariant: states, positions and messages within their ranges.  *)
TypeOK ==
  /\ phase \in {"boot", "run", "shutdown", "exited"}
  /\ elem \in [Disks -> [is_mounted : BOOLEAN, is_dispatched : BOOLEAN]]
  /\ storage \in Workers \cup {"none"}
  /\ worker \in [Workers -> [pc : ThreadStates, pos : 0..NumDisks,
                             list : [Disks -> ElemStates]]]
  /\ chan \in [Workers -> Seq(Response)]
  /\ child \in {"none", "running", "exited"}
  /\ mounted \subseteq Disks

Init ==
  /\ phase = "boot"
  /\ elem = [i \in Disks |-> [is_mounted |-> FALSE, is_dispatched |-> FALSE]]
  /\ storage = "none"
  /\ worker = [w \in Workers |-> [pc |-> "none", pos |-> 0,
                                  list |-> [i \in Disks |-> "absent"]]]
  /\ chan = [w \in Workers |-> <<>>]
  /\ child = "none"
  /\ mounted = {}

-----------------------------------------------------------------------------
(* Main thread. *)

(* Hands the disks S to the thread w.  pthread_create reports an error by a *)
(* positive number, for which the caller tests in vain: without the thread  *)
(* everything else is set up.                                               *)
Dispatch(w, S) ==
  /\ elem' = [i \in Disks |->
       IF i \in S THEN [elem[i] EXCEPT !.is_dispatched = TRUE] ELSE elem[i]]
  /\ storage' = w
  /\ \E pc \in {"mount"} \cup (IF "thread" \in Faults THEN {"none"} ELSE {}) :
       worker' = [worker EXCEPT ![w] =
         [pc |-> pc, pos |-> 0,
          list |-> [i \in Disks |-> IF i \in S THEN "QUEUED" ELSE "absent"]]]
  /\ UNCHANGED <<chan, child, mounted>>

Mounted == {i \in Disks : elem[i].is_mounted}

(* manager_operation_delayed_launch, called once before the event loop: a   *)
(* failure ends the program, an empty list starts the loop without worker.  *)
DelayedLaunch ==
  /\ phase = "boot"
  /\ \/ /\ "setup" \in Faults
        /\ phase' = "exited"
        /\ UNCHANGED <<elem, storage, chan, threadVars>>
     \/ /\ Disks \ Mounted = {}
        /\ phase' = "run"
        /\ UNCHANGED <<elem, storage, chan, threadVars>>
     \/ /\ Disks \ Mounted # {}
        /\ phase' = "run"
        /\ Dispatch("launch", Disks \ Mounted)

(* Mutants of Answered: the result is ignored; an error leaves the element  *)
(* dispatched; so does an unmount.                                          *)
AnsweredAlways(m) ==
  [elem EXCEPT ![m.index] = [is_mounted |-> m.operation = 0, is_dispatched |-> FALSE]]
AnsweredSuccess(m) ==
  [elem EXCEPT ![m.index] =
     [is_mounted |-> m.operation = 0 /\ m.result = 0,
      is_dispatched |-> m.result = -1]]
AnsweredMount(m) ==
  [elem EXCEPT ![m.index] =
     [is_mounted |-> m.operation = 0 /\ m.result = 0,
      is_dispatched |-> m.operation = 1]]

(* What a response changes in the element it names. *)
Answered(m) ==
  [elem EXCEPT ![m.index] =
     [is_mounted |-> IF m.operation = 0 /\ m.result = -1
                     THEN elem[m.index].is_mounted
                     ELSE m.operation = 0,
      is_dispatched |-> FALSE]]

(* The buffer is cleared before read: zero bytes, read after the thread has *)
(* closed its end, look like a successful mount of element 0.               *)
EndOfFile == [index |-> 0, operation |-> 0, result |-> 0]

(* Mutant of DelayedPoll: one answer completes the worker. *)
DelayedPollAny(w) ==
  /\ storage = w
  /\ chan[w] # <<>>
  /\ elem' = Answered(Head(chan[w]))
  /\ chan' = [chan EXCEPT ![w] = Tail(chan[w])]
  /\ storage' = IF \E i \in Disks : ~elem'[i].is_dispatched THEN "none" ELSE w
  /\ UNCHANGED threadVars

(* manager_operation_delayed_poll: at most one response, then the count of  *)
(* the elements that are not dispatched; if it is complete, the storage is  *)
(* freed and the result is 1.                                               *)
DelayedPoll(w) ==
  /\ storage = w
  /\ \/ /\ chan[w] # <<>>
        /\ elem' = Answered(Head(chan[w]))
        /\ chan' = [chan EXCEPT ![w] = Tail(chan[w])]
     \/ /\ chan[w] = <<>> /\ worker[w].pc = "ended"
        /\ elem' = Answered(EndOfFile)
        /\ UNCHANGED chan
     \/ /\ chan[w] = <<>> /\ worker[w].pc # "ended"
        /\ UNCHANGED <<elem, chan>>
  /\ storage' = IF \A i \in Disks : ~elem'[i].is_dispatched THEN "none" ELSE w
  /\ UNCHANGED threadVars

(* End of the internal event in the run state. *)
CyclicOperation ==
  /\ phase = "run"
  /\ \E w \in Workers : DelayedPoll(w)
  /\ UNCHANGED phase

(* SYSTEM_SHUTDOWN and the end of the last guest; no poll lies between.     *)
GuestsExited ==
  /\ phase = "run"
  /\ phase' = "shutdown"
  /\ UNCHANGED <<elem, storage, chan, threadVars>>

(* container_exec_internal_event once all guests have exited: terminate if  *)
(* no worker is known, else poll; the program ends when there is nothing to *)
(* do, when it fails and when the poll says that the worker is done,        *)
(* whichever of the two workers it is.                                      *)
DelayedTerminate ==
  /\ phase = "shutdown"
  /\ storage = "none"
  /\ \/ /\ "setup" \in Faults
        /\ phase' = "exited"
        /\ UNCHANGED <<elem, storage, chan, threadVars>>
     \/ /\ Mounted = {}
        /\ phase' = "exited"
        /\ UNCHANGED <<elem, storage, chan, threadVars>>
     \/ /\ Mounted # {}
        /\ Dispatch("terminate", Mounted)
        /\ UNCHANGED phase

(* Mutant of PollAtShutdown: a worker that runs is taken for a completed one. *)
PollAtShutdownOnce ==
  /\ phase = "shutdown"
  /\ \E w \in Workers : DelayedPoll(w)
  /\ phase' = "exited"

PollAtShutdown ==
  /\ phase = "shutdown"
  /\ \E w \in Workers : DelayedPoll(w)
  /\ phase' = IF storage' = "none" THEN "exited" ELSE "shutdown"

MainThread ==
  DelayedLaunch \/ CyclicOperation \/ DelayedTerminate \/ PollAtShutdown

-----------------------------------------------------------------------------
(* Worker thread.  The end of the process ends it. *)

HostUnchanged == phase # "exited" /\ UNCHANGED <<phase, elem, storage>>

Here(w) == worker[w].pos
InPass(w, pc) == worker[w].pc = pc /\ Here(w) < NumDisks
AtElement(w, pc) == InPass(w, pc) /\ worker[w].list[Here(w)] # "absent"
PassEnds(w, pc) == worker[w].pc = pc /\ Here(w) = NumDisks
Holds(w) == {i \in Disks : worker[w].list[i] # "absent"}

Go(w, pc, pos) ==
  worker' = [worker EXCEPT ![w] = [worker[w] EXCEPT !.pc = pc, !.pos = pos]]

SetElem(w, s, pc, pos) ==
  worker' = [worker EXCEPT ![w] =
    [pc |-> pc, pos |-> pos, list |-> [worker[w].list EXCEPT ![Here(w)] = s]]]

(* Mutant of Reply: an error is reported as a success. *)
ReplySuccess(w, op, res) ==
  /\ SetElem(w, "absent", "mount", Here(w) + 1)
  /\ chan' = [chan EXCEPT ![w] = Append(chan[w],
       [index |-> Here(w), operation |-> op, result |-> 0])]

(* The element leaves the list and its response is written. *)
Reply(w, op, res) ==
  /\ SetElem(w, "absent", "mount", Here(w) + 1)
  /\ chan' = [chan EXCEPT ![w] = Append(chan[w],
       [index |-> Here(w), operation |-> op, result |-> res])]

(* The list has no element of this index. *)
SkipIndex(w) ==
  /\ \E pc \in {"mount", "exec", "retake"} :
       /\ InPass(w, pc) /\ worker[w].list[Here(w)] = "absent"
       /\ Go(w, pc, Here(w) + 1)
  /\ HostUnchanged /\ UNCHANGED <<chan, child, mounted>>

(* manager_mount_operation, first call: mounts what can be mounted, refuses *)
(* A/B disks and keeps those that need their file system repaired.          *)
MountElement(w) ==
  /\ w = "launch" /\ AtElement(w, "mount")
  /\ LET i == Here(w) IN
     \/ /\ Redundancy[i] # "ab"
        /\ mounted' = mounted \cup {i}
        /\ Reply(w, 0, 0)
     \/ /\ Redundancy[i] = "failover"
        /\ Reply(w, 0, -1) /\ UNCHANGED mounted
     \/ /\ Redundancy[i] = "ab"
        /\ Reply(w, 0, -1) /\ UNCHANGED mounted
     \/ /\ Repairable(i)
        /\ Go(w, "mount", i + 1) /\ UNCHANGED <<chan, mounted>>
  /\ HostUnchanged /\ UNCHANGED child

(* The same for the elements that were mounted: unmount_disk detaches a     *)
(* disk that stays busy and does not fail.                                  *)
UnmountElement(w) ==
  /\ w = "terminate" /\ AtElement(w, "mount")
  /\ mounted' = mounted \ {Here(w)}
  /\ Reply(w, 1, 0)
  /\ HostUnchanged /\ UNCHANGED child

MountPassEnds(w) ==
  /\ PassEnds(w, "mount")
  /\ Go(w, IF Holds(w) = {} THEN "close" ELSE "exec", 0)
  /\ HostUnchanged /\ UNCHANGED <<chan, child, mounted>>

(* manager_worker_exec: fork of fsck or mkfs for the next element.  Without *)
(* a pidfd the poll has nothing to wait for.                                *)
ForkChild(w) ==
  /\ AtElement(w, "exec")
  /\ \/ /\ child' = "running"
        /\ \E pc \in {"wait"} \cup (IF "pidfd" \in Faults THEN {"blind"} ELSE {}) :
             Go(w, pc, Here(w))
     \/ /\ "fork" \in Faults
        /\ SetElem(w, "CANCELED", "exec", Here(w) + 1)
        /\ UNCHANGED child
  /\ HostUnchanged /\ UNCHANGED <<chan, mounted>>

(* The poll ends by the exit of the child or by an error, for which the     *)
(* child is sent SIGTERM; its time-out only tests for cancellation.         *)
PollChild(w) ==
  /\ \/ worker[w].pc = "wait" /\ child = "exited"
     \/ worker[w].pc \in {"wait", "blind"} /\ "poll" \in Faults
  /\ Go(w, "reap", Here(w))
  /\ HostUnchanged /\ UNCHANGED <<chan, child, mounted>>

(* The list without the elements that could not be worked on. *)
WithoutCanceled(list) ==
  [i \in Disks |-> IF list[i] = "CANCELED" THEN "absent" ELSE list[i]]

(* waitid; when every element is complete or canceled the loop is left.     *)
ReapChild(w) ==
  /\ worker[w].pc = "reap" /\ child = "exited"
  /\ child' = "none"
  /\ LET list == [worker[w].list EXCEPT ![Here(w)] = "COMPLETE"] IN
     worker' = [worker EXCEPT ![w] =
       IF \A i \in Disks : list[i] # "QUEUED"
       THEN [pc |-> "retake", pos |-> 0, list |-> WithoutCanceled(list)]
       ELSE [pc |-> "exec", pos |-> Here(w) + 1, list |-> list]]
  /\ HostUnchanged /\ UNCHANGED <<chan, mounted>>

ExecPassEnds(w) ==
  /\ PassEnds(w, "exec")
  /\ worker' = [worker EXCEPT ![w] =
       [pc |-> "retake", pos |-> 0, list |-> WithoutCanceled(worker[w].list)]]
  /\ HostUnchanged /\ UNCHANGED <<chan, child, mounted>>

(* manager_mount_operation, second call: mounts or not, and either way      *)
(* takes the branch that keeps the element and writes no response.          *)
RetakeElement(w) ==
  /\ AtElement(w, "retake")
  /\ \/ mounted' = mounted \cup {Here(w)}
     \/ UNCHANGED mounted
  /\ Go(w, "retake", Here(w) + 1)
  /\ HostUnchanged /\ UNCHANGED <<chan, child>>

RetakePassEnds(w) ==
  /\ PassEnds(w, "retake")
  /\ Go(w, "close", 0)
  /\ HostUnchanged /\ UNCHANGED <<chan, child, mounted>>

(* The list is freed and the socket closed. *)
CloseWorker(w) ==
  /\ worker[w].pc = "close"
  /\ worker' = [worker EXCEPT ![w] =
       [pc |-> "ended", pos |-> 0, list |-> [i \in Disks |-> "absent"]]]
  /\ HostUnchanged /\ UNCHANGED <<chan, child, mounted>>

WorkerThread(w) ==
  \/ SkipIndex(w) \/ MountElement(w) \/ UnmountElement(w) \/ MountPassEnds(w)
  \/ ForkChild(w) \/ PollChild(w) \/ ReapChild(w) \/ ExecPassEnds(w)
  \/ RetakeElement(w) \/ RetakePassEnds(w) \/ CloseWorker(w)

ChildExits ==
  /\ child = "running"
  /\ child' = "exited"
  /\ HostUnchanged /\ UNCHANGED <<worker, chan, mounted>>

Ended == phase = "exited" /\ UNCHANGED vars

Next ==
  \/ DelayedLaunch \/ CyclicOperation \/ GuestsExited
  \/ DelayedTerminate \/ PollAtShutdown
  \/ \E w \in Workers : WorkerThread(w)
  \/ ChildExits
  \/ Ended

Spec == Init /\ [][Next]_vars

(* The tick brings the main thread back to its poll, the kernel runs the    *)
(* threads, and fsck and mkfs end.  The shutdown is left to the user.       *)
FairSpec ==
  /\ Spec
  /\ WF_vars(MainThread)
  /\ \A w \in Workers : WF_vars(WorkerThread(w))
  /\ WF_vars(ChildExits)

-----------------------------------------------------------------------------
(* Properties. *)

Pending(w) == {m.index : m \in {chan[w][k] : k \in DOMAIN chan[w]}}

(* A disk that a thread holds or has answered stays dispatched, and the     *)
(* storage stays the thread's, until the main thread has read the answer:   *)
(* the socket is not closed under a thread that is to write to it, and the  *)
(* two threads are never at work on the mount table at once                 *)
(* (manager_operation_delayed_poll counting is_dispatched).                 *)
DispatchedUntilAnswered ==
  \A w \in Workers : \A i \in Holds(w) \cup Pending(w) :
    storage = w /\ elem[i].is_dispatched

(* A response tells the truth of the mount table when it is read, not only  *)
(* when it is written (manager_mount_operation and its intr_safe_write).    *)
ResponsesAreTrue ==
  \A w \in Workers : \A k \in DOMAIN chan[w] :
    LET m == chan[w][k] IN
    (m.index \in mounted) <=> (m.operation = 0 /\ m.result = 0)

(* is_mounted of a disk that no thread has in hand agrees with the mount    *)
(* table, except that the end of the stream may have spoken for element 0.  *)
FlagMatchesTable ==
  \A i \in Disks : ~elem[i].is_dispatched =>
    /\ i \in mounted => elem[i].is_mounted
    /\ i # 0 /\ elem[i].is_mounted => i \in mounted

(* When the terminate worker was started the program ends only after it has *)
(* unmounted everything, also what the main thread knows by the end of the  *)
(* stream alone (container_exec_internal_event, PollAtShutdown).            *)
TerminateReleases ==
  phase = "exited" /\ worker["terminate"].pc # "none" => mounted = {}

(* While every dispatched disk is ahead of the thread or has its answer on  *)
(* the way, the worker comes to its end as the main thread sees it, or a    *)
(* disk is kept for repair (manager_operation_delayed_poll).                *)
Owed(w) ==
  /\ storage = w /\ phase # "exited"
  /\ \A i \in Disks : elem[i].is_dispatched =>
       \/ i \in Pending(w)
       \/ worker[w].pc = "mount" /\ i \in Holds(w) /\ i >= worker[w].pos
WorkCompletes ==
  \A w \in Workers :
    Owed(w) ~> \/ storage # w
               \/ phase = "exited"
               \/ worker[w].pc = "exec"

(* Once the guests have ended and no worker is known, the program ends,     *)
(* unless pthread_create has failed unnoticed.                              *)
ShutdownEnds ==
  phase = "shutdown" /\ storage = "none" ~>
    \/ phase = "exited"
    \/ storage = "terminate" /\ worker["terminate"].pc = "none"

(* container-manager-operations.c:571: the poll reports that the worker is completed: *)
(* after the thread has ended the storage is freed.                         *)
CompletionIsSeen ==
  \A w \in Workers : worker[w].pc = "ended" ~> storage # w
=============================================================================
