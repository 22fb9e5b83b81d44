----------------------- MODULE ManagerOperations_proofs -----------------------
(***************************************************************************)
(* Proofs about ManagerOperations, for every list of disks and every set   *)
(* of faults.                                                              *)
(***************************************************************************)
EXTENDS ManagerOperations, SequenceTheorems, TLAPS

-----------------------------------------------------------------------------
(***************************************************************************)
(* The inductive invariant.                                                *)
(***************************************************************************)

Channel(w) == {chan[w][k] : k \in DOMAIN chan[w]}

\* A disk is answered once, and only after it has left the list; the thread of
\* the launch answers mounts and that of the terminate unmounts.
AnswerInv ==
  \A w \in Workers :
    /\ \A k, l \in DOMAIN chan[w] : chan[w][k].index = chan[w][l].index => k = l
    /\ \A k \in DOMAIN chan[w] :
         /\ worker[w].list[chan[w][k].index] = "absent"
         /\ chan[w][k].operation = (IF w = "launch" THEN 0 ELSE 1)

\* The main thread waits for a worker if and only if a disk is dispatched.
StorageInv == storage = "none" <=> \A i \in Disks : ~elem[i].is_dispatched

\* What the launch has in hand is not known as mounted, before the repair it is
\* not mounted either, and at the end nothing is left.
LaunchInv ==
  /\ \A i \in Holds("launch") \cup Pending("launch") : ~elem[i].is_mounted
  /\ worker["launch"].pc \in {"none", "mount"} =>
       \A i \in Holds("launch") : i \notin mounted
  /\ worker["launch"].pc = "ended" => Holds("launch") = {}

\* What is known as mounted or is dispatched in a terminate is in its hands: no
\* answer is lost, so that the end of its stream is never read.
TerminateInv ==
  storage = "terminate" =>
    \A i \in Disks :
      elem[i].is_mounted \/ elem[i].is_dispatched =>
        i \in Holds("terminate") \cup Pending("terminate")

\* The thread of the terminate keeps no element, for no unmount fails.
TerminateThread ==
  LET t == worker["terminate"] IN
  /\ t.pc \in {"none", "mount", "close", "ended"}
  /\ t.pc = "mount" => \A i \in Disks : i < t.pos => t.list[i] = "absent"
  /\ t.pc \in {"close", "ended"} => \A i \in Disks : t.list[i] = "absent"

\* The terminate belongs to the shutdown and is not left before its end.
PhaseInv ==
  /\ phase = "boot" => storage = "none"
  /\ phase \in {"boot", "run"} => storage # "terminate" /\ worker["terminate"].pc = "none"
  /\ phase = "shutdown" /\ worker["terminate"].pc # "none" => storage = "terminate"

\* The thread whose child runs is at an element of its list.
ReapInv ==
  \A w \in Workers :
    worker[w].pc \in {"wait", "blind", "reap"} =>
      Here(w) \in Disks /\ worker[w].list[Here(w)] # "absent"

MountInv ==
  /\ TypeOK
  /\ DispatchedUntilAnswered
  /\ AnswerInv
  /\ ResponsesAreTrue
  /\ FlagMatchesTable
  /\ StorageInv
  /\ LaunchInv
  /\ TerminateInv
  /\ TerminateThread
  /\ PhaseInv
  /\ ReapInv
  /\ TerminateReleases

-----------------------------------------------------------------------------
(***************************************************************************)
(* Steps of a thread.                                                      *)
(***************************************************************************)

Thread == [pc : ThreadStates, pos : 0..NumDisks, list : [Disks -> ElemStates]]

\* A step that writes no response may take elements from the list, and changes
\* the mount table only for elements of the list.  The terminate thread keeps its
\* list and its TerminateThread.
LEMMA QuietStep ==
  ASSUME MountInv, NEW w \in Workers, NEW r \in Thread,
         phase # "exited", UNCHANGED <<phase, elem, storage, chan>>,
         worker' = [worker EXCEPT ![w] = r],
         child' \in {"none", "running", "exited"}, mounted' \subseteq Disks,
         \A i \in Disks : worker[w].list[i] = "absent" =>
           r.list[i] = "absent" /\ (i \in mounted' <=> i \in mounted),
         w = "launch" /\ r.pc \in {"none", "mount"} =>
           worker[w].pc = r.pc /\ mounted' = mounted,
         r.pc = "ended" => \A i \in Disks : r.list[i] = "absent",
         r.pc \in {"wait", "blind", "reap"} => r.pos \in Disks /\ r.list[r.pos] # "absent",
         w = "terminate" =>
           /\ worker[w].pc # "none" /\ r.pc \in {"mount", "close", "ended"}
           /\ \A i \in Disks : r.list[i] = "absent" => worker[w].list[i] = "absent"
           /\ r.pc = "mount" => \A i \in Disks : i < r.pos => r.list[i] = "absent"
           /\ r.pc # "mount" => \A i \in Disks : r.list[i] = "absent"
  PROVE  MountInv'
<1> USE DEF MountInv
<1>1. TypeOK'
  BY DEF TypeOK, Thread
<1>2. worker'[w] = r /\ \A v \in Workers : v # w => worker'[v] = worker[v]
  BY DEF TypeOK
<1>3. \A v \in Workers : Pending(v)' = Pending(v) /\ Holds(v)' \subseteq Holds(v)
  BY <1>2 DEF Pending, Holds
<1>4. DispatchedUntilAnswered'
  BY <1>3 DEF DispatchedUntilAnswered
<1>5. \A v \in Workers : \A k \in DOMAIN chan[v] : chan[v][k] \in Response
  BY ElementOfSeq, LenProperties DEF TypeOK
<1>6. AnswerInv'
  <2> SUFFICES ASSUME NEW v \in Workers, NEW k \in DOMAIN chan[v]
               PROVE  worker'[v].list[chan[v][k].index] = "absent"
    BY DEF AnswerInv
  <2>1. chan[v][k].index \in Disks /\ worker[v].list[chan[v][k].index] = "absent"
    BY <1>5 DEF AnswerInv, Response
  <2>2. QED BY <1>2, <2>1
<1>7. ResponsesAreTrue'
  <2> SUFFICES ASSUME NEW v \in Workers, NEW k \in DOMAIN chan[v]
               PROVE  chan[v][k].index \in mounted' <=> chan[v][k].index \in mounted
    BY DEF ResponsesAreTrue
  <2>1. chan[v][k].index \in Disks /\ chan[v][k].index \in Pending(v)
    BY <1>5 DEF Response, Pending
  <2>2. worker[w].list[chan[v][k].index] = "absent"
    <3>1. CASE v = w
      BY <3>1 DEF AnswerInv
    <3>2. CASE v # w
      BY <3>2, <2>1 DEF DispatchedUntilAnswered, Holds
    <3>3. QED BY <3>1, <3>2
  <2>3. QED BY <2>1, <2>2
<1>8. FlagMatchesTable'
  <2> SUFFICES ASSUME NEW i \in Disks, ~elem[i].is_dispatched
               PROVE  i \in mounted' <=> i \in mounted
    BY DEF FlagMatchesTable
  <2>1. i \notin Holds(w)
    BY DEF DispatchedUntilAnswered
  <2>2. QED BY <2>1 DEF Holds
<1>9. StorageInv'
  BY DEF StorageInv
<1>10. LaunchInv'
  <2>1. \A i \in (Holds("launch") \cup Pending("launch"))' : ~elem'[i].is_mounted
    BY <1>3 DEF LaunchInv, Workers
  <2>2. ASSUME worker'["launch"].pc \in {"none", "mount"}, NEW i \in Holds("launch")'
        PROVE  i \notin mounted'
    <3>1. worker["launch"].pc = worker'["launch"].pc /\ i \in Holds("launch") /\ i \in Disks
      BY <1>2, <1>3, <2>2 DEF Holds, Workers
    <3>2. i \notin mounted
      BY <2>2, <3>1 DEF LaunchInv
    <3>3. CASE w = "launch"
      BY <1>2, <2>2, <3>2, <3>3
    <3>4. CASE w # "launch"
      <4>1. i \notin Holds(w)
        BY <3>1, <3>4 DEF DispatchedUntilAnswered, Workers
      <4>2. QED BY <3>1, <3>2, <4>1 DEF Holds
    <3>5. QED BY <3>3, <3>4
  <2>3. worker'["launch"].pc = "ended" => Holds("launch")' = {}
    <3>1. CASE w = "launch"
      BY <1>2, <3>1 DEF Holds
    <3>2. CASE w # "launch"
      BY <1>2, <1>3, <3>2 DEF LaunchInv, Workers
    <3>3. QED BY <3>1, <3>2
  <2>4. QED BY <2>1, <2>2, <2>3 DEF LaunchInv
<1>11. TerminateInv'
  <2>1. Holds("terminate") \subseteq Holds("terminate")'
    BY <1>2 DEF Holds, Workers
  <2>2. QED BY <1>3, <2>1 DEF TerminateInv, Workers
<1>12. TerminateThread'
  BY <1>2 DEF TerminateThread, Workers
<1>13. PhaseInv' /\ TerminateReleases'
  BY <1>2 DEF PhaseInv, TerminateReleases, Workers
<1>14. ReapInv'
  BY <1>2 DEF ReapInv, Here
<1>15. QED BY <1>1, <1>4, <1>6, <1>7, <1>8, <1>9, <1>10, <1>11, <1>12, <1>13, <1>14

\* A step that answers the element at hand with the truth of the mount table.
LEMMA ReplyStep ==
  ASSUME MountInv, NEW w \in Workers, HostUnchanged, child' = child,
         AtElement(w, "mount"), NEW op, NEW res \in {0, -1},
         op = (IF w = "launch" THEN 0 ELSE 1), Reply(w, op, res),
         mounted' \subseteq Disks,
         \A i \in Disks \ {Here(w)} : i \in mounted' <=> i \in mounted,
         Here(w) \in mounted' <=> op = 0 /\ res = 0
  PROVE  MountInv'
<1> USE DEF MountInv
<1> DEFINE h == Here(w)
           m == [index |-> h, operation |-> op, result |-> res]
<1>1. h \in Disks /\ h \in Nat /\ h + 1 \in 0..NumDisks /\ worker[w].list[h] # "absent"
  BY DisksAssumption DEF AtElement, InPass, Here, Disks, TypeOK
<1>2. m \in Response
  BY <1>1 DEF Response
<1>3. /\ worker'[w] = [pc |-> "mount", pos |-> h + 1,
                       list |-> [worker[w].list EXCEPT ![h] = "absent"]]
      /\ \A v \in Workers : v # w => worker'[v] = worker[v]
      /\ worker[w].pc = "mount" /\ worker[w].pos = h
      /\ worker[w].list \in [Disks -> ElemStates]
  BY DEF Reply, SetElem, TypeOK, AtElement, InPass, Here
<1>4. \A v \in Workers : chan[v] \in Seq(Response) /\ DOMAIN chan[v] = 1..Len(chan[v])
                         /\ Len(chan[v]) \in Nat
  BY LenProperties DEF TypeOK
<1>5. /\ chan'[w] = Append(chan[w], m)
      /\ \A v \in Workers : v # w => chan'[v] = chan[v]
  BY DEF Reply, TypeOK
<1>6. /\ chan'[w] \in Seq(Response)
      /\ DOMAIN chan'[w] = 1..(Len(chan[w]) + 1)
      /\ \A k \in 1..Len(chan[w]) : chan'[w][k] = chan[w][k]
      /\ chan'[w][Len(chan[w]) + 1] = m
  <2>1. /\ Append(chan[w], m) \in Seq(Response)
        /\ Len(Append(chan[w], m)) = Len(chan[w]) + 1
        /\ \A k \in 1..Len(chan[w]) : Append(chan[w], m)[k] = chan[w][k]
        /\ Append(chan[w], m)[Len(chan[w]) + 1] = m
    BY <1>2, <1>4, AppendProperties
  <2>2. QED BY <1>5, <2>1, LenProperties
<1>7. TypeOK'
  <2>1. chan' \in [Workers -> Seq(Response)]
    BY <1>6 DEF Reply, TypeOK
  <2>2. worker' \in [Workers -> Thread]
    BY <1>1, <1>3 DEF Thread, ThreadStates, ElemStates, Reply, SetElem, TypeOK
  <2>3. QED BY <2>1, <2>2 DEF TypeOK, Thread, HostUnchanged
<1>8. \A v \in Workers : \A k \in DOMAIN chan[v] : chan[v][k] \in Response
  BY <1>4, ElementOfSeq
<1>9. h \notin Pending(w)
  BY <1>1 DEF AnswerInv, Pending
<1>10. Holds(w)' = Holds(w) \ {h} /\ Pending(w)' = Pending(w) \cup {h} /\ h \in Holds(w)
  <2>1. Holds(w)' = Holds(w) \ {h} /\ h \in Holds(w)
    BY <1>1, <1>3 DEF Holds
  <2>2. Pending(w)' = {chan'[w][k].index : k \in DOMAIN chan'[w]}
    BY DEF Pending
  <2>3. Pending(w) = {chan[w][k].index : k \in DOMAIN chan[w]}
    BY DEF Pending
  <2>4. m.index = h
    OBVIOUS
  <2>5. \A x : x \in Pending(w)' <=> x \in Pending(w) \/ x = h
    <3> TAKE x
    <3>1. ASSUME x \in Pending(w)' PROVE x \in Pending(w) \/ x = h
      <4>1. PICK k \in 1..(Len(chan[w]) + 1) : x = chan'[w][k].index
        BY <1>6, <2>2, <3>1
      <4>2. k \in 1..Len(chan[w]) \/ k = Len(chan[w]) + 1
        BY <1>4
      <4>3. QED BY <1>4, <1>6, <2>3, <2>4, <4>1, <4>2
    <3>2. ASSUME x \in Pending(w) PROVE x \in Pending(w)'
      <4>1. PICK k \in 1..Len(chan[w]) : x = chan[w][k].index
        BY <1>4, <2>3, <3>2
      <4>2. k \in DOMAIN chan'[w] /\ chan'[w][k] = chan[w][k]
        BY <1>4, <1>6
      <4>3. QED BY <2>2, <4>1, <4>2
    <3>3. h \in Pending(w)'
      <4>1. Len(chan[w]) + 1 \in DOMAIN chan'[w]
        BY <1>4, <1>6
      <4>2. QED BY <1>6, <2>2, <2>4, <4>1
    <3>4. QED BY <3>1, <3>2, <3>3
  <2>6. QED BY <2>1, <2>5
<1>11. \A v \in Workers : v # w => Holds(v)' = Holds(v) /\ Pending(v)' = Pending(v)
  BY <1>3, <1>5 DEF Holds, Pending
<1>12. storage = w /\ elem[h].is_dispatched
  BY <1>10 DEF DispatchedUntilAnswered
<1>13. \A v \in Workers : v # w => Holds(v) = {} /\ Pending(v) = {} /\ DOMAIN chan[v] = {}
  <2> SUFFICES ASSUME NEW v \in Workers, v # w
               PROVE  Holds(v) = {} /\ Pending(v) = {} /\ DOMAIN chan[v] = {}
    OBVIOUS
  <2>1. Holds(v) = {} /\ Pending(v) = {}
    BY <1>12 DEF DispatchedUntilAnswered
  <2>2. QED BY <2>1 DEF Pending
<1>14. DispatchedUntilAnswered'
  BY <1>10, <1>11, <1>12 DEF DispatchedUntilAnswered, HostUnchanged
<1>15. AnswerInv'
  <2>1. ASSUME NEW k \in DOMAIN chan'[w]
        PROVE  /\ worker'[w].list[chan'[w][k].index] = "absent"
               /\ chan'[w][k].operation = (IF w = "launch" THEN 0 ELSE 1)
    <3>1. CASE k \in 1..Len(chan[w])
      <4>1. /\ chan'[w][k] = chan[w][k] /\ chan[w][k].index \in Disks
            /\ worker[w].list[chan[w][k].index] = "absent"
            /\ chan[w][k].operation = (IF w = "launch" THEN 0 ELSE 1)
        BY <1>4, <1>6, <1>8, <3>1 DEF AnswerInv, Response
      <4>2. QED BY <1>3, <4>1
    <3>2. CASE k = Len(chan[w]) + 1
      BY <1>1, <1>3, <1>6, <3>2
    <3>3. QED BY <1>4, <1>6, <3>1, <3>2
  <2>2. ASSUME NEW k \in DOMAIN chan'[w], NEW l \in DOMAIN chan'[w],
               chan'[w][k].index = chan'[w][l].index
        PROVE  k = l
    <3>1. \A j \in 1..Len(chan[w]) : chan'[w][j].index # h
      BY <1>4, <1>6, <1>9 DEF Pending
    <3>2. chan'[w][Len(chan[w]) + 1].index = h
      BY <1>6
    <3>3. \A j \in DOMAIN chan'[w] : j \in 1..Len(chan[w]) \/ j = Len(chan[w]) + 1
      BY <1>4, <1>6
    <3>4. CASE k \in 1..Len(chan[w]) /\ l \in 1..Len(chan[w])
      BY <1>4, <1>6, <2>2, <3>4 DEF AnswerInv
    <3>5. QED BY <2>2, <3>1, <3>2, <3>3, <3>4
  <2>3. \A v \in Workers : v # w => DOMAIN chan'[v] = {}
    BY <1>5, <1>13
  <2>4. QED BY <2>1, <2>2, <2>3 DEF AnswerInv
<1>16. ResponsesAreTrue'
  <2>1. ASSUME NEW k \in DOMAIN chan'[w]
        PROVE  chan'[w][k].index \in mounted' <=>
                 chan'[w][k].operation = 0 /\ chan'[w][k].result = 0
    <3>1. CASE k \in 1..Len(chan[w])
      <4>1. /\ chan'[w][k] = chan[w][k] /\ chan[w][k].index \in Disks
            /\ chan[w][k].index # h
        BY <1>4, <1>6, <1>8, <1>9, <3>1 DEF Response, Pending
      <4>2. k \in DOMAIN chan[w]
        BY <1>4, <3>1
      <4>3. QED BY <4>1, <4>2 DEF ResponsesAreTrue
    <3>2. CASE k = Len(chan[w]) + 1
      BY <1>6, <3>2
    <3>3. QED BY <1>4, <1>6, <3>1, <3>2
  <2>2. QED BY <1>5, <1>13, <2>1 DEF ResponsesAreTrue
<1>17. FlagMatchesTable'
  BY <1>12 DEF FlagMatchesTable, HostUnchanged
<1>18. StorageInv'
  BY DEF StorageInv, HostUnchanged
<1>19. LaunchInv'
  <2>1. Holds("launch")' \cup Pending("launch")' = Holds("launch") \cup Pending("launch")
    BY <1>10, <1>11 DEF Workers
  <2>2. \A i \in Holds("launch")' : i \in Holds("launch")
    BY <1>10, <1>11 DEF Workers
  <2>3. ASSUME worker'["launch"].pc \in {"none", "mount"}, NEW i \in Holds("launch")'
        PROVE  i \notin mounted'
    <3>1. CASE w = "launch"
      <4>1. worker["launch"].pc = "mount" /\ i \in Holds("launch") /\ i # h /\ i \in Disks
        BY <1>3, <1>10, <3>1, <2>3 DEF Holds
      <4>2. QED BY <4>1, <3>1 DEF LaunchInv
    <3>2. CASE w # "launch"
      BY <1>13, <2>2, <2>3, <3>2 DEF Workers
    <3>3. QED BY <3>1, <3>2
  <2>4. worker'["launch"].pc = "ended" => Holds("launch")' = {}
    BY <1>3, <1>11 DEF LaunchInv, Workers
  <2>5. QED BY <2>1, <2>3, <2>4 DEF LaunchInv, HostUnchanged
<1>20. TerminateInv'
  <2>1. Holds("terminate")' \cup Pending("terminate")' = Holds("terminate") \cup Pending("terminate")
    BY <1>10, <1>11 DEF Workers
  <2>2. QED BY <2>1 DEF TerminateInv, HostUnchanged
<1>21. TerminateThread'
  <2>1. CASE w = "terminate"
    <3>1. worker'[w].pc = "mount" /\ worker'[w].pos = h + 1
      BY <1>3
    <3>2. \A i \in Disks : i < h + 1 => worker'[w].list[i] = "absent"
      <4> SUFFICES ASSUME NEW i \in Disks, i < h + 1 PROVE worker'[w].list[i] = "absent"
        OBVIOUS
      <4>1. i = h \/ i < h
        BY <1>1 DEF Disks
      <4>2. i < h => worker[w].list[i] = "absent"
        BY <1>3, <2>1 DEF TerminateThread
      <4>3. QED BY <1>3, <4>1, <4>2
    <3>3. QED BY <2>1, <3>1, <3>2 DEF TerminateThread
  <2>2. CASE w # "terminate"
    BY <1>3, <2>2 DEF TerminateThread, Workers
  <2>3. QED BY <2>1, <2>2
<1>22. PhaseInv' /\ TerminateReleases'
  <2>1. worker'["terminate"].pc = worker["terminate"].pc
    BY <1>3 DEF Workers
  <2>2. QED BY <2>1 DEF PhaseInv, TerminateReleases, HostUnchanged
<1>23. ReapInv'
  BY <1>3 DEF ReapInv, Here
<1>24. QED BY <1>7, <1>14, <1>15, <1>16, <1>17, <1>18, <1>19, <1>20, <1>21, <1>22, <1>23

-----------------------------------------------------------------------------
(***************************************************************************)
(* Steps of the main thread.                                               *)
(***************************************************************************)

\* The start of a worker, which needs that no other is known.
LEMMA DispatchStep ==
  ASSUME MountInv, storage = "none", NEW w \in Workers,
         NEW S \in SUBSET Disks, S # {}, Dispatch(w, S),
         w = "launch" => S = Disks \ Mounted /\ phase = "boot" /\ phase' = "run",
         w = "terminate" => S = Mounted /\ phase = "shutdown" /\ phase' = "shutdown"
  PROVE  MountInv'
<1> USE DEF MountInv
<1>1. PICK pc \in {"mount", "none"} :
        worker' = [worker EXCEPT ![w] =
          [pc |-> pc, pos |-> 0,
           list |-> [i \in Disks |-> IF i \in S THEN "QUEUED" ELSE "absent"]]]
  BY DEF Dispatch
<1>2. /\ worker'[w].pc = pc /\ worker'[w].pos = 0
      /\ \A i \in Disks : worker'[w].list[i] = IF i \in S THEN "QUEUED" ELSE "absent"
      /\ \A v \in Workers : v # w => worker'[v] = worker[v]
  BY <1>1 DEF TypeOK
<1>3. storage' = w /\ chan' = chan /\ mounted' = mounted /\ child' = child
  BY DEF Dispatch
<1>4. \A i \in Disks : /\ elem'[i].is_mounted = elem[i].is_mounted
                       /\ elem'[i].is_dispatched <=> i \in S
  <2> SUFFICES ASSUME NEW i \in Disks
               PROVE  /\ elem'[i].is_mounted = elem[i].is_mounted
                      /\ elem'[i].is_dispatched <=> i \in S
    OBVIOUS
  <2>1. ~elem[i].is_dispatched
    BY DEF StorageInv
  <2>2. elem'[i] = IF i \in S THEN [elem[i] EXCEPT !.is_dispatched = TRUE] ELSE elem[i]
    BY DEF Dispatch
  <2>3. elem[i] \in [is_mounted : BOOLEAN, is_dispatched : BOOLEAN]
    BY DEF TypeOK
  <2>4. QED BY <2>1, <2>2, <2>3
<1>5. \A v \in Workers : Holds(v) = {} /\ Pending(v) = {} /\ DOMAIN chan[v] = {}
  <2> SUFFICES ASSUME NEW v \in Workers
               PROVE  Holds(v) = {} /\ Pending(v) = {} /\ DOMAIN chan[v] = {}
    OBVIOUS
  <2>1. Holds(v) = {} /\ Pending(v) = {}
    BY DEF DispatchedUntilAnswered, Workers
  <2>2. QED BY <2>1 DEF Pending
<1>6. /\ Holds(w)' = S
      /\ \A v \in Workers : v # w => Holds(v)' = {}
      /\ \A v \in Workers : Pending(v)' = {} /\ DOMAIN chan'[v] = {}
  BY <1>2, <1>3, <1>5 DEF Holds, Pending
<1>7. TypeOK'
  <2>1. elem' \in [Disks -> [is_mounted : BOOLEAN, is_dispatched : BOOLEAN]]
    BY DEF Dispatch, TypeOK
  <2>2. worker' \in [Workers -> [pc : ThreadStates, pos : 0..NumDisks, list : [Disks -> ElemStates]]]
    BY <1>1, DisksAssumption DEF TypeOK, ThreadStates, ElemStates
  <2>3. phase' \in {"boot", "run", "shutdown", "exited"}
    BY DEF Workers
  <2>4. QED BY <1>3, <2>1, <2>2, <2>3 DEF TypeOK
<1>8. DispatchedUntilAnswered'
  BY <1>3, <1>4, <1>6 DEF DispatchedUntilAnswered
<1>9. AnswerInv' /\ ResponsesAreTrue'
  BY <1>6 DEF AnswerInv, ResponsesAreTrue
<1>10. FlagMatchesTable'
  BY <1>3, <1>4 DEF FlagMatchesTable, StorageInv
<1>11. StorageInv'
  BY <1>3, <1>4 DEF StorageInv, Workers
<1>12. LaunchInv'
  <2>1. CASE w = "launch"
    <3>1. \A i \in S : ~elem[i].is_mounted /\ i \notin mounted
      BY <2>1 DEF Mounted, FlagMatchesTable, StorageInv
    <3>2. QED BY <1>2, <1>3, <1>4, <1>6, <2>1, <3>1 DEF LaunchInv
  <2>2. CASE w = "terminate"
    BY <1>6, <2>2 DEF LaunchInv, Workers
  <2>3. QED BY <2>1, <2>2 DEF Workers
<1>13. TerminateInv'
  <2>1. CASE w = "terminate"
    BY <1>4, <1>6, <2>1 DEF TerminateInv, Mounted
  <2>2. CASE w = "launch"
    BY <1>3, <2>2 DEF TerminateInv
  <2>3. QED BY <2>1, <2>2 DEF Workers
<1>14. TerminateThread'
  <2>1. CASE w = "terminate"
    BY <1>2, <2>1 DEF TerminateThread, Disks
  <2>2. CASE w = "launch"
    BY <1>2, <2>2 DEF TerminateThread, Workers
  <2>3. QED BY <2>1, <2>2 DEF Workers
<1>15. PhaseInv' /\ TerminateReleases'
  <2>1. CASE w = "terminate"
    BY <1>3, <2>1 DEF PhaseInv, TerminateReleases
  <2>2. CASE w = "launch"
    BY <1>2, <1>3, <2>2 DEF PhaseInv, TerminateReleases, Workers
  <2>3. QED BY <2>1, <2>2 DEF Workers
<1>16. ReapInv'
  BY <1>2 DEF ReapInv, Here
<1>17. QED BY <1>7, <1>8, <1>9, <1>10, <1>11, <1>12, <1>13, <1>14, <1>15, <1>16

\* One poll: an answer is read, or the end of the stream, or nothing.
LEMMA PollStep ==
  ASSUME MountInv, NEW w \in Workers, DelayedPoll(w), phase \in {"run", "shutdown"},
         phase' = IF phase = "shutdown" /\ storage' = "none" THEN "exited" ELSE phase
  PROVE  MountInv'
<1> USE DEF MountInv
<1>1. /\ storage = w /\ w # "none" /\ worker' = worker /\ child' = child /\ mounted' = mounted
      /\ storage' = IF \A i \in Disks : ~elem'[i].is_dispatched THEN "none" ELSE w
  BY DEF DelayedPoll, threadVars, Workers
<1>2. \A v \in Workers : Holds(v)' = Holds(v)
  BY <1>1 DEF Holds
<1>3. \A v \in Workers : v # w => Holds(v) = {} /\ Pending(v) = {} /\ DOMAIN chan[v] = {}
  <2> SUFFICES ASSUME NEW v \in Workers, v # w
               PROVE  Holds(v) = {} /\ Pending(v) = {} /\ DOMAIN chan[v] = {}
    OBVIOUS
  <2>1. Holds(v) = {} /\ Pending(v) = {}
    BY <1>1 DEF DispatchedUntilAnswered
  <2>2. QED BY <2>1 DEF Pending
<1>4. chan[w] \in Seq(Response) /\ DOMAIN chan[w] = 1..Len(chan[w]) /\ Len(chan[w]) \in Nat
  BY LenProperties DEF TypeOK
<1>5. PICK i \in Disks : elem[i].is_dispatched
  BY <1>1 DEF StorageInv
<1>6. CASE chan[w] = <<>> /\ worker[w].pc # "ended"
  <2>1. elem' = elem /\ chan' = chan
    BY <1>6 DEF DelayedPoll
  <2>2. storage' = storage
    BY <1>1, <1>5, <2>1
  <2>3. phase' = phase
    BY <1>1, <2>2
  <2>4. ReapInv'
    BY <1>1 DEF ReapInv, Here
  <2>5. \A v \in Workers : Pending(v)' = Pending(v) /\ DOMAIN chan'[v] = DOMAIN chan[v]
    BY <2>1 DEF Pending
  <2>6. TypeOK' /\ StorageInv' /\ FlagMatchesTable'
    BY <1>1, <2>1, <2>2, <2>3 DEF TypeOK, StorageInv, FlagMatchesTable
  <2>7. DispatchedUntilAnswered'
    BY <1>2, <2>1, <2>2, <2>5 DEF DispatchedUntilAnswered
  <2>8. AnswerInv' /\ ResponsesAreTrue'
    BY <1>1, <2>1 DEF AnswerInv, ResponsesAreTrue
  <2>9. LaunchInv' /\ TerminateInv'
    BY <1>1, <1>2, <2>1, <2>2, <2>5 DEF LaunchInv, TerminateInv, Workers
  <2>10. TerminateThread' /\ PhaseInv' /\ TerminateReleases'
    BY <1>1, <2>2, <2>3 DEF TerminateThread, PhaseInv, TerminateReleases
  <2>11. QED BY <2>4, <2>6, <2>7, <2>8, <2>9, <2>10
<1>7. CASE chan[w] # <<>>
  <2> DEFINE m == Head(chan[w])
  <2>1. elem' = Answered(m) /\ chan' = [chan EXCEPT ![w] = Tail(chan[w])]
    BY <1>7 DEF DelayedPoll
  <2>2. /\ chan'[w] \in Seq(Response) /\ Len(chan[w]) >= 1
        /\ DOMAIN chan'[w] = 1..(Len(chan[w]) - 1)
        /\ \A k \in 1..(Len(chan[w]) - 1) : chan'[w][k] = chan[w][k + 1]
        /\ \A v \in Workers : v # w => chan'[v] = chan[v]
    <3>1. chan'[w] = Tail(chan[w]) /\ \A v \in Workers : v # w => chan'[v] = chan[v]
      BY <2>1 DEF TypeOK
    <3>2. /\ Tail(chan[w]) \in Seq(Response) /\ Len(Tail(chan[w])) = Len(chan[w]) - 1
          /\ \A k \in 1..Len(Tail(chan[w])) : Tail(chan[w])[k] = chan[w][k + 1]
      BY <1>4, <1>7, HeadTailProperties
    <3>3. Len(chan[w]) >= 1
      BY <1>4, <1>7, EmptySeq
    <3>4. DOMAIN Tail(chan[w]) = 1..Len(Tail(chan[w]))
      BY <3>2, LenProperties
    <3>5. QED BY <3>1, <3>2, <3>3, <3>4
  <2>3. m = chan[w][1] /\ m \in Response /\ 1 \in DOMAIN chan[w]
    BY <1>4, <1>7, <2>2, HeadTailProperties
  <2>4. /\ m.index \in Disks /\ m.index \in Pending(w) /\ m.index \notin Holds(w)
        /\ m.operation = (IF w = "launch" THEN 0 ELSE 1)
        /\ m.operation = 1 => m.result # 0 \/ m.index \notin mounted
        /\ m.index \in mounted <=> m.operation = 0 /\ m.result = 0
        /\ m.result \in {0, -1}
    BY <2>3 DEF Response, Pending, Holds, AnswerInv, ResponsesAreTrue
  <2>5. /\ \A j \in Disks : j # m.index => elem'[j] = elem[j]
        /\ ~elem'[m.index].is_dispatched
        /\ elem'[m.index].is_mounted =
             IF m.operation = 0 /\ m.result = -1 THEN elem[m.index].is_mounted ELSE m.operation = 0
    BY <2>1, <2>4 DEF Answered, TypeOK
  <2>6. elem'[m.index].is_mounted <=> m.index \in mounted
    <3>1. w = "launch" => ~elem[m.index].is_mounted
      BY <2>4 DEF LaunchInv
    <3>2. CASE m.operation = 0 /\ m.result = -1
      <4>1. w = "launch" /\ m.index \notin mounted
        BY <2>4, <3>2
      <4>2. QED BY <2>5, <3>1, <3>2, <4>1
    <3>3. CASE ~(m.operation = 0 /\ m.result = -1)
      <4>1. elem'[m.index].is_mounted <=> m.operation = 0
        BY <2>5, <3>3
      <4>2. m.index \in mounted <=> m.operation = 0
        BY <2>4, <3>3
      <4>3. QED BY <4>1, <4>2
    <3>4. QED BY <3>2, <3>3
  <2>7. Pending(w)' = Pending(w) \ {m.index}
    <3>1. \A x \in Pending(w)' : x \in Pending(w) /\ x # m.index
      <4> SUFFICES ASSUME NEW k \in DOMAIN chan'[w]
                   PROVE  chan'[w][k].index \in Pending(w) /\ chan'[w][k].index # m.index
        BY DEF Pending
      <4>1. k + 1 \in DOMAIN chan[w] /\ chan'[w][k] = chan[w][k + 1] /\ k + 1 # 1
        BY <1>4, <2>2
      <4>2. QED BY <2>3, <4>1 DEF Pending, AnswerInv
    <3>2. \A x \in Pending(w) : x = m.index \/ x \in Pending(w)'
      <4> SUFFICES ASSUME NEW k \in DOMAIN chan[w], chan[w][k].index # m.index
                   PROVE  chan[w][k].index \in Pending(w)'
        BY DEF Pending
      <4>1. k - 1 \in DOMAIN chan'[w] /\ chan'[w][k - 1] = chan[w][k]
        BY <1>4, <2>2, <2>3
      <4>2. QED BY <4>1 DEF Pending
    <3>3. QED BY <3>1, <3>2, <2>3 DEF Pending
  <2>8. \A v \in Workers : v # w => Pending(v)' = {} /\ DOMAIN chan'[v] = {}
    BY <1>3, <2>2 DEF Pending
  <2>9. TypeOK'
    <3>1. chan' \in [Workers -> Seq(Response)]
      BY <2>1, <2>2 DEF TypeOK
    <3>2. elem' \in [Disks -> [is_mounted : BOOLEAN, is_dispatched : BOOLEAN]]
      BY <2>1, <2>4 DEF TypeOK, Answered
    <3>3. QED BY <1>1, <3>1, <3>2 DEF TypeOK, Workers
  <2>10. \A j \in Holds(w)' \cup Pending(w)' :
           j \in Disks /\ j # m.index /\ j \in Holds(w) \cup Pending(w)
                       /\ elem'[j] = elem[j] /\ elem[j].is_dispatched
    <3>1. \A j \in Pending(w) : j \in Disks
      <4>1. \A k \in DOMAIN chan[w] : chan[w][k] \in Response
        BY <1>4, ElementOfSeq
      <4>2. QED BY <4>1 DEF Pending, Response
    <3>2. QED BY <1>2, <2>4, <2>5, <2>7, <3>1 DEF Holds, DispatchedUntilAnswered
  <2>11. DispatchedUntilAnswered'
    <3> SUFFICES ASSUME NEW v \in Workers, NEW j \in Holds(v)' \cup Pending(v)'
                 PROVE  storage' = v /\ elem'[j].is_dispatched
      BY DEF DispatchedUntilAnswered
    <3>1. v = w
      BY <1>2, <1>3, <2>8
    <3>2. QED BY <1>1, <2>10, <3>1
  <2>12. AnswerInv'
    <3>1. ASSUME NEW k \in DOMAIN chan'[w]
          PROVE  k + 1 \in DOMAIN chan[w] /\ chan'[w][k] = chan[w][k + 1] /\ k \in Nat
      BY <1>4, <2>2
    <3>2. ASSUME NEW k \in DOMAIN chan'[w], NEW l \in DOMAIN chan'[w],
                 chan'[w][k].index = chan'[w][l].index
          PROVE  k = l
      <4>1. k + 1 = l + 1
        BY <3>1, <3>2 DEF AnswerInv
      <4>2. QED BY <3>1, <4>1
    <3>3. QED BY <1>1, <2>8, <3>1, <3>2 DEF AnswerInv
  <2>13. ResponsesAreTrue'
    <3>1. ASSUME NEW k \in DOMAIN chan'[w]
          PROVE  k + 1 \in DOMAIN chan[w] /\ chan'[w][k] = chan[w][k + 1]
      BY <1>4, <2>2
    <3>2. QED BY <1>1, <2>8, <3>1 DEF ResponsesAreTrue
  <2>14. FlagMatchesTable'
    BY <1>1, <2>5, <2>6 DEF FlagMatchesTable
  <2>15. StorageInv'
    BY <1>1 DEF StorageInv
  <2>16. LaunchInv'
    <3>1. CASE w = "launch"
      BY <1>1, <1>2, <2>10, <3>1 DEF LaunchInv
    <3>2. CASE w # "launch"
      BY <1>1, <1>2, <1>3, <2>8, <3>2 DEF LaunchInv, Workers
    <3>3. QED BY <3>1, <3>2
  <2>17. ASSUME w = "terminate", NEW j \in Disks,
                elem'[j].is_mounted \/ elem'[j].is_dispatched
         PROVE  j \in Holds(w)' \cup Pending(w)' /\ elem'[j].is_dispatched
    <3>1. j # m.index
      BY <2>4, <2>5, <2>6, <2>17
    <3>2. j \in Holds(w) \cup Pending(w)
      BY <1>1, <2>5, <2>17, <3>1 DEF TerminateInv
    <3>3. j \in Holds(w)' \cup Pending(w)'
      BY <1>2, <2>7, <3>1, <3>2
    <3>4. QED BY <2>10, <3>3
  <2>18. TerminateInv'
    BY <1>1, <2>17 DEF TerminateInv
  <2>19. TerminateThread' /\ PhaseInv'
    BY <1>1 DEF TerminateThread, PhaseInv, Workers
  <2>20. TerminateReleases'
    <3> SUFFICES ASSUME phase' = "exited", worker["terminate"].pc # "none"
                 PROVE  mounted = {}
      BY <1>1 DEF TerminateReleases
    <3>1. w = "terminate" /\ storage' = "none"
      BY <1>1 DEF PhaseInv
    <3>2. \A j \in Disks : ~elem'[j].is_dispatched
      BY <1>1, <3>1
    <3>3. \A j \in Disks : ~elem'[j].is_mounted
      BY <2>17, <3>1, <3>2
    <3>4. QED BY <1>1, <2>14, <3>2, <3>3 DEF FlagMatchesTable, TypeOK
  <2>21. ReapInv'
    BY <1>1 DEF ReapInv, Here
  <2>22. QED BY <2>9, <2>11, <2>12, <2>13, <2>14, <2>15, <2>16, <2>18, <2>19, <2>20, <2>21
<1>8. CASE chan[w] = <<>> /\ worker[w].pc = "ended"
  <2>1. elem' = Answered(EndOfFile) /\ chan' = chan
    BY <1>8 DEF DelayedPoll
  <2>2. Pending(w) = {}
    <3>1. Len(chan[w]) = 0
      BY <1>8, EmptySeq
    <3>2. QED BY <1>4, <3>1 DEF Pending
  <2>3. w = "launch"
    <3>1. w = "terminate" => Holds(w) = {}
      BY <1>8 DEF TerminateThread, Holds
    <3>2. QED BY <1>1, <1>5, <2>2, <3>1 DEF TerminateInv, Workers
  <2>4. \A v \in Workers : Holds(v) = {} /\ Pending(v) = {}
    BY <1>3, <1>8, <2>2, <2>3 DEF LaunchInv
  <2>5. \A v \in Workers : Holds(v)' = {} /\ Pending(v)' = {} /\ DOMAIN chan'[v] = {}
    <3>1. \A v \in Workers : DOMAIN chan[v] = {}
      BY <2>4 DEF Pending
    <3>2. QED BY <1>2, <2>1, <2>4, <3>1 DEF Pending
  <2>6. 0 \in Disks
    BY <1>5, DisksAssumption DEF Disks
  <2>7. EndOfFile.index = 0 /\ EndOfFile.operation = 0 /\ EndOfFile.result # -1
    BY DEF EndOfFile
  <2>8. /\ \A j \in Disks : j # 0 => elem'[j] = elem[j]
        /\ elem'[0].is_mounted /\ ~elem'[0].is_dispatched
    BY <2>1, <2>6, <2>7 DEF TypeOK, Answered
  <2>9. TypeOK'
    <3>1. elem' \in [Disks -> [is_mounted : BOOLEAN, is_dispatched : BOOLEAN]]
      BY <2>1, <2>6, <2>7 DEF TypeOK, Answered
    <3>2. QED BY <1>1, <2>1, <3>1 DEF TypeOK, Workers
  <2>10. FlagMatchesTable'
    BY <1>1, <2>8 DEF FlagMatchesTable
  <2>11. StorageInv'
    BY <1>1 DEF StorageInv
  <2>12. DispatchedUntilAnswered' /\ AnswerInv' /\ ResponsesAreTrue'
    BY <2>5 DEF DispatchedUntilAnswered, AnswerInv, ResponsesAreTrue
  <2>13. LaunchInv' /\ TerminateInv' /\ TerminateThread'
    BY <1>1, <2>3, <2>5 DEF LaunchInv, TerminateInv, TerminateThread, Workers
  <2>14. PhaseInv' /\ TerminateReleases'
    BY <1>1, <2>3 DEF PhaseInv, TerminateReleases
  <2>15. ReapInv'
    BY <1>1 DEF ReapInv, Here
  <2>16. QED BY <2>9, <2>10, <2>11, <2>12, <2>13, <2>14, <2>15
<1>9. QED BY <1>6, <1>7, <1>8

-----------------------------------------------------------------------------
(***************************************************************************)
(* The actions of the threads.                                             *)
(***************************************************************************)

\* Only the launch gets as far as the repair.
LEMMA RepairIsLaunch ==
  ASSUME MountInv, NEW w \in Workers, worker[w].pc \in {"exec", "wait", "blind", "reap", "retake"}
  PROVE  w = "launch"
BY DEF MountInv, TerminateThread, Workers

\* QuietStep for a step that moves a thread and leaves its list as it is.
LEMMA GoStep ==
  ASSUME MountInv, NEW w \in Workers, NEW pc \in ThreadStates \ {"none"}, NEW pos \in 0..NumDisks,
         HostUnchanged, Go(w, pc, pos), chan' = chan,
         child' \in {"none", "running", "exited"}, mounted' \subseteq Disks,
         \A i \in Disks : worker[w].list[i] = "absent" => (i \in mounted' <=> i \in mounted),
         pc = "mount" => worker[w].pc = "mount" /\ mounted' = mounted,
         pc = "ended" => worker[w].pc = "ended",
         pc \in {"wait", "blind", "reap"} => pos \in Disks /\ worker[w].list[pos] # "absent",
         w = "terminate" =>
           /\ worker[w].pc # "none" /\ pc \in {"mount", "close", "ended"}
           /\ pc = "mount" => \A i \in Disks : i < pos => worker[w].list[i] = "absent"
           /\ pc # "mount" => \A i \in Disks : worker[w].list[i] = "absent"
  PROVE  MountInv'
<1> DEFINE r == [worker[w] EXCEPT !.pc = pc, !.pos = pos]
<1>1. worker[w] \in Thread
  BY DEF MountInv, TypeOK, Thread
<1>2. r \in Thread /\ r.pc = pc /\ r.pos = pos /\ r.list = worker[w].list
  BY <1>1 DEF Thread
<1>3. worker' = [worker EXCEPT ![w] = r]
  BY DEF Go
<1>4. pc = "ended" => \A i \in Disks : worker[w].list[i] = "absent"
  BY DEF MountInv, LaunchInv, TerminateThread, Holds, Workers
<1> HIDE DEF r
<1>5. phase # "exited" /\ UNCHANGED <<phase, elem, storage, chan>>
  BY DEF HostUnchanged
<1>6. \A i \in Disks : worker[w].list[i] = "absent" =>
        r.list[i] = "absent" /\ (i \in mounted' <=> i \in mounted)
  BY <1>2
<1>7. /\ w = "launch" /\ r.pc \in {"none", "mount"} =>
           worker[w].pc = r.pc /\ mounted' = mounted
      /\ r.pc = "ended" => \A i \in Disks : r.list[i] = "absent"
      /\ r.pc \in {"wait", "blind", "reap"} => r.pos \in Disks /\ r.list[r.pos] # "absent"
  BY <1>2, <1>4
<1>8. w = "terminate" =>
        /\ worker[w].pc # "none" /\ r.pc \in {"mount", "close", "ended"}
        /\ \A i \in Disks : r.list[i] = "absent" => worker[w].list[i] = "absent"
        /\ r.pc = "mount" => \A i \in Disks : i < r.pos => r.list[i] = "absent"
        /\ r.pc # "mount" => \A i \in Disks : r.list[i] = "absent"
  BY <1>2
<1>9. r \in Thread
  BY <1>2
<1>10. QED
  BY <1>3, <1>5, <1>6, <1>7, <1>8, <1>9, QuietStep

\* The position of a thread in a pass is that of an element.
LEMMA AtIndex ==
  ASSUME MountInv, NEW w \in Workers, NEW pc, InPass(w, pc)
  PROVE  Here(w) \in Disks /\ Here(w) + 1 \in 0..NumDisks /\ worker[w].pc = pc
BY DisksAssumption DEF MountInv, TypeOK, InPass, Here, Disks

LEMMA SkipKeeps ==
  ASSUME MountInv, NEW w \in Workers, SkipIndex(w)
  PROVE  MountInv'
<1>1. PICK pc \in {"mount", "exec", "retake"} :
        InPass(w, pc) /\ worker[w].list[Here(w)] = "absent" /\ Go(w, pc, Here(w) + 1)
  BY DEF SkipIndex
<1>2. Here(w) \in Disks /\ Here(w) + 1 \in 0..NumDisks /\ worker[w].pc = pc
  BY <1>1, AtIndex
<1>3. w = "terminate" => pc = "mount" /\ \A i \in Disks : i < Here(w) + 1 => worker[w].list[i] = "absent"
  <2>1. w = "terminate" =>
          pc = "mount" /\ \A i \in Disks : i < Here(w) => worker[w].list[i] = "absent"
    BY <1>2 DEF MountInv, TerminateThread, Here
  <2>2. \A i \in Disks : i < Here(w) + 1 => i < Here(w) \/ i = Here(w)
    BY <1>2 DEF Disks
  <2>3. QED BY <1>1, <2>1, <2>2
<1>4. /\ HostUnchanged /\ chan' = chan /\ child' = child /\ mounted' = mounted
      /\ child \in {"none", "running", "exited"} /\ mounted \subseteq Disks
      /\ pc \in ThreadStates \ {"none"} /\ pc # "ended"
  BY DEF SkipIndex, MountInv, TypeOK, ThreadStates
<1>5. QED BY <1>1, <1>2, <1>3, <1>4, GoStep

LEMMA MountKeeps ==
  ASSUME MountInv, NEW w \in Workers, MountElement(w)
  PROVE  MountInv'
<1> DEFINE i == Here(w)
<1>1. w = "launch" /\ AtElement(w, "mount") /\ HostUnchanged /\ child' = child
  BY DEF MountElement
<1>2. i \in Disks /\ i + 1 \in 0..NumDisks /\ worker[w].pc = "mount"
  BY <1>1, AtIndex DEF AtElement
<1>3. /\ i \notin mounted /\ mounted \subseteq Disks
      /\ child \in {"none", "running", "exited"}
  BY <1>1, <1>2 DEF MountInv, TypeOK, LaunchInv, Holds, AtElement
<1>4. CASE mounted' = mounted \cup {i} /\ Reply(w, 0, 0)
  BY <1>1, <1>2, <1>3, <1>4, ReplyStep
<1>5. CASE mounted' = mounted /\ Reply(w, 0, -1)
  BY <1>1, <1>2, <1>3, <1>5, ReplyStep
<1>6. CASE Go(w, "mount", i + 1) /\ UNCHANGED <<chan, mounted>>
  <2>1. "mount" \in ThreadStates \ {"none"} /\ chan' = chan /\ mounted' = mounted
    BY <1>6 DEF ThreadStates
  <2>2. QED BY <1>1, <1>2, <1>3, <1>6, <2>1, GoStep
<1>7. QED BY <1>4, <1>5, <1>6 DEF MountElement

LEMMA UnmountKeeps ==
  ASSUME MountInv, NEW w \in Workers, UnmountElement(w)
  PROVE  MountInv'
<1>1. /\ w = "terminate" /\ AtElement(w, "mount") /\ HostUnchanged /\ child' = child
      /\ mounted' = mounted \ {Here(w)} /\ Reply(w, 1, 0)
  BY DEF UnmountElement
<1>2. mounted \subseteq Disks
  BY DEF MountInv, TypeOK
<1>3. QED BY <1>1, <1>2, ReplyStep

LEMMA MountPassEndsKeeps ==
  ASSUME MountInv, NEW w \in Workers, MountPassEnds(w)
  PROVE  MountInv'
<1>1. /\ worker[w].pc = "mount" /\ worker[w].pos = NumDisks
      /\ HostUnchanged /\ chan' = chan /\ child' = child /\ mounted' = mounted
  BY DEF MountPassEnds, PassEnds, Here
<1>2. PICK pc \in {"close", "exec"} : Go(w, pc, 0) /\ (pc = "exec" => Holds(w) # {})
  BY DEF MountPassEnds
<1>3. w = "terminate" => \A i \in Disks : worker[w].list[i] = "absent"
  BY <1>1, DisksAssumption DEF MountInv, TerminateThread, Disks
<1>4. w = "terminate" => pc = "close"
  BY <1>2, <1>3 DEF Holds
<1>5. /\ child \in {"none", "running", "exited"} /\ mounted \subseteq Disks
      /\ 0 \in 0..NumDisks /\ pc \in ThreadStates \ {"none"}
  BY DisksAssumption DEF MountInv, TypeOK, ThreadStates
<1>6. QED BY <1>1, <1>2, <1>3, <1>4, <1>5, GoStep

LEMMA ForkKeeps ==
  ASSUME MountInv, NEW w \in Workers, ForkChild(w)
  PROVE  MountInv'
<1>1. /\ AtElement(w, "exec") /\ InPass(w, "exec") /\ HostUnchanged
      /\ chan' = chan /\ mounted' = mounted
  BY DEF ForkChild, AtElement
<1>2. /\ Here(w) \in Disks /\ Here(w) + 1 \in 0..NumDisks /\ Here(w) \in 0..NumDisks
      /\ worker[w].pc = "exec"
  BY <1>1, AtIndex, DisksAssumption DEF Disks
<1>3. w = "launch"
  BY <1>2, RepairIsLaunch
<1>4. /\ child \in {"none", "running", "exited"} /\ mounted \subseteq Disks
      /\ worker[w].list \in [Disks -> ElemStates]
  BY DEF MountInv, TypeOK
<1>5. CASE child' = "running" /\ \E pc \in {"wait", "blind"} : Go(w, pc, Here(w))
  <2>1. PICK pc \in {"wait", "blind"} : Go(w, pc, Here(w))
    BY <1>5
  <2>2. pc \in ThreadStates \ {"none"}
    BY DEF ThreadStates
  <2>3. worker[w].list[Here(w)] # "absent"
    BY <1>1 DEF AtElement
  <2>4. QED BY <1>1, <1>2, <1>3, <1>4, <1>5, <2>1, <2>2, <2>3, GoStep
<1>6. CASE SetElem(w, "CANCELED", "exec", Here(w) + 1) /\ child' = child
  <2> DEFINE r == [pc |-> "exec", pos |-> Here(w) + 1,
                   list |-> [worker[w].list EXCEPT ![Here(w)] = "CANCELED"]]
  <2>1. r \in Thread
    BY <1>2, <1>4 DEF Thread, ThreadStates, ElemStates
  <2>2. r.pc = "exec" /\ \A i \in Disks : worker[w].list[i] = "absent" => r.list[i] = "absent"
    BY <1>1, <1>2, <1>4 DEF AtElement
  <2>3. worker' = [worker EXCEPT ![w] = r]
    BY <1>6 DEF SetElem
  <2> HIDE DEF r
  <2>4. QED BY <1>1, <1>3, <1>4, <1>6, <2>1, <2>2, <2>3, QuietStep DEF HostUnchanged
<1>7. QED BY <1>5, <1>6 DEF ForkChild

LEMMA PollChildKeeps ==
  ASSUME MountInv, NEW w \in Workers, PollChild(w)
  PROVE  MountInv'
<1>1. /\ worker[w].pc \in {"wait", "blind"} /\ Go(w, "reap", Here(w)) /\ HostUnchanged
      /\ chan' = chan /\ child' = child /\ mounted' = mounted
  BY DEF PollChild
<1>2. w = "launch"
  BY <1>1, RepairIsLaunch
<1>3. /\ child \in {"none", "running", "exited"} /\ mounted \subseteq Disks
      /\ Here(w) \in 0..NumDisks /\ "reap" \in ThreadStates \ {"none"}
      /\ Here(w) \in Disks /\ worker[w].list[Here(w)] # "absent"
  BY <1>1 DEF MountInv, TypeOK, ReapInv, Here, ThreadStates
<1>4. QED BY <1>1, <1>2, <1>3, GoStep

LEMMA ReapKeeps ==
  ASSUME MountInv, NEW w \in Workers, ReapChild(w)
  PROVE  MountInv'
<1> DEFINE list == [worker[w].list EXCEPT ![Here(w)] = "COMPLETE"]
           done == [pc |-> "retake", pos |-> 0, list |-> WithoutCanceled(list)]
           next == [pc |-> "exec", pos |-> Here(w) + 1, list |-> list]
<1>1. /\ worker[w].pc = "reap" /\ HostUnchanged
      /\ chan' = chan /\ child' = "none" /\ mounted' = mounted
      /\ worker' = [worker EXCEPT ![w] = done] \/ worker' = [worker EXCEPT ![w] = next]
  BY DEF ReapChild
<1>2. w = "launch"
  BY <1>1, RepairIsLaunch
<1>3. mounted \subseteq Disks /\ worker[w].list \in [Disks -> ElemStates]
  BY DEF MountInv, TypeOK
<1>4. Here(w) \in Disks /\ Here(w) + 1 \in 0..NumDisks /\ worker[w].list[Here(w)] # "absent"
  <2>1. Here(w) \in Disks /\ worker[w].list[Here(w)] # "absent"
    BY <1>1 DEF MountInv, ReapInv
  <2>2. QED BY <2>1, DisksAssumption DEF Disks
<1>5. /\ list \in [Disks -> ElemStates]
      /\ \A i \in Disks : worker[w].list[i] = "absent" => list[i] = "absent"
  BY <1>3, <1>4 DEF ElemStates
<1>6. /\ WithoutCanceled(list) \in [Disks -> ElemStates]
      /\ \A i \in Disks : worker[w].list[i] = "absent" => WithoutCanceled(list)[i] = "absent"
  BY <1>5 DEF WithoutCanceled, ElemStates
<1>7. done \in Thread /\ next \in Thread
  BY <1>4, <1>5, <1>6, DisksAssumption DEF Thread, ThreadStates
<1>8. /\ done.pc = "retake" /\ next.pc = "exec" /\ next.list = list
      /\ \A i \in Disks : worker[w].list[i] = "absent" => done.list[i] = "absent"
  BY <1>6
<1> HIDE DEF done, next, list
<1>9. CASE worker' = [worker EXCEPT ![w] = done]
  BY <1>1, <1>2, <1>3, <1>7, <1>8, <1>9, QuietStep DEF HostUnchanged
<1>10. CASE worker' = [worker EXCEPT ![w] = next]
  BY <1>1, <1>2, <1>3, <1>5, <1>7, <1>8, <1>10, QuietStep DEF HostUnchanged
<1>11. QED BY <1>1, <1>9, <1>10

LEMMA ExecPassEndsKeeps ==
  ASSUME MountInv, NEW w \in Workers, ExecPassEnds(w)
  PROVE  MountInv'
<1> DEFINE r == [pc |-> "retake", pos |-> 0, list |-> WithoutCanceled(worker[w].list)]
<1>1. /\ worker[w].pc = "exec" /\ HostUnchanged /\ worker' = [worker EXCEPT ![w] = r]
      /\ chan' = chan /\ child' = child /\ mounted' = mounted
  BY DEF ExecPassEnds, PassEnds
<1>2. w = "launch"
  BY <1>1, RepairIsLaunch
<1>3. /\ child \in {"none", "running", "exited"} /\ mounted \subseteq Disks
      /\ worker[w].list \in [Disks -> ElemStates]
  BY DEF MountInv, TypeOK
<1>4. r \in Thread
  BY <1>3, DisksAssumption DEF Thread, ThreadStates, ElemStates, WithoutCanceled
<1>5. r.pc = "retake" /\ \A i \in Disks : worker[w].list[i] = "absent" => r.list[i] = "absent"
  BY DEF WithoutCanceled
<1> HIDE DEF r
<1>6. QED BY <1>1, <1>2, <1>3, <1>4, <1>5, QuietStep DEF HostUnchanged

LEMMA RetakeKeeps ==
  ASSUME MountInv, NEW w \in Workers, RetakeElement(w)
  PROVE  MountInv'
<1>1. /\ AtElement(w, "retake") /\ InPass(w, "retake") /\ HostUnchanged
      /\ Go(w, "retake", Here(w) + 1) /\ chan' = chan /\ child' = child
      /\ mounted' = mounted \cup {Here(w)} \/ mounted' = mounted
  BY DEF RetakeElement, AtElement
<1>2. Here(w) \in Disks /\ Here(w) + 1 \in 0..NumDisks /\ worker[w].pc = "retake"
  BY <1>1, AtIndex
<1>3. w = "launch"
  BY <1>2, RepairIsLaunch
<1>4. /\ child \in {"none", "running", "exited"} /\ mounted' \subseteq Disks
      /\ "retake" \in ThreadStates \ {"none"}
  BY <1>1, <1>2 DEF MountInv, TypeOK, ThreadStates
<1>5. \A i \in Disks : worker[w].list[i] = "absent" => (i \in mounted' <=> i \in mounted)
  BY <1>1 DEF AtElement
<1>6. QED BY <1>1, <1>2, <1>3, <1>4, <1>5, GoStep

LEMMA RetakePassEndsKeeps ==
  ASSUME MountInv, NEW w \in Workers, RetakePassEnds(w)
  PROVE  MountInv'
<1>1. /\ worker[w].pc = "retake" /\ HostUnchanged /\ Go(w, "close", 0)
      /\ chan' = chan /\ child' = child /\ mounted' = mounted
  BY DEF RetakePassEnds, PassEnds
<1>2. w = "launch"
  BY <1>1, RepairIsLaunch
<1>3. /\ child \in {"none", "running", "exited"} /\ mounted \subseteq Disks
      /\ 0 \in 0..NumDisks /\ "close" \in ThreadStates \ {"none"}
  BY DisksAssumption DEF MountInv, TypeOK, ThreadStates
<1>4. QED BY <1>1, <1>2, <1>3, GoStep

LEMMA CloseKeeps ==
  ASSUME MountInv, NEW w \in Workers, CloseWorker(w)
  PROVE  MountInv'
<1> DEFINE r == [pc |-> "ended", pos |-> 0, list |-> [i \in Disks |-> "absent"]]
<1>1. /\ worker[w].pc = "close" /\ HostUnchanged /\ worker' = [worker EXCEPT ![w] = r]
      /\ chan' = chan /\ child' = child /\ mounted' = mounted
  BY DEF CloseWorker
<1>2. child \in {"none", "running", "exited"} /\ mounted \subseteq Disks
  BY DEF MountInv, TypeOK
<1>3. r \in Thread
  BY DisksAssumption DEF Thread, ThreadStates, ElemStates
<1>4. r.pc = "ended" /\ \A i \in Disks : r.list[i] = "absent"
  OBVIOUS
<1>5. w = "terminate" => \A i \in Disks : worker[w].list[i] = "absent"
  BY <1>1 DEF MountInv, TerminateThread
<1> HIDE DEF r
<1>6. QED BY <1>1, <1>2, <1>3, <1>4, <1>5, QuietStep DEF HostUnchanged

-----------------------------------------------------------------------------
(***************************************************************************)
(* Theorems.                                                               *)
(***************************************************************************)

\* A step of a thread, of its child, or of the main thread that reads and writes
\* nothing of theirs.
LEMMA ThreadKeeps ==
  ASSUME MountInv, NEW w \in Workers, WorkerThread(w)
  PROVE  MountInv'
BY SkipKeeps, MountKeeps, UnmountKeeps, MountPassEndsKeeps, ForkKeeps, PollChildKeeps,
   ReapKeeps, ExecPassEndsKeeps, RetakeKeeps, RetakePassEndsKeeps, CloseKeeps
   DEF WorkerThread

LEMMA PhaseStep ==
  ASSUME MountInv, UNCHANGED <<elem, storage, chan, threadVars>>,
         \/ phase' = phase
         \/ phase = "boot" /\ phase' \in {"run", "exited"}
         \/ phase = "run" /\ phase' = "shutdown"
         \/ phase = "shutdown" /\ storage = "none" /\ phase' = "exited"
  PROVE  MountInv'
<1>1. PhaseInv' /\ TerminateReleases'
  BY DEF MountInv, PhaseInv, TerminateReleases, threadVars
<1>2. TypeOK'
  BY DEF MountInv, TypeOK, threadVars
<1>3. \A w \in Workers : Holds(w)' = Holds(w) /\ Pending(w)' = Pending(w) /\ Here(w)' = Here(w)
  BY DEF Holds, Pending, Here, threadVars
<1>4. DispatchedUntilAnswered' /\ LaunchInv' /\ TerminateInv' /\ ReapInv'
  BY <1>3 DEF MountInv, DispatchedUntilAnswered, LaunchInv, TerminateInv, ReapInv, Workers, threadVars
<1>5. AnswerInv' /\ ResponsesAreTrue' /\ FlagMatchesTable' /\ StorageInv' /\ TerminateThread'
  BY DEF MountInv, AnswerInv, ResponsesAreTrue, FlagMatchesTable, StorageInv, TerminateThread, threadVars
<1>6. QED BY <1>1, <1>2, <1>4, <1>5 DEF MountInv

LEMMA ChildKeeps ==
  ASSUME MountInv, ChildExits
  PROVE  MountInv'
<1>1. UNCHANGED <<phase, elem, storage, worker, chan, mounted>> /\ child' = "exited"
  BY DEF ChildExits, HostUnchanged
<1>2. TypeOK' /\ PhaseInv' /\ TerminateReleases'
  BY <1>1 DEF MountInv, TypeOK, PhaseInv, TerminateReleases
<1>3. \A w \in Workers : Holds(w)' = Holds(w) /\ Pending(w)' = Pending(w) /\ Here(w)' = Here(w)
  BY <1>1 DEF Holds, Pending, Here
<1>4. DispatchedUntilAnswered' /\ LaunchInv' /\ TerminateInv' /\ ReapInv'
  BY <1>1, <1>3 DEF MountInv, DispatchedUntilAnswered, LaunchInv, TerminateInv, ReapInv, Workers
<1>5. AnswerInv' /\ ResponsesAreTrue' /\ FlagMatchesTable' /\ StorageInv' /\ TerminateThread'
  BY <1>1 DEF MountInv, AnswerInv, ResponsesAreTrue, FlagMatchesTable, StorageInv, TerminateThread
<1>6. QED BY <1>2, <1>4, <1>5 DEF MountInv

LEMMA MountInvariant == Spec => []MountInv
<1>1. Init => MountInv
  <2> SUFFICES ASSUME Init PROVE MountInv
    OBVIOUS
  <2>1. \A w \in Workers : /\ chan[w] = <<>> /\ DOMAIN chan[w] = {}
                           /\ worker[w].pc = "none"
                           /\ \A i \in Disks : worker[w].list[i] = "absent"
    BY DEF Init
  <2>2. TypeOK
    <3>1. <<>> \in Seq(Response)
      BY EmptySeq
    <3>2. QED BY <3>1, DisksAssumption DEF Init, TypeOK, ThreadStates, ElemStates
  <2>3. \A w \in Workers : Holds(w) = {} /\ Pending(w) = {}
    BY <2>1 DEF Holds, Pending
  <2>4. DispatchedUntilAnswered /\ AnswerInv /\ ResponsesAreTrue /\ ReapInv
    BY <2>1, <2>3 DEF DispatchedUntilAnswered, AnswerInv, ResponsesAreTrue, ReapInv
  <2>5. FlagMatchesTable /\ StorageInv /\ LaunchInv /\ TerminateInv
    BY <2>3 DEF Init, FlagMatchesTable, StorageInv, LaunchInv, TerminateInv, Workers
  <2>6. TerminateThread /\ PhaseInv /\ TerminateReleases
    BY <2>1 DEF Init, TerminateThread, PhaseInv, TerminateReleases, Workers
  <2>7. QED BY <2>2, <2>4, <2>5, <2>6 DEF MountInv
<1>2. MountInv /\ [Next]_vars => MountInv'
  <2> SUFFICES ASSUME MountInv, [Next]_vars PROVE MountInv'
    OBVIOUS
  <2>1. CASE DelayedLaunch
    <3>1. storage = "none"
      BY <2>1 DEF DelayedLaunch, MountInv, PhaseInv
    <3>2. CASE Disks \ Mounted # {} /\ Dispatch("launch", Disks \ Mounted)
               /\ phase = "boot" /\ phase' = "run"
      BY <3>1, <3>2, DispatchStep DEF Workers
    <3>3. QED BY <2>1, <3>2, PhaseStep DEF DelayedLaunch
  <2>2. CASE CyclicOperation
    <3>1. PICK w \in Workers : DelayedPoll(w)
      BY <2>2 DEF CyclicOperation
    <3>2. phase = "run" /\ phase' = phase
      BY <2>2 DEF CyclicOperation
    <3>3. QED BY <3>1, <3>2, PollStep
  <2>3. CASE GuestsExited
    BY <2>3, PhaseStep DEF GuestsExited
  <2>4. CASE DelayedTerminate
    <3>1. CASE Mounted # {} /\ Dispatch("terminate", Mounted) /\ phase' = phase
      <4>1. Mounted \in SUBSET Disks
        BY DEF Mounted
      <4>2. storage = "none" /\ phase = "shutdown"
        BY <2>4 DEF DelayedTerminate
      <4>3. QED BY <3>1, <4>1, <4>2, DispatchStep DEF Workers
    <3>2. QED BY <2>4, <3>1, PhaseStep DEF DelayedTerminate
  <2>5. CASE PollAtShutdown
    <3>1. PICK w \in Workers : DelayedPoll(w)
      BY <2>5 DEF PollAtShutdown
    <3>2. phase = "shutdown" /\ phase' = IF storage' = "none" THEN "exited" ELSE phase
      BY <2>5 DEF PollAtShutdown
    <3>3. QED BY <3>1, <3>2, PollStep
  <2>6. CASE \E w \in Workers : WorkerThread(w)
    BY <2>6, ThreadKeeps
  <2>7. CASE ChildExits
    BY <2>7, ChildKeeps
  <2>8. CASE UNCHANGED vars
    BY <2>8, PhaseStep DEF vars, threadVars
  <2>9. QED
    BY <2>1, <2>2, <2>3, <2>4, <2>5, <2>6, <2>7, <2>8 DEF Next, Ended
<1>3. QED BY <1>1, <1>2, PTL DEF Spec

\* The state of the main thread, the threads and their messages keeps its types.
THEOREM MountTypeCorrect == Spec => []TypeOK
BY MountInvariant, PTL DEF MountInv

\* The storage and its socket outlive the work of the thread: no disk that
\* a thread holds or has answered is taken for done by
\* manager_operation_delayed_poll, and never are both threads at work.
THEOREM WorkerOutlived == Spec => []DispatchedUntilAnswered
BY MountInvariant, PTL DEF MountInv

\* What a response says of the mount table is still so when it is read.
THEOREM ResponsesStayTrue == Spec => []ResponsesAreTrue
BY MountInvariant, PTL DEF MountInv

\* is_mounted of a disk that is not dispatched agrees with the mount table, for
\* every disk but the first also when a worker has ended without its answer.
THEOREM FlagsAreTrue == Spec => []FlagMatchesTable
BY MountInvariant, PTL DEF MountInv

\* A terminate that was started is waited for and leaves nothing mounted.
THEOREM TerminateUnmountsAll == Spec => []TerminateReleases
BY MountInvariant, PTL DEF MountInv
=============================================================================
