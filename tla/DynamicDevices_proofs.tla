------------------------ MODULE DynamicDevices_proofs ------------------------
(***************************************************************************)
(* Proofs about DynamicDevices, for every number of guests, every set of   *)
(* devices and rules and every set of faults.                              *)
(***************************************************************************)
EXTENDS DynamicDevices, WellFoundedInduction, TLAPS

-----------------------------------------------------------------------------
(***************************************************************************)
(* The inductive invariant.                                                *)
(***************************************************************************)

\* The last event that waits for a device tells whether it is plugged, unless a later
\* one was dropped.
LastEventTells ==
  \A k \in DOMAIN uevents :
    /\ uevents[k].device \notin missed
    /\ \A j \in DOMAIN uevents : j > k => uevents[j].device # uevents[k].device
    => (uevents[k].action = "remove" <=> uevents[k].device \notin present)

\* What a guest has, an item of its own has given: a node and a permission are for
\* devices with a number.
GrantedByItem ==
  \A c \in Container, d \in Device :
    /\ d \in node[c] =>
         Kind[d] \in {"blk", "chr"} /\ \E k \in ItemsFor(c, d, "add") : Items[c][k].devnode
    /\ d \in allowed[c] =>
         Kind[d] \in {"blk", "chr"} /\ \E k \in ItemsFor(c, d, "add") : Items[c][k].allow

\* A guest without processes has nothing.
EndedIsClear ==
  \A c \in Container :
    c \notin running => node[c] = {} /\ allowed[c] = {}

IInv ==
  /\ TypeOK /\ LastEventTells /\ GrantedByItem /\ EndedIsClear /\ AccessRevoked

LEMMA InitInv == Init => IInv
<1> SUFFICES ASSUME Init PROVE IInv
  OBVIOUS
<1>1. TypeOK
  <2>1. 0 \in 0 .. MaxStarts /\ 0 \in 0 .. MaxPlugs
    BY DevicesAssumption
  <2>2. error \in BOOLEAN /\ monitored \in BOOLEAN
    BY DEF Init
  <2>3. uevents \in Seq(Uevent) /\ missed \subseteq Device
    BY DEF Init
  <2>4. /\ node \in [Container -> SUBSET Device] /\ allowed \in [Container -> SUBSET Device]
        /\ unwritten \in [Container -> SUBSET Device] /\ known \in [Container -> SUBSET Device]
        /\ status \in [Container -> {"STARTED", "STOPPING", "DOWN"}]
        /\ running \subseteq Container /\ present \subseteq Device
    BY DEF Init, Nothing
  <2> QED
    BY <2>1, <2>2, <2>3, <2>4 DEF Init, TypeOK
<1>2. LastEventTells /\ GrantedByItem /\ EndedIsClear /\ AccessRevoked
  BY DEF Init, LastEventTells, GrantedByItem, EndedIsClear, AccessRevoked, Nothing
<1> QED
  BY <1>1, <1>2 DEF IInv

-----------------------------------------------------------------------------
(***************************************************************************)
(* The queue of events.                                                    *)
(***************************************************************************)

\* An event of device d is appended to the queue, and tells whether it is plugged.
LEMMA QueueTells ==
  ASSUME TypeOK, LastEventTells, NEW action \in Actions, NEW d \in Device,
         uevents' = Append(uevents, [action |-> action, device |-> d]),
         \A o \in Device \ {d} : o \in present' <=> o \in present,
         \A o \in Device \ {d} : o \in missed' <=> o \in missed,
         action = "remove" <=> d \notin present'
  PROVE  /\ uevents' \in Seq(Uevent) /\ LastEventTells'
         /\ \A o \in Device : (\A k \in DOMAIN uevents' : uevents'[k].device # o)
              => o # d /\ \A k \in DOMAIN uevents : uevents[k].device # o
<1> DEFINE e == [action |-> action, device |-> d]
           n == Len(uevents)
<1>1. e \in Uevent /\ e.action = action /\ e.device = d
  BY DEF Uevent
<1>2. uevents \in Seq(Uevent) /\ n \in Nat /\ uevents' = Append(uevents, e)
  BY DEF TypeOK
<1> HIDE DEF e
<1>3. /\ uevents' \in Seq(Uevent)
      /\ Len(uevents') = n + 1 /\ uevents'[n + 1] = e
      /\ \A k \in 1 .. n : uevents'[k] = uevents[k]
  BY <1>1, <1>2
<1>4. DOMAIN uevents = 1 .. n /\ DOMAIN uevents' = 1 .. (n + 1)
  BY <1>2, <1>3
<1>5. \A k \in 1 .. n : uevents[k] \in Uevent
  BY <1>2
<1>6. LastEventTells'
  <2> SUFFICES ASSUME NEW k \in 1 .. (n + 1), uevents'[k].device \notin missed',
                      \A j \in 1 .. (n + 1) : j > k => uevents'[j].device # uevents'[k].device
               PROVE  uevents'[k].action = "remove" <=> uevents'[k].device \notin present'
    BY <1>4 DEF LastEventTells
  <2>1. CASE k = n + 1
    BY <1>1, <1>3, <2>1
  <2>2. CASE k # n + 1
    <3>1. k \in 1 .. n /\ n + 1 \in 1 .. (n + 1) /\ n + 1 > k
      BY <1>2, <2>2
    <3>2. uevents[k].device # d /\ uevents[k].device \in Device
      BY <1>1, <1>3, <1>5, <3>1 DEF Uevent
    <3>3. \A j \in 1 .. n : j > k => uevents[j].device # uevents[k].device
      BY <1>2, <1>3, <3>1
    <3>4. uevents[k].device \notin missed
      BY <1>3, <3>1, <3>2
    <3>5. uevents[k].action = "remove" <=> uevents[k].device \notin present
      BY <1>4, <3>1, <3>3, <3>4 DEF LastEventTells
    <3> QED
      BY <1>3, <3>1, <3>2, <3>5
  <2> QED
    BY <2>1, <2>2
<1>7. ASSUME NEW o \in Device, \A k \in DOMAIN uevents' : uevents'[k].device # o
      PROVE  o # d /\ \A k \in DOMAIN uevents : uevents[k].device # o
  <2>1. n + 1 \in 1 .. (n + 1) /\ \A k \in 1 .. n : k \in 1 .. (n + 1)
    BY <1>2
  <2> QED
    BY <1>1, <1>3, <1>4, <1>7, <2>1
<1> QED
  BY <1>3, <1>6, <1>7

\* An event is sent, and queued or dropped: when none waits for a device that is gone,
\* nothing has happened to it.
LEMMA SendTells ==
  ASSUME TypeOK, LastEventTells, NEW action \in Actions, NEW d \in Device, Send(action, d),
         \A o \in Device \ {d} : o \in present' <=> o \in present,
         action = "change" => present' = present,
         action = "remove" <=> d \notin present'
  PROVE  /\ uevents' \in Seq(Uevent) /\ missed' \subseteq Device /\ LastEventTells'
         /\ \A o \in Device \ (present' \cup missed') :
              (\A k \in DOMAIN uevents' : uevents'[k].device # o)
              => /\ o \notin present \cup missed
                 /\ \A k \in DOMAIN uevents : uevents[k].device # o
<1>1. \A o \in Device \ {d} : o \in missed' <=> o \in missed
  BY DEF Send
<1>2. missed' \subseteq Device
  BY DEF Send, TypeOK
<1>3. CASE uevents' = Append(uevents, [action |-> action, device |-> d])
  BY <1>1, <1>2, <1>3, QueueTells
<1>4. CASE /\ uevents' = uevents
           /\ missed' = IF action = "change" THEN missed ELSE missed \cup {d}
  <2>1. \A o \in Device \ missed' : o \in present' <=> o \in present
    BY <1>4
  <2>2. \A k \in DOMAIN uevents : uevents[k].device \in Device
    <3>1. \A k \in DOMAIN uevents : uevents[k] \in Uevent
      BY DEF TypeOK
    <3> QED
      BY <3>1 DEF Uevent
  <2>3. LastEventTells'
    BY <1>4, <2>1, <2>2 DEF LastEventTells
  <2> QED
    BY <1>2, <1>4, <2>1, <2>3 DEF TypeOK
<1> QED
  BY <1>3, <1>4 DEF Send

\* The first event is taken from the queue: it was the last one for its device when
\* none waits any more.
LEMMA TailTells ==
  ASSUME TypeOK, LastEventTells, uevents # <<>>, uevents' = Tail(uevents), present' = present,
         missed' = missed
  PROVE  /\ Head(uevents) \in Uevent /\ uevents' \in Seq(Uevent) /\ LastEventTells'
         /\ \A o \in Device \ (present \cup missed) : (\A k \in DOMAIN uevents' : uevents'[k].device # o)
              => \/ o # Head(uevents).device /\ \A k \in DOMAIN uevents : uevents[k].device # o
                 \/ o = Head(uevents).device /\ Head(uevents).action = "remove"
<1> DEFINE n == Len(uevents)
<1>1. uevents \in Seq(Uevent) /\ n \in Nat \ {0}
  BY DEF TypeOK
<1>2. /\ Head(uevents) = uevents[1] /\ Head(uevents) \in Uevent
      /\ uevents' \in Seq(Uevent) /\ Len(uevents') = n - 1
      /\ \A k \in 1 .. (n - 1) : uevents'[k] = uevents[k + 1]
  BY <1>1
<1>3. DOMAIN uevents = 1 .. n /\ DOMAIN uevents' = 1 .. (n - 1)
  BY <1>1, <1>2
<1> HIDE DEF n
<1>4. \A k \in 1 .. n : k # 1 => k - 1 \in 1 .. (n - 1) /\ uevents[k] = uevents'[k - 1]
  <2> SUFFICES ASSUME NEW k \in 1 .. n, k # 1
               PROVE  k - 1 \in 1 .. (n - 1) /\ uevents[k] = uevents'[k - 1]
    OBVIOUS
  <2>1. k - 1 \in 1 .. (n - 1) /\ (k - 1) + 1 = k
    BY <1>1
  <2> QED
    BY <1>2, <2>1
<1>5. LastEventTells'
  <2> SUFFICES ASSUME NEW k \in 1 .. (n - 1), uevents'[k].device \notin missed,
                      \A j \in 1 .. (n - 1) : j > k => uevents'[j].device # uevents'[k].device
               PROVE  uevents'[k].action = "remove" <=> uevents'[k].device \notin present
    BY <1>3 DEF LastEventTells
  <2>1. k + 1 \in 1 .. n /\ uevents'[k] = uevents[k + 1]
    BY <1>1, <1>2
  <2>2. \A j \in 1 .. n : j > k + 1 => uevents[j].device # uevents[k + 1].device
    <3> SUFFICES ASSUME NEW j \in 1 .. n, j > k + 1
                 PROVE  uevents[j].device # uevents[k + 1].device
      OBVIOUS
    <3>1. j # 1 /\ j - 1 > k
      BY <1>1
    <3> QED
      BY <1>4, <2>1, <3>1
  <2> QED
    BY <1>3, <2>1, <2>2 DEF LastEventTells
<1>6. ASSUME NEW o \in Device \ (present \cup missed), \A k \in DOMAIN uevents' : uevents'[k].device # o
      PROVE  \/ o # Head(uevents).device /\ \A k \in DOMAIN uevents : uevents[k].device # o
             \/ o = Head(uevents).device /\ Head(uevents).action = "remove"
  <2>1. \A k \in 1 .. n : k # 1 => uevents[k].device # o
    BY <1>3, <1>4, <1>6
  <2>2. CASE o # Head(uevents).device
    BY <1>2, <1>3, <2>1, <2>2
  <2>3. CASE o = Head(uevents).device
    <3>1. 1 \in 1 .. n /\ \A j \in 1 .. n : j > 1 => j # 1
      BY <1>1
    <3>2. uevents[1].action = "remove" <=> uevents[1].device \notin present
      BY <1>2, <1>3, <2>1, <2>3, <3>1 DEF LastEventTells
    <3> QED
      BY <1>2, <2>3, <3>2
  <2> QED
    BY <2>2, <2>3
<1> QED
  BY <1>2, <1>5, <1>6

-----------------------------------------------------------------------------
(***************************************************************************)
(* The rules.                                                              *)
(***************************************************************************)

\* A set of natural numbers that is not empty has its minimum.
LEMMA MinInSet ==
  ASSUME NEW S, S \subseteq Nat, S # {}
  PROVE  Min(S) \in S
<1>1. PICK x \in S : \A y \in S : <<y, x>> \notin OpToRel(<, Nat)
  BY NatLessThanWellFounded, WFMin, Zenon
<1>2. \A y \in S : ~ (y < x)
  BY <1>1, Zenon DEF OpToRel
<1>3. \A y \in S : x <= y
  BY <1>2
<1> QED
  BY <1>3 DEF Min

\* The guest an event goes to is started, and one of its items matches and gives the
\* behavior.
LEMMA TargetMatches ==
  ASSUME NEW e \in Uevent, Candidates(e) # {}
  PROVE  /\ Target(e) \in Container /\ status[Target(e)] = "STARTED"
         /\ \E k \in DOMAIN Items[Target(e)] :
              Behavior(e) = Items[Target(e)][k] /\ Matches(Items[Target(e)][k], e)
<1> DEFINE c == Target(e)
<1>1. Candidates(e) \subseteq Nat
  BY DevicesAssumption DEF Candidates, Container
<1>2. c \in Candidates(e)
  BY <1>1, MinInSet DEF Target
<1>3. c \in Container /\ RuleJudgment(c, e) # {}
  BY <1>2 DEF Candidates
<1> HIDE DEF c
<1>4. RuleJudgment(c, e) \subseteq Nat
  <2>1. Items[c] \in Seq(ItemType)
    BY <1>3, DevicesAssumption
  <2>2. DOMAIN Items[c] \subseteq Nat
    BY <2>1
  <2> QED
    BY <2>2 DEF RuleJudgment
<1>5. Min(RuleJudgment(c, e)) \in RuleJudgment(c, e)
  BY <1>3, <1>4, MinInSet
<1> QED
  BY <1>3, <1>5 DEF RuleJudgment, Behavior, c

\* The removal of a device that the rules give to guest c alone goes to c, by an item
\* that takes back what c has.
LEMMA RemovalGoesHome ==
  ASSUME NEW e \in Uevent, e.action = "remove", NEW c \in Container, status[c] = "STARTED",
         ForGuest(c, e.device), ItemsFor(c, e.device, "add") # {}
  PROVE  /\ Candidates(e) # {} /\ Target(e) = c
         /\ \E k \in ItemsFor(c, e.device, "remove") : Behavior(e) = Items[c][k]
<1> DEFINE d == e.device
<1>1. d \in Device
  BY DEF Uevent
<1>2. PICK k \in ItemsFor(c, d, "remove") : TRUE
  BY DEF ForGuest
<1>3. k \in RuleJudgment(c, e)
  BY <1>2 DEF ItemsFor, RuleJudgment, Matches, ExtraChecker
<1>4. Candidates(e) # {}
  BY <1>3 DEF Candidates
<1>5. Target(e) = c
  <2>1. PICK j \in DOMAIN Items[Target(e)] : Matches(Items[Target(e)][j], e)
    BY <1>4, TargetMatches
  <2> QED
    BY <1>4, <2>1, TargetMatches DEF ForGuest, Matches
<1>6. PICK j \in DOMAIN Items[c] : Behavior(e) = Items[c][j] /\ Matches(Items[c][j], e)
  BY <1>4, <1>5, TargetMatches
<1>7. j \in ItemsFor(c, d, "remove")
  BY <1>6 DEF ItemsFor, Matches
<1> QED
  BY <1>4, <1>5, <1>6, <1>7

-----------------------------------------------------------------------------
(***************************************************************************)
(* What an event does.                                                     *)
(***************************************************************************)

\* An event changes what its guest has of its device alone.  What it gives, the item
\* has promised; a removal that the guest can be reached for takes away what the item
\* names.
LEMMA AssignEffect ==
  ASSUME TypeOK, NEW e \in Uevent, Candidates(e) # {}, Assign(e)
  PROVE  LET c == Target(e) b == Behavior(e) d == e.device IN
           /\ node' \in [Container -> SUBSET Device]
           /\ allowed' \in [Container -> SUBSET Device]
           /\ unwritten' \in [Container -> SUBSET Device]
           /\ known' \in [Container -> SUBSET Device]
           /\ \A o \in Container, g \in Device : o # c \/ g # d =>
                /\ g \in node'[o] <=> g \in node[o]
                /\ g \in allowed'[o] <=> g \in allowed[o]
                /\ g \in unwritten'[o] <=> g \in unwritten[o]
                /\ g \in known'[o] <=> g \in known[o]
           /\ d \in node'[c] \ node[c] =>
                e.action = "add" /\ b.devnode /\ Kind[d] \notin {"net", "bus"} /\ c \in running
           /\ d \in allowed'[c] \ allowed[c] =>
                e.action = "add" /\ b.allow /\ Kind[d] \notin {"net", "bus"} /\ c \in running
           /\ d \in known'[c] \ known[c] =>
                /\ e.action = "add"
                /\ b.devnode /\ Kind[d] # "bus" => d \in node'[c] /\ d \in present
                /\ b.allow /\ Kind[d] # "bus" => d \in allowed'[c] \/ d \in unwritten'[c]
           /\ e.action = "remove" /\ c \in running /\ Kind[d] \notin {"net", "bus"} =>
                /\ b.devnode /\ "fork" \notin Faults => d \notin node'[c]
                /\ b.allow /\ Kind[d] # "blk" => d \notin allowed'[c] \/ d \in unwritten'[c]
<1> DEFINE c == Target(e)
           b == Behavior(e)
           d == e.device
<1>1. c \in Container /\ d \in Device /\ e.action \in Actions
  BY TargetMatches DEF Uevent
<1>2. PICK written \in Outcome("cgroup"), mknod \in Outcome("mknod"),
           fork \in Outcome("fork"), sent \in Outcome("inject") :
        /\ CgroupOperation(c, e, b, written) /\ NodeOperation(c, e, b, mknod, fork)
        /\ IF OperationSucceeds(c, e, b, mknod, fork) THEN Inject(c, e, b, sent)
           ELSE UNCHANGED known
  BY DEF Assign
<1>3. "fork" \notin Faults => fork
  BY <1>2 DEF Outcome
<1> HIDE DEF c, b, d
<1>4. /\ allowed' \in [Container -> SUBSET Device] /\ unwritten' \in [Container -> SUBSET Device]
      /\ \A o \in Container, g \in Device : o # c \/ g # d =>
           /\ g \in allowed'[o] <=> g \in allowed[o]
           /\ g \in unwritten'[o] <=> g \in unwritten[o]
      /\ d \in allowed'[c] \ allowed[c] => WorksOnCgroup(c, e, b) /\ e.action = "add"
      /\ WorksOnCgroup(c, e, b) =>
           \/ d \in unwritten'[c]
           \/ d \in allowed'[c] <=> e.action = "add"
  <2>1. allowed \in [Container -> SUBSET Device] /\ unwritten \in [Container -> SUBSET Device]
    BY DEF TypeOK
  <2>2. /\ allowed' =
             [allowed EXCEPT ![c] =
                IF ~ (WorksOnCgroup(c, e, b) /\ written) THEN @
                ELSE IF e.action = "add" THEN @ \cup {d} ELSE @ \ {d}]
        /\ unwritten' =
             [unwritten EXCEPT ![c] =
                IF ~ WorksOnCgroup(c, e, b) THEN @
                ELSE IF written THEN @ \ {d} ELSE @ \cup {d}]
    BY <1>2 DEF CgroupOperation, d
  <2> QED
    BY <1>1, <2>1, <2>2
<1>5. /\ node' \in [Container -> SUBSET Device]
      /\ \A o \in Container, g \in Device : o # c \/ g # d => (g \in node'[o] <=> g \in node[o])
      /\ d \in node'[c] \ node[c] =>
           WorksOnNode(e, b) /\ ReachesGuest(c, e, fork) /\ e.action = "add"
      /\ WorksOnNode(e, b) /\ ReachesGuest(c, e, fork) /\ (e.action = "add" => mknod) =>
           (d \in node'[c] <=> e.action = "add")
  <2>1. node \in [Container -> SUBSET Device]
    BY DEF TypeOK
  <2>2. node' =
          [node EXCEPT ![c] =
             IF ~ (WorksOnNode(e, b) /\ ReachesGuest(c, e, fork)) THEN @
             ELSE IF e.action = "add" /\ mknod THEN @ \cup {d} ELSE @ \ {d}]
    BY <1>2 DEF NodeOperation, d
  <2> QED
    BY <1>1, <2>1, <2>2
<1>6. /\ known' \in [Container -> SUBSET Device]
      /\ \A o \in Container, g \in Device : o # c \/ g # d => (g \in known'[o] <=> g \in known[o])
      /\ d \in known'[c] \ known[c] =>
           e.action = "add" /\ c \in running /\ OperationSucceeds(c, e, b, mknod, fork)
  <2>1. known \in [Container -> SUBSET Device]
    BY DEF TypeOK
  <2>2. CASE OperationSucceeds(c, e, b, mknod, fork)
    BY <1>1, <1>2, <2>1, <2>2 DEF Inject, d
  <2>3. CASE ~ OperationSucceeds(c, e, b, mknod, fork)
    BY <1>2, <2>1, <2>3
  <2> QED
    BY <2>2, <2>3
<1>7. /\ d \in node'[c] \ node[c] =>
           e.action = "add" /\ b.devnode /\ Kind[d] \notin {"net", "bus"} /\ c \in running
      /\ d \in allowed'[c] \ allowed[c] =>
           e.action = "add" /\ b.allow /\ Kind[d] \notin {"net", "bus"} /\ c \in running
  BY <1>4, <1>5 DEF WorksOnNode, WorksOnCgroup, ReachesGuest, d
<1>8. e.action = "remove" /\ c \in running /\ Kind[d] \notin {"net", "bus"} =>
        /\ b.devnode /\ "fork" \notin Faults => d \notin node'[c]
        /\ b.allow /\ Kind[d] # "blk" => d \notin allowed'[c] \/ d \in unwritten'[c]
  BY <1>3, <1>4, <1>5 DEF WorksOnNode, WorksOnCgroup, ReachesGuest, d
<1>9. d \in known'[c] \ known[c] =>
        /\ e.action = "add"
        /\ b.devnode /\ Kind[d] # "bus" => d \in node'[c] /\ d \in present
        /\ b.allow /\ Kind[d] # "bus" => d \in allowed'[c] \/ d \in unwritten'[c]
  <2> SUFFICES ASSUME d \in known'[c] \ known[c], Kind[d] # "bus"
               PROVE  /\ b.devnode => d \in node'[c] /\ d \in present
                      /\ b.allow => d \in allowed'[c] \/ d \in unwritten'[c]
    BY <1>6
  <2>1. e.action = "add" /\ c \in running /\ OperationSucceeds(c, e, b, mknod, fork)
    BY <1>6
  <2>2. b.devnode => WorksOnNode(e, b) /\ ReachesGuest(c, e, fork) /\ mknod
    BY <2>1 DEF OperationSucceeds, WorksOnNode, d
  <2>3. b.devnode => d \in node'[c] /\ d \in present
    BY <1>5, <2>1, <2>2 DEF ReachesGuest, d
  <2>4. b.allow => WorksOnCgroup(c, e, b)
    BY <2>1 DEF OperationSucceeds, WorksOnCgroup, d
  <2> QED
    BY <1>4, <2>1, <2>3, <2>4
<1>10. c = Target(e) /\ b = Behavior(e) /\ d = e.device
  BY DEF c, b, d
<1> QED
  BY <1>4, <1>5, <1>6, <1>7, <1>8, <1>9, <1>10

\* The handling of an event that matches no rule or is given to a guest.
LEMMA UdevEventInv ==
  ASSUME IInv, UdevEvent, ~ error
  PROVE  IInv'
<1> USE DEF IInv
<1> DEFINE e == Head(uevents)
<1>1. /\ uevents # <<>> /\ uevents' = Tail(uevents)
      /\ UNCHANGED <<status, running, starts, present, plugs, missed, error, monitored>>
      /\ IF Candidates(e) = {} THEN UNCHANGED accessVars ELSE Assign(e)
  BY DEF UdevEvent, guestVars, hostVars
<1>2. /\ e \in Uevent /\ uevents' \in Seq(Uevent) /\ LastEventTells'
      /\ \A o \in Device \ (present \cup missed) : (\A k \in DOMAIN uevents' : uevents'[k].device # o)
           => \/ o # e.device /\ \A k \in DOMAIN uevents : uevents[k].device # o
              \/ o = e.device /\ e.action = "remove"
  BY <1>1, TailTells
<1> HIDE DEF e
<1>3. CASE Candidates(e) = {}
  <2>1. UNCHANGED <<node, allowed, unwritten, known>>
    BY <1>1, <1>3 DEF accessVars
  <2>2. TypeOK' /\ GrantedByItem' /\ EndedIsClear'
    BY <1>1, <1>2, <2>1 DEF TypeOK, GrantedByItem, EndedIsClear
  <2>3. AccessRevoked'
    <3> SUFFICES ASSUME NEW c \in running, NEW d \in Device \ (present \cup missed),
                        ForGuest(c, d), status[c] = "STARTED", "fork" \notin Faults,
                        \A k \in DOMAIN uevents' : uevents'[k].device # d
                 PROVE  /\ d \notin node[c]
                        /\ Kind[d] # "blk" => d \notin allowed[c] \/ d \in unwritten[c]
      BY <1>1, <2>1 DEF AccessRevoked
    <3>1. CASE d # e.device /\ \A k \in DOMAIN uevents : uevents[k].device # d
      BY <3>1 DEF AccessRevoked
    <3>2. CASE d = e.device /\ e.action = "remove"
      <4>1. c \in Container
        BY DEF TypeOK
      <4>2. ItemsFor(c, d, "add") = {}
        BY <1>2, <1>3, <3>2, <4>1, RemovalGoesHome
      <4> QED
        BY <4>1, <4>2 DEF GrantedByItem
    <3> QED
      BY <1>2, <3>1, <3>2
  <2> QED
    BY <1>2, <2>2, <2>3
<1>4. CASE Candidates(e) # {}
  <2> DEFINE t == Target(e)
             b == Behavior(e)
  <2>1. Assign(e)
    BY <1>1, <1>4
  <2>2. t \in Container /\ \E k \in DOMAIN Items[t] : b = Items[t][k] /\ Matches(Items[t][k], e)
    BY <1>2, <1>4, TargetMatches
  <2>3. /\ node' \in [Container -> SUBSET Device]
        /\ allowed' \in [Container -> SUBSET Device]
        /\ unwritten' \in [Container -> SUBSET Device]
        /\ known' \in [Container -> SUBSET Device]
    BY <1>2, <1>4, <2>1, AssignEffect
  <2>4. \A o \in Container, g \in Device : o # t \/ g # e.device =>
          /\ g \in node'[o] <=> g \in node[o]
          /\ g \in allowed'[o] <=> g \in allowed[o]
          /\ g \in unwritten'[o] <=> g \in unwritten[o]
    BY <1>2, <1>4, <2>1, AssignEffect
  <2>5. e.device \in node'[t] \ node[t] =>
          e.action = "add" /\ b.devnode /\ Kind[e.device] \notin {"net", "bus"} /\ t \in running
    BY <1>2, <1>4, <2>1, AssignEffect
  <2>6. e.device \in allowed'[t] \ allowed[t] =>
          e.action = "add" /\ b.allow /\ Kind[e.device] \notin {"net", "bus"} /\ t \in running
    BY <1>2, <1>4, <2>1, AssignEffect
  <2>7. e.action = "remove" /\ t \in running /\ Kind[e.device] \notin {"net", "bus"} =>
          /\ b.devnode /\ "fork" \notin Faults => e.device \notin node'[t]
          /\ b.allow /\ Kind[e.device] # "blk" =>
               e.device \notin allowed'[t] \/ e.device \in unwritten'[t]
    BY <1>2, <1>4, <2>1, AssignEffect
  <2> HIDE DEF t, b
  <2>8. TypeOK'
    BY <1>1, <1>2, <2>3 DEF TypeOK
  <2>9. e.action = "add" => \E k \in ItemsFor(t, e.device, "add") : b = Items[t][k]
    BY <2>2 DEF ItemsFor, Matches
  <2>10. \A g \in Device : Kind[g] \notin {"net", "bus"} => Kind[g] \in {"blk", "chr"}
    BY DevicesAssumption DEF Kinds
  <2>11. GrantedByItem'
    <3> SUFFICES ASSUME NEW c \in Container, NEW d \in Device
                 PROVE  /\ d \in node'[c] => /\ Kind[d] \in {"blk", "chr"}
                                             /\ \E k \in ItemsFor(c, d, "add") : Items[c][k].devnode
                        /\ d \in allowed'[c] => /\ Kind[d] \in {"blk", "chr"}
                                                /\ \E k \in ItemsFor(c, d, "add") : Items[c][k].allow
      BY DEF GrantedByItem, ItemsFor
    <3>1. d \in node'[c] =>
            Kind[d] \in {"blk", "chr"} /\ \E k \in ItemsFor(c, d, "add") : Items[c][k].devnode
      <4>1. CASE d \in node[c]
        BY <4>1 DEF GrantedByItem
      <4>2. CASE d \notin node[c]
        BY <2>4, <2>5, <2>9, <2>10, <4>2
      <4> QED
        BY <4>1, <4>2
    <3>2. d \in allowed'[c] =>
            Kind[d] \in {"blk", "chr"} /\ \E k \in ItemsFor(c, d, "add") : Items[c][k].allow
      <4>1. CASE d \in allowed[c]
        BY <4>1 DEF GrantedByItem
      <4>2. CASE d \notin allowed[c]
        BY <2>4, <2>6, <2>9, <2>10, <4>2
      <4> QED
        BY <4>1, <4>2
    <3> QED
      BY <3>1, <3>2
  <2>12. EndedIsClear'
    <3> SUFFICES ASSUME NEW c \in Container, c \notin running, NEW d \in Device
                 PROVE  d \notin node'[c] /\ d \notin allowed'[c]
      BY <1>1, <2>3 DEF EndedIsClear
    <3>1. d \notin node[c] /\ d \notin allowed[c]
      BY DEF EndedIsClear
    <3> QED
      BY <2>4, <2>5, <2>6, <3>1
  <2>13. AccessRevoked'
    <3> SUFFICES ASSUME NEW c \in running, NEW d \in Device \ (present \cup missed),
                        ForGuest(c, d), status[c] = "STARTED", "fork" \notin Faults,
                        \A k \in DOMAIN uevents' : uevents'[k].device # d
                 PROVE  /\ d \notin node'[c]
                        /\ Kind[d] # "blk" => d \notin allowed'[c] \/ d \in unwritten'[c]
      BY <1>1 DEF AccessRevoked, ForGuest, ItemsFor
    <3>1. c \in Container
      BY DEF TypeOK
    <3>2. CASE d # e.device /\ \A k \in DOMAIN uevents : uevents[k].device # d
      BY <2>4, <3>1, <3>2 DEF AccessRevoked
    <3>3. CASE d = e.device /\ e.action = "remove"
      <4>1. ItemsFor(c, d, "add") # {} => t = c /\ \E k \in ItemsFor(c, d, "remove") : b = Items[c][k]
        BY <1>2, <3>1, <3>3, RemovalGoesHome DEF t, b
      <4>2. (d \in node'[c] => d \in node[c]) /\ (d \in allowed'[c] => d \in allowed[c])
        BY <2>4, <2>5, <2>6, <3>1, <3>3
      <4>3. d \notin node'[c]
        <5> SUFFICES ASSUME d \in node[c] PROVE d \notin node'[c]
          BY <4>2
        <5>1. PICK j \in ItemsFor(c, d, "add") : Items[c][j].devnode
          BY <3>1 DEF GrantedByItem
        <5>2. Kind[d] \in {"blk", "chr"}
          BY <3>1 DEF GrantedByItem
        <5>3. t = c /\ b.devnode
          BY <4>1, <5>1 DEF ForGuest
        <5> QED
          BY <2>7, <3>3, <5>2, <5>3
      <4>4. Kind[d] # "blk" => d \notin allowed'[c] \/ d \in unwritten'[c]
        <5> SUFFICES ASSUME d \in allowed[c], Kind[d] # "blk"
                     PROVE  d \notin allowed'[c] \/ d \in unwritten'[c]
          BY <4>2
        <5>1. PICK j \in ItemsFor(c, d, "add") : Items[c][j].allow
          BY <3>1 DEF GrantedByItem
        <5>2. Kind[d] \in {"blk", "chr"}
          BY <3>1 DEF GrantedByItem
        <5>3. t = c /\ b.allow
          BY <4>1, <5>1 DEF ForGuest
        <5> QED
          BY <2>7, <3>3, <5>2, <5>3
      <4> QED
        BY <4>3, <4>4
    <3> QED
      BY <1>2, <3>2, <3>3
  <2> QED
    BY <1>2, <2>8, <2>11, <2>12, <2>13
<1> QED
  BY <1>3, <1>4

\* An error of the monitor changes nothing but what is read.
LEMMA MonitorErrorInv ==
  ASSUME IInv, UdevError \/ (UdevEvent /\ error)
  PROVE  IInv'
<1>1. UNCHANGED <<status, running, starts, present, plugs, uevents, missed, node, allowed, unwritten, known>>
  BY DEF UdevError, UdevEvent, guestVars, hostVars, accessVars
<1>2. error' \in BOOLEAN /\ monitored' \in BOOLEAN
  <2>1. (error' = error \/ error' = FALSE) /\ (monitored' = monitored \/ monitored' = FALSE)
    BY DEF UdevError, UdevEvent
  <2>2. error \in BOOLEAN /\ monitored \in BOOLEAN
    BY DEF IInv, TypeOK
  <2> QED
    BY <2>1, <2>2, Zenon
<1>3. TypeOK' /\ LastEventTells'
  BY <1>1, <1>2 DEF IInv, TypeOK, LastEventTells
<1>4. GrantedByItem' /\ EndedIsClear' /\ AccessRevoked'
  BY <1>1 DEF IInv, GrantedByItem, EndedIsClear, AccessRevoked, ForGuest, ItemsFor
<1> QED
  BY <1>3, <1>4 DEF IInv

-----------------------------------------------------------------------------
(***************************************************************************)
(* Every other step.                                                       *)
(***************************************************************************)

LEMMA HostInv ==
  ASSUME IInv, NEW d \in Device, Plug(d) \/ Change(d) \/ Unplug(d)
  PROVE  IInv'
<1> USE DEF IInv
<1>1. UNCHANGED <<status, running, starts, node, allowed, unwritten, known>>
  BY DEF Plug, Change, Unplug, guestVars, accessVars
<1>2. present' \subseteq Device /\ plugs' \in 0 .. MaxPlugs
  BY DevicesAssumption DEF Plug, Change, Unplug, hostVars, TypeOK
<1>3. PICK action \in Actions :
        /\ Send(action, d)
        /\ action = "remove" <=> d \notin present'
        /\ (action = "change") => (present' = present)
  <2>1. CASE Plug(d)
    <3>1. Send("add", d) /\ d \in present'
      BY <2>1 DEF Plug
    <3> QED
      BY <3>1 DEF Actions
  <2>2. CASE Change(d)
    <3>1. Send("change", d) /\ d \in present' /\ present' = present
      BY <2>2 DEF Change, hostVars
    <3> QED
      BY <3>1 DEF Actions
  <2>3. CASE Unplug(d)
    <3>1. Send("remove", d) /\ d \notin present'
      BY <2>3 DEF Unplug
    <3> QED
      BY <3>1 DEF Actions
  <2> QED
    BY <2>1, <2>2, <2>3
<1>4. \A o \in Device \ {d} : o \in present' <=> o \in present
  BY DEF Plug, Change, Unplug, hostVars
<1>5. /\ uevents' \in Seq(Uevent) /\ missed' \subseteq Device /\ LastEventTells'
      /\ \A o \in Device \ (present' \cup missed') :
           (\A k \in DOMAIN uevents' : uevents'[k].device # o)
           => /\ o \notin present \cup missed
              /\ \A k \in DOMAIN uevents : uevents[k].device # o
  BY <1>3, <1>4, SendTells
<1>6. error' \in BOOLEAN /\ monitored' \in BOOLEAN
  <2>1. (error' = error \/ error' = TRUE) /\ monitored' = monitored
    <3>1. CASE UNCHANGED <<error, monitored>>
      BY <3>1
    <3>2. CASE error' = TRUE /\ UNCHANGED <<uevents, monitored>>
      BY <3>2
    <3> QED
      BY <1>3, <3>1, <3>2, Zenon DEF Send
  <2>2. error \in BOOLEAN /\ monitored \in BOOLEAN
    BY DEF TypeOK
  <2> QED
    BY <2>1, <2>2, Zenon
<1>7. TypeOK' /\ GrantedByItem' /\ EndedIsClear'
  BY <1>1, <1>2, <1>5, <1>6 DEF TypeOK, GrantedByItem, EndedIsClear
<1>8. AccessRevoked'
  BY <1>1, <1>5 DEF AccessRevoked, ForGuest, ItemsFor
<1> QED
  BY <1>5, <1>7, <1>8

LEMMA GuestInv ==
  ASSUME IInv, NEW c \in Container,
         StartGuest(c) \/ StopGuest(c) \/ GuestDies(c) \/ GuestExited(c) \/ GuestKilled(c)
  PROVE  IInv'
<1> USE DEF IInv
<1>1. UNCHANGED <<present, plugs, uevents, missed, error, monitored>>
  BY DEF StartGuest, StopGuest, GuestDies, GuestExited, GuestKilled, hostVars, monitorVars
<1>2. LastEventTells'
  BY <1>1 DEF LastEventTells
<1>3. CASE StartGuest(c)
  <2>1. /\ c \notin running /\ running' = running \cup {c} /\ UNCHANGED <<node, allowed, unwritten, known>>
        /\ status' = [status EXCEPT ![c] = "STARTED"]
    BY <1>3 DEF StartGuest, accessVars
  <2>2. starts' \in 0 .. MaxStarts
    BY <1>3, DevicesAssumption DEF StartGuest, TypeOK
  <2>3. node[c] = {} /\ allowed[c] = {}
    BY <2>1 DEF EndedIsClear
  <2>4. TypeOK' /\ GrantedByItem' /\ EndedIsClear'
    BY <1>1, <2>1, <2>2 DEF TypeOK, GrantedByItem, EndedIsClear
  <2>5. AccessRevoked'
    BY <1>1, <2>1, <2>3 DEF AccessRevoked, TypeOK, ForGuest, ItemsFor
  <2> QED
    BY <1>2, <2>4, <2>5
<1>4. CASE StopGuest(c) \/ GuestExited(c) \/ GuestKilled(c)
  <2>1. /\ UNCHANGED <<running, starts, node, allowed, unwritten, known>>
        /\ status' \in [Container -> {"STARTED", "STOPPING", "DOWN"}]
        /\ \A o \in Container : status'[o] = "STARTED" => status[o] = "STARTED"
    BY <1>4 DEF StopGuest, GuestExited, GuestKilled, accessVars, TypeOK
  <2>2. TypeOK' /\ GrantedByItem' /\ EndedIsClear'
    BY <1>1, <2>1 DEF TypeOK, GrantedByItem, EndedIsClear
  <2>3. AccessRevoked'
    BY <1>1, <2>1 DEF AccessRevoked, TypeOK, ForGuest, ItemsFor
  <2> QED
    BY <1>2, <2>2, <2>3
<1>5. CASE GuestDies(c)
  <2>1. /\ UNCHANGED <<status, starts>> /\ running' = running \ {c}
        /\ node' = [node EXCEPT ![c] = {}]
        /\ allowed' = [allowed EXCEPT ![c] = {}] /\ unwritten' = [unwritten EXCEPT ![c] = {}]
        /\ known' = [known EXCEPT ![c] = {}]
    BY <1>5 DEF GuestDies, EndGuest
  <2>2. TypeOK' /\ EndedIsClear'
    BY <1>1, <2>1 DEF TypeOK, EndedIsClear
  <2>3. \A o \in Container : node'[o] \subseteq node[o] /\ allowed'[o] \subseteq allowed[o]
    BY <2>1 DEF TypeOK
  <2>4. GrantedByItem'
    BY <2>3 DEF GrantedByItem, ItemsFor
  <2>5. AccessRevoked'
    <3> SUFFICES ASSUME NEW o \in running', NEW d \in Device \ (present \cup missed),
                        ForGuest(o, d), status[o] = "STARTED", "fork" \notin Faults,
                        \A k \in DOMAIN uevents : uevents[k].device # d
                 PROVE  /\ d \notin node'[o]
                        /\ Kind[d] # "blk" => d \notin allowed'[o] \/ d \in unwritten'[o]
      BY <1>1, <2>1 DEF AccessRevoked, ForGuest, ItemsFor
    <3>1. o \in running /\ o \in Container /\ unwritten'[o] = unwritten[o]
      BY <2>1 DEF TypeOK
    <3>2. d \notin node[o] /\ (Kind[d] # "blk" => d \notin allowed[o] \/ d \in unwritten[o])
      BY <3>1 DEF AccessRevoked
    <3> QED
      BY <2>3, <3>1, <3>2
  <2> QED
    BY <1>2, <2>2, <2>4, <2>5
<1> QED
  BY <1>3, <1>4, <1>5

LEMMA NextInv == IInv /\ [Next]_vars => IInv'
<1> SUFFICES ASSUME IInv, [Next]_vars PROVE IInv'
  OBVIOUS
<1>1. CASE Next
  BY <1>1, HostInv, UdevEventInv, MonitorErrorInv, GuestInv DEF Next
<1>2. CASE UNCHANGED vars
  <2>1. UNCHANGED <<status, running, starts, present, plugs, uevents, missed, error, monitored,
                    node, allowed, unwritten, known>>
    BY <1>2 DEF vars, guestVars, hostVars, monitorVars, accessVars
  <2>2. TypeOK' /\ LastEventTells'
    BY <2>1 DEF IInv, TypeOK, LastEventTells
  <2>3. GrantedByItem' /\ EndedIsClear'
    BY <2>1 DEF IInv, GrantedByItem, EndedIsClear, ItemsFor
  <2>4. AccessRevoked'
    BY <2>1 DEF IInv, AccessRevoked, ForGuest, ItemsFor
  <2> QED
    BY <2>2, <2>3, <2>4 DEF IInv
<1> QED
  BY <1>1, <1>2

LEMMA Invariance == Spec => []IInv
BY InitInv, NextInv, PTL DEF Spec

-----------------------------------------------------------------------------
(***************************************************************************)
(* The theorems.                                                           *)
(***************************************************************************)

\* The events, nodes and permissions are those of the devices.
THEOREM DevicesTypeCorrect == Spec => []TypeOK
<1>1. IInv => TypeOK
  BY DEF IInv
<1> QED
  BY <1>1, Invariance, PTL

\* Whatever rules there are, a guest that runs on loses its access to a device that the
\* rules give to it alone when the removal has been handled by udev_event_handler, but
\* for the permission of a block device, a failed fork or write, and a dropped removal.
THEOREM AccessEndsWithDevice == Spec => []AccessRevoked
<1>1. IInv => AccessRevoked
  BY DEF IInv
<1> QED
  BY <1>1, Invariance, PTL

\* device_control_dynamic_udev_devevent injects the add of a device only to the guest
\* that the rules give it to, and only when the guest has the node that the item promises
\* and a permission that was written, or whose write failed unseen.
THEOREM InjectedDeviceWorks == Spec => InjectedIsUsable
<1> DEFINE Usable(c, d) ==
      LET e == Head(uevents) b == Behavior(e) IN
        /\ e.action = "add" /\ e.device = d /\ Target(e) = c
        /\ b.devnode /\ Kind[d] # "bus" => d \in node'[c] /\ d \in present
        /\ b.allow /\ Kind[d] # "bus" => d \in allowed'[c] \/ d \in unwritten'[c]
<1>1. ASSUME IInv, [Next]_vars, NEW c \in Container, NEW d \in known'[c] \ known[c]
      PROVE  Usable(c, d)
  <2>1. UdevEvent /\ known' # known
    <3>1. UNCHANGED known \/ \E o \in Container : known' = [known EXCEPT ![o] = {}] \/ UdevEvent
      BY <1>1 DEF Next, vars, accessVars, Plug, Change, Unplug, UdevError, StartGuest, StopGuest,
                  GuestDies, GuestExited, GuestKilled, EndGuest
    <3> QED
      BY <1>1, <3>1 DEF IInv, TypeOK
  <2> DEFINE e == Head(uevents)
  <2>2. uevents # <<>> /\ Candidates(e) # {} /\ Assign(e)
    BY <2>1 DEF UdevEvent, accessVars
  <2>3. e \in Uevent
    BY <1>1, <2>2 DEF IInv, TypeOK
  <2> HIDE DEF e
  <2>4. d \in Device
    BY <1>1, <2>2, <2>3, AssignEffect DEF IInv
  <2>5. c = Target(e) /\ d = e.device
    BY <1>1, <2>2, <2>3, <2>4, AssignEffect DEF IInv
  <2>6. /\ e.action = "add"
        /\ Behavior(e).devnode /\ Kind[d] # "bus" => d \in node'[c] /\ d \in present
        /\ Behavior(e).allow /\ Kind[d] # "bus" => d \in allowed'[c] \/ d \in unwritten'[c]
    BY <1>1, <2>2, <2>3, <2>5, AssignEffect DEF IInv
  <2> QED
    BY <2>5, <2>6 DEF e
<1>2. IInv /\ [Next]_vars => \A c \in Container : \A d \in known'[c] \ known[c] : Usable(c, d)
  BY <1>1
<1> QED
  BY <1>2, Invariance, PTL DEF Spec, InjectedIsUsable
=============================================================================
