----------------------- MODULE NetworkInterfaces_proofs -----------------------
(***************************************************************************)
(* Proofs about NetworkInterfaces, for every number of guests and          *)
(* interfaces, every choice of names and every set of faults.              *)
(***************************************************************************)
EXTENDS NetworkInterfaces, FiniteSetTheorems, TLAPS

-----------------------------------------------------------------------------
(***************************************************************************)
(* The inductive invariant: a guest that is down claims nothing, so that   *)
(* its next life starts without claims.                                    *)
(***************************************************************************)

DownIsClear ==
  \A c \in Container : status[c] = "DOWN" => element[c] = NoElements

IInv == TypeOK /\ DownIsClear /\ ClaimsAgree

\* What an interface of this place is listed as.
LEMMA EntryAtType == \A place : EntryAt(place) \in Entries
BY DEF EntryAt, Entries

LEMMA InitInv == Init => IInv
<1> SUFFICES ASSUME Init PROVE IInv
  OBVIOUS
<1>1. TypeOK
  <2>1. NoElements \in [Names -> Interface \cup {0}]
    BY DEF NoElements
  <2>2. 0 \in 0 .. MaxStarts /\ 0 \in 0 .. NumContainers
    BY InterfacesAssumption
  <2>3. nllist \in [Interface -> Entries]
    BY EntryAtType DEF Init
  <2>4. error \in BOOLEAN /\ monitored \in BOOLEAN /\ notified \in BOOLEAN
    BY DEF Init
  <2>5. socket \in Seq(Messages) /\ missed \subseteq Interface
    BY DEF Init
  <2>6. /\ status \in [Container -> {"STARTED", "STOPPING", "DOWN"}]
        /\ running \subseteq Container /\ starts \in 0 .. MaxStarts
        /\ element \in [Container -> [Names -> Interface \cup {0}]]
        /\ where \in [Interface -> Places] /\ owner \in [Interface -> 0 .. NumContainers]
        /\ pos \in 0 .. NumContainers
    BY <2>1, <2>2 DEF Init, Places
  <2> QED
    BY <2>3, <2>4, <2>5, <2>6 DEF TypeOK
<1>2. DownIsClear /\ ClaimsAgree
  BY DEF Init, DownIsClear, ClaimsAgree
<1> QED
  BY <1>1, <1>2 DEF IInv

-----------------------------------------------------------------------------
(***************************************************************************)
(* Lemmas about the operators.                                             *)
(***************************************************************************)

\* A message reaches the socket or is dropped.
LEMMA ReportType ==
  ASSUME TypeOK, NEW entry \in Entries, NEW i \in Interface, Report(entry, i)
  PROVE  socket' \in Seq(Messages) /\ missed' \subseteq Interface /\ error' \in BOOLEAN
<1>1. Link(entry, i) \in Messages
  BY DEF Link, Messages
<1>2. socket' \in Seq(Messages) /\ missed' \subseteq Interface
  <2>1. socket \in Seq(Messages) /\ missed \subseteq Interface
    BY DEF TypeOK
  <2>2. \/ socket' = Append(socket, Link(entry, i)) /\ missed' = missed \ {i}
        \/ socket' = socket /\ missed' = missed \cup {i}
    BY DEF Report
  <2> QED
    BY <1>1, <2>1, <2>2
<1>3. error' \in BOOLEAN
  <2>1. error \in BOOLEAN
    BY DEF TypeOK
  <2>2. error' = error \/ error' = TRUE
    BY DEF Report
  <2> QED
    BY <2>1, <2>2, Zenon
<1> QED
  BY <1>2, <1>3

\* The interfaces that are moved to a guest are taken off the host with one message
\* each, those that are dropped excepted.
LEMMA DetachType ==
  ASSUME TypeOK, NEW moved \in SUBSET Interface, Detach(moved)
  PROVE  socket' \in Seq(Messages) /\ missed' \subseteq Interface /\ error' \in BOOLEAN
<1>1. PICK dropped \in SUBSET moved :
        /\ \E order \in SetToSeqs(moved \ dropped) :
             socket' = socket \o [k \in DOMAIN order |-> Link("absent", order[k])]
        /\ missed' = (missed \ moved) \cup dropped
        /\ error' = (error \/ dropped # {})
  BY DEF Detach
<1>2. PICK order \in SetToSeqs(moved \ dropped) :
        socket' = socket \o [k \in DOMAIN order |-> Link("absent", order[k])]
  BY <1>1
<1>3. Cardinality(moved \ dropped) \in Nat
  <2>1. IsFiniteSet(Interface)
    BY InterfacesAssumption, FS_Interval DEF Interface
  <2> QED
    BY <2>1, FS_Subset, FS_CardinalityType
<1>4. order \in [1 .. Cardinality(moved \ dropped) -> moved \ dropped]
  BY DEF SetToSeqs
<1>5. \A k \in DOMAIN order : Link("absent", order[k]) \in Messages
  BY <1>4 DEF Link, Messages, Entries
<1>6. [k \in DOMAIN order |-> Link("absent", order[k])] \in Seq(Messages)
  <2> DEFINE m == Cardinality(moved \ dropped)
  <2>1. m \in Nat /\ DOMAIN order = 1 .. m
    BY <1>3, <1>4
  <2> HIDE DEF m
  <2> QED
    BY <1>5, <2>1
<1>7. socket' \in Seq(Messages)
  BY <1>2, <1>6 DEF TypeOK
<1>8. missed' \subseteq Interface
  BY <1>1 DEF TypeOK
<1>9. error' \in BOOLEAN
  BY <1>1, Zenon
<1> QED
  BY <1>7, <1>8, <1>9

\* An element after an update is claimed by an attachment that succeeded, or it is what
\* it was before, or 0.
LEMMA UpdatedElementChoice ==
  ASSUME NEW c \in Container, NEW attached, NEW claim \in [attached -> Interface], NEW n \in Names
  PROVE  LET i == UpdatedElement(c, claim)[n] IN
           (n \in attached /\ i \in Interface) \/ i = element[c][n] \/ i = 0
BY DEF UpdatedElement

\* The end of a namespace leaves the claims of the other guests alone.
LEMMA EndNamespaceClaims ==
  ASSUME TypeOK, NEW c \in Container, EndNamespace(c)
  PROVE  /\ running' \subseteq Container /\ where' \in [Interface -> Places]
         /\ owner' \in [Interface -> 0 .. NumContainers]
         /\ \A o \in running', i \in Interface :
              owner[i] = o /\ where[i] \in {"guest", "gone"}
                => owner'[i] = o /\ where'[i] \in {"guest", "gone"}
<1>1. 0 \in 0 .. NumContainers
  BY InterfacesAssumption
<1>2. c # 0 /\ c \notin running'
  BY InterfacesAssumption DEF EndNamespace, Container
<1> QED
  BY <1>1, <1>2 DEF TypeOK, EndNamespace, InGuest, Places

-----------------------------------------------------------------------------
(***************************************************************************)
(* The update of a guest.                                                  *)
(***************************************************************************)

\* What the update of a guest that is up does.
LEMMA UpdateGuestStep ==
  ASSUME UpdateGuest, status[pos] = "STARTED"
  PROVE  \E attached \in SUBSET Found(pos) :
           /\ \A n \in attached : CanAttach(pos, n)
           /\ \E claim \in [attached -> Interface] :
                element' = [element EXCEPT ![pos] = UpdatedElement(pos, claim)]
           /\ \E moved \in SUBSET Interface :
                /\ \A i \in Interface : i \in moved <=> where[i] = "host" /\ NameOf[i] \in attached
                /\ where' = [i \in Interface |-> IF i \in moved THEN "guest" ELSE where[i]]
                /\ owner' = [i \in Interface |-> IF i \in moved THEN pos ELSE owner[i]]
                /\ Detach(moved)
<1> DEFINE Attached(refused) == {n \in Found(pos) \ refused : CanAttach(pos, n)}
           Moved(attached) == {i \in Interface : where[i] = "host" /\ NameOf[i] \in attached}
<1>1. PICK refused :
        /\ \E claim \in [Attached(refused) -> Interface] :
             element' = [element EXCEPT ![pos] = UpdatedElement(pos, claim)]
        /\ where' = [i \in Interface |-> IF i \in Moved(Attached(refused)) THEN "guest" ELSE where[i]]
        /\ owner' = [i \in Interface |-> IF i \in Moved(Attached(refused)) THEN pos ELSE owner[i]]
        /\ Detach(Moved(Attached(refused)))
  BY DEF UpdateGuest
<1>2. Attached(refused) \in SUBSET Found(pos) /\ \A n \in Attached(refused) : CanAttach(pos, n)
  OBVIOUS
<1> HIDE DEF Attached
<1>3. /\ Moved(Attached(refused)) \in SUBSET Interface
      /\ \A i \in Interface : i \in Moved(Attached(refused))
           <=> where[i] = "host" /\ NameOf[i] \in Attached(refused)
  OBVIOUS
<1> HIDE DEF Moved
<1> QED
  BY <1>1, <1>2, <1>3

LEMMA UpdateGuestInv ==
  ASSUME IInv, UpdateGuest
  PROVE  IInv'
<1> USE DEF IInv
<1>1. pos \in Container /\ pos' \in 0 .. NumContainers
  BY InterfacesAssumption DEF UpdateGuest, TypeOK, Container
<1>2. UNCHANGED <<status, running, starts, nllist, monitored, notified>>
  BY DEF UpdateGuest, guestVars, monitorVars
<1>3. CASE status[pos] # "STARTED"
  <2>1. UNCHANGED <<element, where, owner, socket, missed, error>>
    BY <1>3 DEF UpdateGuest, kernelVars, socketVars
  <2> QED
    BY <1>1, <1>2, <2>1 DEF TypeOK, DownIsClear, ClaimsAgree
<1>4. CASE status[pos] = "STARTED"
  <2>1. PICK attached \in SUBSET Found(pos) :
          /\ \A n \in attached : CanAttach(pos, n)
          /\ \E claim \in [attached -> Interface] :
               element' = [element EXCEPT ![pos] = UpdatedElement(pos, claim)]
          /\ \E moved \in SUBSET Interface :
               /\ \A i \in Interface : i \in moved <=> where[i] = "host" /\ NameOf[i] \in attached
               /\ where' = [i \in Interface |-> IF i \in moved THEN "guest" ELSE where[i]]
               /\ owner' = [i \in Interface |-> IF i \in moved THEN pos ELSE owner[i]]
               /\ Detach(moved)
    BY <1>4, UpdateGuestStep
  <2>2. PICK moved \in SUBSET Interface :
          /\ \A i \in Interface : i \in moved <=> where[i] = "host" /\ NameOf[i] \in attached
          /\ where' = [i \in Interface |-> IF i \in moved THEN "guest" ELSE where[i]]
          /\ owner' = [i \in Interface |-> IF i \in moved THEN pos ELSE owner[i]]
          /\ Detach(moved)
    BY <2>1
  <2>3. PICK claim \in [attached -> Interface] :
          element' = [element EXCEPT ![pos] = UpdatedElement(pos, claim)]
    BY <2>1
  <2>4. socket' \in Seq(Messages) /\ missed' \subseteq Interface /\ error' \in BOOLEAN
    BY <2>2, DetachType
  <2>5. \A n \in Names :
          LET i == UpdatedElement(pos, claim)[n] IN
            (n \in attached /\ i \in Interface) \/ i = element[pos][n] \/ i = 0
    BY <1>1, UpdatedElementChoice
  <2>6. UpdatedElement(pos, claim) \in [Names -> Interface \cup {0}]
    <3>1. \A n \in Names : UpdatedElement(pos, claim)[n] \in Interface \cup {0}
      BY <1>1, <2>5 DEF TypeOK
    <3> QED
      BY <3>1 DEF UpdatedElement
  <2>7. TypeOK'
    <3>1. element' \in [Container -> [Names -> Interface \cup {0}]]
      BY <1>1, <2>3, <2>6 DEF TypeOK
    <3>2. where' \in [Interface -> Places] /\ owner' \in [Interface -> 0 .. NumContainers]
      BY <1>1, <2>2 DEF TypeOK, Places, Container
    <3> QED
      BY <1>1, <1>2, <2>4, <3>1, <3>2 DEF TypeOK
  <2>8. DownIsClear'
    <3>1. \A c \in Container : c # pos => element'[c] = element[c]
      BY <2>3 DEF TypeOK
    <3> QED
      BY <1>2, <1>4, <3>1 DEF DownIsClear
  <2>9. ClaimsAgree'
    <3> SUFFICES ASSUME NEW c \in running, NEW n \in Names, element'[c][n] # 0
                 PROVE  \E i \in Interface :
                          NameOf[i] = n /\ owner'[i] = c /\ where'[i] \in {"guest", "gone"}
      BY <1>2 DEF ClaimsAgree
    <3>1. c \in Container
      BY DEF TypeOK
    <3>2. CASE element[c][n] # 0
      <4>1. PICK i \in Interface : NameOf[i] = n /\ owner[i] = c /\ where[i] \in {"guest", "gone"}
        BY <3>2 DEF ClaimsAgree
      <4>2. owner'[i] = c /\ where'[i] \in {"guest", "gone"}
        BY <2>2, <4>1
      <4> QED
        BY <4>1, <4>2
    <3>3. CASE element[c][n] = 0
      <4>1. c = pos /\ n \in attached
        BY <2>3, <2>5, <3>1, <3>3 DEF TypeOK
      <4>2. PICK i \in Interface : where[i] = "host" /\ NameOf[i] = n
        BY <2>1, <4>1 DEF CanAttach, TakenOnHost
      <4>3. owner'[i] = c /\ where'[i] = "guest"
        BY <2>2, <4>1, <4>2
      <4> QED
        BY <4>2, <4>3
    <3> QED
      BY <3>2, <3>3
  <2> QED
    BY <2>7, <2>8, <2>9
<1> QED
  BY <1>3, <1>4

-----------------------------------------------------------------------------
(***************************************************************************)
(* Every step.                                                             *)
(***************************************************************************)

\* A step that moves one interface, none that a guest has into another place than
\* "gone", breaks no claim.
LEMMA MoveKeepsClaims ==
  ASSUME IInv, NEW i \in Interface, NEW place \in Places, where[i] # "gone",
         where[i] = "guest" => place = "gone",
         where' = [where EXCEPT ![i] = place],
         UNCHANGED <<status, running, starts, element, owner, nllist, monitored, notified, pos>>,
         socket' \in Seq(Messages), missed' \subseteq Interface, error' \in BOOLEAN
  PROVE  IInv'
<1> USE DEF IInv
<1>1. TypeOK' /\ DownIsClear'
  BY DEF TypeOK, DownIsClear
<1>2. \A j \in Interface : where[j] \in {"guest", "gone"} => where'[j] \in {"guest", "gone"}
  BY DEF TypeOK
<1>3. ClaimsAgree'
  BY <1>2 DEF ClaimsAgree
<1> QED
  BY <1>1, <1>3

LEMMA KernelInv ==
  ASSUME IInv, Kernel
  PROVE  IInv'
<1>1. ASSUME NEW i \in Interface, Plug(i) PROVE IInv'
  <2>1. socket' \in Seq(Messages) /\ missed' \subseteq Interface /\ error' \in BOOLEAN
    BY <1>1, ReportType DEF Plug, IInv, Entries
  <2> QED
    BY <1>1, <2>1, MoveKeepsClaims DEF Plug, Places, guestVars, monitorVars
<1>2. ASSUME NEW i \in Interface, Unplug(i) PROVE IInv'
  <2>1. socket' \in Seq(Messages) /\ missed' \subseteq Interface /\ error' \in BOOLEAN
    BY <1>2, ReportType DEF Unplug, IInv, TypeOK, Entries, socketVars
  <2> QED
    BY <1>2, <2>1, MoveKeepsClaims DEF Unplug, Places, guestVars, monitorVars
<1>3. ASSUME NEW i \in Interface, Return(i) PROVE IInv'
  <2>1. PICK place \in {"host", "renamed"} :
          where' = [where EXCEPT ![i] = place] /\ Report(EntryAt(place), i)
    BY <1>3 DEF Return
  <2>2. socket' \in Seq(Messages) /\ missed' \subseteq Interface /\ error' \in BOOLEAN
    BY <2>1, EntryAtType, ReportType DEF IInv
  <2>3. place \in Places
    BY DEF Places
  <2> QED
    BY <1>3, <2>1, <2>2, <2>3, MoveKeepsClaims DEF Return, guestVars, monitorVars
<1>4. ASSUME NEW c \in Container, GuestDies(c) PROVE IInv'
  <2> USE DEF IInv
  <2>1. TypeOK'
    BY <1>4, EndNamespaceClaims DEF GuestDies, TypeOK, monitorVars, socketVars
  <2>2. running' = running \ {c} /\ UNCHANGED <<status, element>>
    BY <1>4 DEF GuestDies, EndNamespace
  <2>3. DownIsClear'
    BY <2>2 DEF DownIsClear
  <2>4. ClaimsAgree'
    <3> SUFFICES ASSUME NEW o \in running', NEW n \in Names, element[o][n] # 0
                 PROVE  \E i \in Interface :
                          NameOf[i] = n /\ owner'[i] = o /\ where'[i] \in {"guest", "gone"}
      BY <2>2 DEF ClaimsAgree
    <3>1. PICK i \in Interface : NameOf[i] = n /\ owner[i] = o /\ where[i] \in {"guest", "gone"}
      BY <2>2 DEF ClaimsAgree
    <3> QED
      BY <1>4, <3>1, EndNamespaceClaims DEF GuestDies
  <2> QED
    BY <2>1, <2>3, <2>4
<1> QED
  BY <1>1, <1>2, <1>3, <1>4 DEF Kernel

LEMMA LoopInv ==
  ASSUME IInv, Loop \/ NetlinkError
  PROVE  IInv'
<1> USE DEF IInv
<1>1. CASE NetlinkEvent
  <2>1. UNCHANGED <<status, running, starts, element, where, owner, missed, monitored, pos>>
    BY <1>1 DEF NetlinkEvent, guestVars
  <2>2. /\ socket' \in Seq(Messages) /\ nllist' \in [Interface -> Entries]
        /\ error' \in BOOLEAN /\ notified' \in BOOLEAN
    <3>1. CASE error
      BY <1>1, <3>1 DEF NetlinkEvent, TypeOK
    <3>2. CASE ~ error
      <4>1. Head(socket) \in Messages /\ Tail(socket) \in Seq(Messages)
        BY <1>1, <3>2 DEF NetlinkEvent, TypeOK
      <4> QED
        BY <1>1, <3>2, <4>1 DEF NetlinkEvent, TypeOK, Listed, Messages
    <3> QED
      BY <3>1, <3>2
  <2> QED
    BY <2>1, <2>2 DEF TypeOK, DownIsClear, ClaimsAgree
<1>2. CASE BeginUpdate
  <2>1. 1 \in 0 .. NumContainers
    BY InterfacesAssumption
  <2>2. UNCHANGED <<status, running, starts, element, where, owner, socket, missed, error, nllist, monitored>>
    BY <1>2 DEF BeginUpdate, guestVars, kernelVars, socketVars, monitorVars
  <2>3. notified' \in BOOLEAN /\ pos' = 1
    BY <1>2 DEF BeginUpdate
  <2> QED
    BY <2>1, <2>2, <2>3 DEF TypeOK, DownIsClear, ClaimsAgree
<1>3. CASE UpdateGuest
  BY <1>3, UpdateGuestInv
<1>4. ASSUME NEW c \in Container, GuestExited(c) PROVE IInv'
  <2>1. NoElements \in [Names -> Interface \cup {0}] /\ \A n \in Names : NoElements[n] = 0
    BY DEF NoElements
  <2>2. UNCHANGED <<running, starts, where, owner, socket, missed, error, nllist, monitored, notified, pos>>
    BY <1>4 DEF GuestExited, kernelVars, socketVars, monitorVars
  <2>3. /\ status' = [status EXCEPT ![c] = "DOWN"] /\ element' = [element EXCEPT ![c] = NoElements]
        /\ c \notin running
    BY <1>4 DEF GuestExited, RemoveElement
  <2> QED
    BY <2>1, <2>2, <2>3 DEF TypeOK, DownIsClear, ClaimsAgree
<1>5. CASE NetlinkError
  <2>1. UNCHANGED <<status, running, starts, element, where, owner, socket, missed, error, nllist, notified, pos>>
    BY <1>5 DEF NetlinkError, guestVars, kernelVars, socketVars
  <2>2. monitored' \in BOOLEAN
    BY <1>5 DEF NetlinkError
  <2> QED
    BY <2>1, <2>2 DEF TypeOK, DownIsClear, ClaimsAgree
<1> QED
  BY <1>1, <1>2, <1>3, <1>4, <1>5 DEF Loop

LEMMA RequestsInv ==
  ASSUME IInv, Requests
  PROVE  IInv'
<1> USE DEF IInv
<1>1. ASSUME NEW c \in Container, StartGuest(c) PROVE IInv'
  <2>1. UNCHANGED <<element, where, owner, socket, missed, error, nllist, monitored, pos>>
    BY <1>1 DEF StartGuest, kernelVars, socketVars, monitorVars
  <2>2. /\ status[c] = "DOWN" /\ status' = [status EXCEPT ![c] = "STARTED"]
        /\ running' = running \cup {c} /\ starts' = starts + 1
        /\ starts < MaxStarts /\ notified' = TRUE
    BY <1>1 DEF StartGuest
  <2>3. starts' \in 0 .. MaxStarts
    BY <2>2, InterfacesAssumption DEF TypeOK
  <2>4. \A n \in Names : element[c][n] = 0
    BY <2>2 DEF DownIsClear, NoElements
  <2> QED
    BY <2>1, <2>2, <2>3, <2>4 DEF TypeOK, DownIsClear, ClaimsAgree
<1>2. ASSUME NEW c \in Container, StopGuest(c) PROVE IInv'
  BY <1>2 DEF StopGuest, TypeOK, DownIsClear, ClaimsAgree, kernelVars, socketVars, monitorVars
<1>3. ASSUME NEW c \in Container, GuestKilled(c) PROVE IInv'
  <2>1. NoElements \in [Names -> Interface \cup {0}]
    BY DEF NoElements
  <2>2. UNCHANGED <<running, starts, where, owner, socket, missed, error, nllist, monitored, notified, pos>>
    BY <1>3 DEF GuestKilled, kernelVars, socketVars, monitorVars
  <2>3. status' = [status EXCEPT ![c] = "DOWN"] /\ element' = [element EXCEPT ![c] = NoElements]
    BY <1>3 DEF GuestKilled, RemoveElement
  <2>4. \A n \in Names : element'[c][n] = 0
    BY <2>3 DEF TypeOK, NoElements
  <2> QED
    BY <2>1, <2>2, <2>3, <2>4 DEF TypeOK, DownIsClear, ClaimsAgree
<1> QED
  BY <1>1, <1>2, <1>3 DEF Requests

LEMMA NextInv == IInv /\ [Next]_vars => IInv'
<1> SUFFICES ASSUME IInv, [Next]_vars PROVE IInv'
  OBVIOUS
<1>1. CASE Next
  BY <1>1, KernelInv, LoopInv, RequestsInv DEF Next
<1>2. CASE UNCHANGED vars
  BY <1>2 DEF vars, guestVars, kernelVars, socketVars, monitorVars, IInv, TypeOK, DownIsClear, ClaimsAgree
<1> QED
  BY <1>1, <1>2

LEMMA Invariance == Spec => []IInv
BY InitInv, NextInv, PTL DEF Spec

-----------------------------------------------------------------------------
(***************************************************************************)
(* The list and the socket: what they say of an interface changes exactly  *)
(* when a message about it is sent.                                        *)
(***************************************************************************)

\* WillBeListed, of any messages and any list.
Says(messages, list, i, entry) ==
  LET about == {k \in DOMAIN messages : messages[k].ifindex = i} IN
    IF about = {} THEN list[i] = entry
    ELSE \E k \in about : messages[k].entry = entry /\ \A j \in about : j <= k

LEMMA SaysList ==
  /\ ListFollowsHost <=> \A i \in Interface \ missed : Says(socket, nllist, i, EntryAt(where[i]))
  /\ ListFollowsHost' <=> \A i \in Interface \ missed' : Says(socket', nllist', i, EntryAt(where'[i]))
BY DEF ListFollowsHost, WillBeListed, Says, EntryAt

\* A message that is appended is the last one about its interface.
LEMMA ReportList ==
  ASSUME TypeOK, NEW entry \in Entries, NEW i \in Interface,
         socket' = Append(socket, Link(entry, i)), nllist' = nllist
  PROVE  /\ Says(socket', nllist', i, entry)
         /\ \A j \in Interface, e \in Entries : j # i /\ Says(socket, nllist, j, e) => Says(socket', nllist', j, e)
<1> DEFINE n == Len(socket)
<1>1. /\ n \in Nat /\ DOMAIN socket = 1 .. n /\ DOMAIN socket' = 1 .. (n + 1)
      /\ socket'[n + 1].entry = entry /\ socket'[n + 1].ifindex = i
      /\ \A k \in 1 .. n : socket'[k] = socket[k]
  <2>1. Link(entry, i).entry = entry /\ Link(entry, i).ifindex = i /\ Link(entry, i) \in Messages
    BY DEF Link, Messages
  <2> QED
    BY <2>1 DEF TypeOK
<1> HIDE DEF n
<1>2. Says(socket', nllist', i, entry)
  <2>1. n + 1 \in DOMAIN socket' /\ \A j \in DOMAIN socket' : j <= n + 1
    BY <1>1
  <2> QED
    BY <1>1, <2>1 DEF Says
<1>3. ASSUME NEW j \in Interface, NEW e \in Entries, j # i, Says(socket, nllist, j, e)
      PROVE  Says(socket', nllist', j, e)
  <2>1. {k \in DOMAIN socket' : socket'[k].ifindex = j} = {k \in DOMAIN socket : socket[k].ifindex = j}
    BY <1>1, <1>3
  <2> QED
    BY <1>1, <1>3, <2>1 DEF Says
<1> QED
  BY <1>2, <1>3

\* data_cb puts into the list what the message that it takes off the socket says.
LEMMA ReadList ==
  ASSUME TypeOK, NetlinkEvent, ~ error, NEW i \in Interface, NEW e \in Entries, Says(socket, nllist, i, e)
  PROVE  Says(socket', nllist', i, e)
<1> DEFINE n == Len(socket)
<1>1. /\ n \in Nat \ {0} /\ DOMAIN socket = 1 .. n /\ DOMAIN socket' = 1 .. (n - 1)
      /\ Head(socket) = socket[1] /\ \A k \in 1 .. (n - 1) : socket'[k] = socket[k + 1]
  <2>1. socket # <<>> /\ socket' = Tail(socket)
    BY DEF NetlinkEvent
  <2>2. socket \in Seq(Messages)
    BY DEF TypeOK
  <2> QED
    BY <2>1, <2>2
<1>2. nllist' = [nllist EXCEPT ![socket[1].ifindex] = socket[1].entry]
  <2>1. nllist' = Listed(nllist, Head(socket))
    BY DEF NetlinkEvent
  <2> QED
    BY <1>1, <2>1 DEF Listed
<1> HIDE DEF n
<1> DEFINE about == {k \in DOMAIN socket : socket[k].ifindex = i}
           later == {k \in DOMAIN socket' : socket'[k].ifindex = i}
<1>3. about \subseteq 1 .. n /\ later \subseteq 1 .. n
  BY <1>1
<1>4. \A k \in later : k + 1 \in about /\ k + 1 # 1
  BY <1>1
<1>5. \A k \in about : k # 1 => k - 1 \in later /\ socket'[k - 1] = socket[k]
  BY <1>1
<1>6. 1 \in about => socket[1].ifindex = i
  OBVIOUS
<1>7. Says(socket, nllist, i, e) => IF about = {} THEN nllist[i] = e
                            ELSE \E k \in about : socket[k].entry = e /\ \A j \in about : j <= k
  BY DEF Says
<1>8. (IF later = {} THEN nllist'[i] = e
       ELSE \E k \in later : socket'[k].entry = e /\ \A j \in later : j <= k) => Says(socket', nllist', i, e)
  BY DEF Says
<1>9. 1 \notin about => nllist'[i] = nllist[i]
  BY <1>1, <1>2 DEF TypeOK
<1>10. 1 \in about => nllist'[i] = socket[1].entry
  BY <1>2, <1>6 DEF TypeOK
<1> HIDE DEF about, later
<1>11. CASE about = {}
  <2>1. later = {}
    BY <1>4, <1>11
  <2> QED
    BY <1>7, <1>8, <1>9, <1>11, <2>1
<1>12. CASE about # {}
  <2>1. PICK k \in about : socket[k].entry = e /\ \A j \in about : j <= k
    BY <1>7, <1>12
  <2>2. CASE k = 1
    <3>1. \A j \in later : ~ (j + 1 <= 1)
      BY <1>1, <1>3
    <3>2. later = {}
      BY <1>4, <2>1, <2>2, <3>1
    <3> QED
      BY <1>8, <1>10, <2>1, <2>2, <3>2
  <2>3. CASE k # 1
    <3>1. k - 1 \in later /\ socket'[k - 1].entry = e
      BY <1>5, <2>1, <2>3
    <3>2. ASSUME NEW j \in later PROVE j <= k - 1
      <4>1. j + 1 <= k /\ j \in 1 .. n /\ k \in 1 .. n
        BY <1>3, <1>4, <2>1
      <4> QED
        BY <1>1, <4>1
    <3> QED
      BY <1>8, <3>1, <3>2
  <2> QED
    BY <2>2, <2>3
<1> QED
  BY <1>11, <1>12

\* A set is enumerated without leaving a member out.
LEMMA OrderHasAll ==
  ASSUME NEW attached \in SUBSET Interface, NEW order \in SetToSeqs(attached)
  PROVE  /\ Cardinality(attached) \in Nat
         /\ order \in [1 .. Cardinality(attached) -> attached]
         /\ \A i \in attached : \E k \in 1 .. Cardinality(attached) : order[k] = i
         /\ \A j, k \in 1 .. Cardinality(attached) : order[j] = order[k] => j = k
<1> DEFINE m == Cardinality(attached)
<1>1. IsFiniteSet(attached)
  <2>1. IsFiniteSet(Interface)
    BY InterfacesAssumption, FS_Interval DEF Interface
  <2> QED
    BY <2>1, FS_Subset
<1>2. m \in Nat
  BY <1>1, FS_CardinalityType
<1>3. Cardinality(1 .. m) = m
  <2>1. Cardinality(1 .. m) = IF 1 > m THEN 0 ELSE m - 1 + 1
    BY <1>2, FS_Interval
  <2> QED
    BY <1>2, <2>1
<1>4. order \in [1 .. m -> attached] /\ \A j, k \in 1 .. m : j # k => order[j] # order[k]
  BY DEF SetToSeqs
<1>5. order \in Injection(1 .. m, attached)
  BY <1>4 DEF Injection, IsInjective
<1>6. order \in Surjection(1 .. m, attached)
  BY <1>1, <1>3, <1>5, FS_Injection
<1> QED
  BY <1>2, <1>4, <1>6 DEF Surjection

\* A message that tells of its removal is the last one about an interface that is
\* moved to a guest; there is none about another.
LEMMA DetachList ==
  ASSUME TypeOK, NEW attached \in SUBSET Interface, NEW order \in SetToSeqs(attached),
         socket' = socket \o [k \in DOMAIN order |-> Link("absent", order[k])],
         nllist' = nllist, NEW i \in Interface
  PROVE  /\ i \in attached => Says(socket', nllist', i, "absent")
         /\ i \notin attached => \A e \in Entries : Says(socket, nllist, i, e) => Says(socket', nllist', i, e)
<1> DEFINE n == Len(socket)
           m == Cardinality(attached)
           removals == [k \in DOMAIN order |-> Link("absent", order[k])]
<1>1. /\ m \in Nat /\ order \in [1 .. m -> attached]
      /\ \A j \in attached : \E k \in 1 .. m : order[k] = j
      /\ \A j, k \in 1 .. m : order[j] = order[k] => j = k
  BY OrderHasAll
<1>2. \A j \in Interface : /\ Link("absent", j) \in Messages
                           /\ Link("absent", j).entry = "absent" /\ Link("absent", j).ifindex = j
  BY DEF Link, Messages, Entries
<1> HIDE DEF m
<1>3. /\ DOMAIN removals = 1 .. m /\ removals \in Seq(Messages)
      /\ \A k \in 1 .. m : removals[k].entry = "absent" /\ removals[k].ifindex = order[k]
  BY <1>1, <1>2
<1>4. Len(removals) = m
  BY <1>1, <1>3
<1>5. socket' = socket \o removals
  OBVIOUS
<1> HIDE DEF removals
<1>6. /\ n \in Nat /\ DOMAIN socket = 1 .. n /\ DOMAIN socket' = 1 .. (n + m)
      /\ \A k \in 1 .. n : socket'[k] = socket[k]
      /\ \A k \in 1 .. (n + m) : k \notin 1 .. n => k - n \in 1 .. m /\ socket'[k] = removals[k - n]
      /\ \A k \in 1 .. m : n + k \in 1 .. (n + m) /\ socket'[n + k] = removals[k]
  <2>1. socket \in Seq(Messages) /\ removals \in Seq(Messages) /\ Len(removals) = m /\ m \in Nat
    BY <1>1, <1>3, <1>4 DEF TypeOK
  <2>2. /\ n \in Nat /\ DOMAIN socket = 1 .. n
        /\ Len(socket') = n + m /\ DOMAIN socket' = 1 .. (n + m)
    BY <1>5, <2>1
  <2>3. \A k \in 1 .. (n + m) : socket'[k] = IF k <= n THEN socket[k] ELSE removals[k - n]
    BY <1>5, <2>1, <2>2
  <2> HIDE DEF n
  <2>4. \A k \in 1 .. n : socket'[k] = socket[k]
    BY <2>1, <2>2, <2>3
  <2>5. \A k \in 1 .. (n + m) : k \notin 1 .. n => k - n \in 1 .. m /\ socket'[k] = removals[k - n]
    BY <2>1, <2>2, <2>3
  <2>6. ASSUME NEW k \in 1 .. m PROVE n + k \in 1 .. (n + m) /\ socket'[n + k] = removals[k]
    <3>1. n + k \in 1 .. (n + m) /\ ~ (n + k <= n) /\ (n + k) - n = k
      BY <2>1, <2>2
    <3> QED
      BY <2>3, <3>1
  <2> QED
    BY <2>2, <2>4, <2>5, <2>6
<1> HIDE DEF n
<1>7. CASE i \notin attached
  <2>1. ASSUME NEW k \in 1 .. (n + m), k \notin 1 .. n PROVE socket'[k].ifindex # i
    <3>1. k - n \in 1 .. m /\ socket'[k] = removals[k - n]
      BY <1>6, <2>1
    <3>2. removals[k - n].ifindex = order[k - n] /\ order[k - n] \in attached
      BY <1>1, <1>3, <3>1
    <3> QED
      BY <1>7, <3>1, <3>2
  <2>2. 1 .. n \subseteq 1 .. (n + m)
    BY <1>1, <1>6
  <2>3. {k \in DOMAIN socket' : socket'[k].ifindex = i} = {k \in DOMAIN socket : socket[k].ifindex = i}
    BY <1>6, <2>1, <2>2
  <2> QED
    BY <1>6, <1>7, <2>3 DEF Says
<1>8. CASE i \in attached
  <2>1. PICK p \in 1 .. m : order[p] = i
    BY <1>1, <1>8
  <2>2. /\ n + p \in DOMAIN socket' /\ socket'[n + p].ifindex = i
        /\ socket'[n + p].entry = "absent"
    <3>1. n + p \in 1 .. (n + m) /\ socket'[n + p] = removals[p]
      BY <1>6, <2>1
    <3>2. removals[p].entry = "absent" /\ removals[p].ifindex = i
      BY <1>3, <2>1
    <3> QED
      BY <1>6, <3>1, <3>2
  <2>3. ASSUME NEW k \in DOMAIN socket', socket'[k].ifindex = i PROVE k <= n + p
    <3>1. CASE k \in 1 .. n
      BY <1>1, <1>6, <2>1, <3>1
    <3>2. CASE k \notin 1 .. n
      <4>1. k \in 1 .. (n + m) /\ k - n \in 1 .. m /\ socket'[k] = removals[k - n]
        BY <1>6, <3>2
      <4>2. order[k - n] = i
        BY <1>3, <2>3, <4>1
      <4>3. k - n = p
        BY <1>1, <2>1, <4>1, <4>2
      <4> QED
        BY <1>1, <1>6, <4>1, <4>3
    <3> QED
      BY <3>1, <3>2
  <2> QED
    BY <1>8, <2>2, <2>3 DEF Says
<1> QED
  BY <1>7, <1>8

\* An interface joins or leaves the host only with a message about it.
LEMMA ListFollows ==
  ASSUME IInv, ListFollowsHost, [Next]_vars
  PROVE  ListFollowsHost'
<1> USE DEF IInv
<1>1. ASSUME NEW i \in Interface, NEW place \in Places, Report(EntryAt(place), i),
             where' = [where EXCEPT ![i] = place], nllist' = nllist
      PROVE  ListFollowsHost'
  <2>1. where'[i] = place /\ \A j \in Interface : j # i => where'[j] = where[j]
    BY <1>1 DEF TypeOK
  <2>2. CASE socket' = Append(socket, Link(EntryAt(place), i)) /\ missed' = missed \ {i}
    <3>1. ASSUME NEW j \in Interface, j \notin missed' PROVE Says(socket', nllist', j, EntryAt(where'[j]))
      <4>1. CASE j = i
        BY <1>1, <2>1, <2>2, <4>1, EntryAtType, ReportList
      <4>2. CASE j # i
        <5>1. Says(socket, nllist, j, EntryAt(where[j])) /\ where'[j] = where[j]
          BY <2>1, <2>2, <3>1, <4>2, SaysList
        <5> QED
          BY <1>1, <2>2, <4>2, <5>1, EntryAtType, ReportList
      <4> QED
        BY <4>1, <4>2
    <3> QED
      BY <3>1, SaysList
  <2>3. CASE socket' = socket /\ missed' = missed \cup {i}
    BY <1>1, <2>1, <2>3, SaysList
  <2> QED
    BY <1>1, <2>2, <2>3 DEF Report
<1>2. ASSUME UNCHANGED <<socket, missed, nllist>>,
             \A j \in Interface : EntryAt(where'[j]) = EntryAt(where[j])
      PROVE  ListFollowsHost'
  BY <1>2, SaysList
<1>3. ASSUME NEW i \in Interface, Plug(i) PROVE ListFollowsHost'
  <2>1. "host" \in Places /\ EntryAt("host") = "own"
    BY DEF Places, EntryAt
  <2> QED
    BY <1>1, <1>3, <2>1 DEF Plug, monitorVars
<1>4. ASSUME NEW i \in Interface, Unplug(i) PROVE ListFollowsHost'
  <2>1. "gone" \in Places /\ EntryAt("gone") = "absent" /\ EntryAt("guest") = "absent"
    BY DEF Places, EntryAt
  <2>2. where' = [where EXCEPT ![i] = "gone"] /\ nllist' = nllist
    BY <1>4 DEF Unplug, monitorVars
  <2>3. CASE where[i] # "guest"
    BY <1>1, <1>4, <2>1, <2>2, <2>3 DEF Unplug
  <2>4. CASE where[i] = "guest"
    <3>1. UNCHANGED <<socket, missed>>
      BY <1>4, <2>4 DEF Unplug, socketVars
    <3> QED
      BY <1>2, <2>1, <2>2, <2>4, <3>1 DEF TypeOK
  <2> QED
    BY <2>3, <2>4
<1>5. ASSUME NEW i \in Interface, Return(i) PROVE ListFollowsHost'
  <2>1. PICK place \in {"host", "renamed"} :
          where' = [where EXCEPT ![i] = place] /\ Report(EntryAt(place), i)
    BY <1>5 DEF Return
  <2>2. place \in Places /\ nllist' = nllist
    BY <1>5 DEF Return, Places, monitorVars
  <2> QED
    BY <1>1, <2>1, <2>2
<1>6. ASSUME NEW c \in Container, GuestDies(c) PROVE ListFollowsHost'
  <2>1. \A j \in Interface : where'[j] = where[j] \/ (where[j] = "guest" /\ where'[j] = "returning")
    BY <1>6 DEF GuestDies, EndNamespace, InGuest
  <2>2. EntryAt("guest") = EntryAt("returning")
    BY DEF EntryAt
  <2> QED
    BY <1>2, <1>6, <2>1, <2>2 DEF GuestDies, monitorVars, socketVars
<1>7. CASE NetlinkEvent
  <2>1. where' = where /\ missed' = missed
    BY <1>7 DEF NetlinkEvent
  <2>2. CASE error
    BY <1>2, <1>7, <2>1, <2>2 DEF NetlinkEvent
  <2>3. CASE ~ error
    BY <1>7, <2>1, <2>3, EntryAtType, ReadList, SaysList
  <2> QED
    BY <2>2, <2>3
<1>8. CASE UpdateGuest
  <2>1. nllist' = nllist
    BY <1>8 DEF UpdateGuest, monitorVars
  <2>2. CASE status[pos] # "STARTED"
    BY <1>2, <1>8, <2>2 DEF UpdateGuest, kernelVars, socketVars, monitorVars
  <2>3. CASE status[pos] = "STARTED"
    <3>1. PICK moved \in SUBSET Interface :
            /\ where' = [i \in Interface |-> IF i \in moved THEN "guest" ELSE where[i]]
            /\ Detach(moved)
      BY <1>8, <2>3, UpdateGuestStep
    <3>2. PICK dropped \in SUBSET moved :
            /\ \E order \in SetToSeqs(moved \ dropped) :
                 socket' = socket \o [k \in DOMAIN order |-> Link("absent", order[k])]
            /\ missed' = (missed \ moved) \cup dropped
      BY <3>1 DEF Detach
    <3>3. PICK order \in SetToSeqs(moved \ dropped) :
            socket' = socket \o [k \in DOMAIN order |-> Link("absent", order[k])]
      BY <3>2
    <3>4. moved \ dropped \in SUBSET Interface
      OBVIOUS
    <3>5. ASSUME NEW i \in Interface, i \notin missed' PROVE Says(socket', nllist', i, EntryAt(where'[i]))
      <4>1. CASE i \in moved
        <5>1. i \in moved \ dropped /\ where'[i] = "guest" /\ EntryAt("guest") = "absent"
          BY <3>1, <3>2, <3>5, <4>1 DEF EntryAt
        <5>2. Says(socket', nllist', i, "absent")
          BY <2>1, <3>3, <3>4, <5>1, DetachList
        <5>3. EntryAt(where'[i]) = "absent"
          BY <5>1
        <5> QED
          BY <5>2, <5>3
      <4>2. CASE i \notin moved
        <5>1. i \notin missed /\ where'[i] = where[i]
          BY <3>1, <3>2, <3>5, <4>2
        <5>2. Says(socket, nllist, i, EntryAt(where[i]))
          BY <5>1, SaysList
        <5>3. \A e \in Entries : Says(socket, nllist, i, e) => Says(socket', nllist', i, e)
          BY <2>1, <3>3, <3>4, <4>2, DetachList
        <5> QED
          BY <5>1, <5>2, <5>3, EntryAtType
      <4> QED
        BY <4>1, <4>2
    <3> QED
      BY <3>5, SaysList
  <2> QED
    BY <2>2, <2>3
<1>9. CASE NetlinkError \/ BeginUpdate \/ UNCHANGED vars
           \/ \E c \in Container : StartGuest(c) \/ StopGuest(c) \/ GuestExited(c) \/ GuestKilled(c)
  <2>1. UNCHANGED <<where, socket, missed, nllist>>
    BY <1>9 DEF NetlinkError, BeginUpdate, StartGuest, StopGuest, GuestExited, GuestKilled,
      vars, kernelVars, socketVars, monitorVars
  <2> QED
    BY <1>2, <2>1
<1> QED
  BY <1>3, <1>4, <1>5, <1>6, <1>7, <1>8, <1>9 DEF Next, Kernel, Loop, Requests

LEMMA InitList == Init => ListFollowsHost
BY DEF Init, ListFollowsHost, WillBeListed

-----------------------------------------------------------------------------
(***************************************************************************)
(* The theorems.                                                           *)
(***************************************************************************)

\* The elements name interfaces, the messages in the socket are those of rtnetlink,
\* and the loop of container_netif_updated keeps to the guests.
THEOREM InterfacesTypeCorrect == Spec => []TypeOK
<1>1. IInv => TypeOK
  BY DEF IInv
<1> QED
  BY <1>1, Invariance, PTL

\* No guest that runs claims a name of which it has got no interface in this life:
\* container_terminate clears the elements of each former life, and
\* container_netif_update_guest sets only those whose attachment succeeded, though the
\* ifindex that it sets may be that of another interface.
THEOREM ClaimsAreTrue == Spec => []ClaimsAgree
<1>1. IInv => ClaimsAgree
  BY DEF IInv
<1> QED
  BY <1>1, Invariance, PTL

\* The list of data_cb loses no interface of the host and keeps none that has left it,
\* but for what waits in the socket and for the interfaces whose last message the kernel
\* dropped: what a guest takes, gives back at its end or unplugs is told in the order in
\* which it happened, and a message that was dropped harms the entry of no other.
THEOREM ListIsHost == Spec => []ListFollowsHost
<1>1. IInv /\ ListFollowsHost /\ [Next]_vars => ListFollowsHost'
  BY ListFollows
<1> QED
  BY <1>1, InitList, Invariance, PTL DEF Spec
=============================================================================
