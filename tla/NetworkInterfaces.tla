-------------------------- MODULE NetworkInterfaces --------------------------
(***************************************************************************)
(* The dynamic network interfaces of the guests: the kernel that reports   *)
(* them on a netlink socket, the monitor of net-util.c that keeps a list   *)
(* of them, and the assignment in container-control-exec.c, which moves an *)
(* interface into the network namespace of the guest that names it.        *)
(*                                                                         *)
(* All handlers run in the one event loop.  The kernel and the guests go   *)
(* on between any two calls of container_netif_update_guest, and what the  *)
(* socket reports is older than what they do.  Interfaces are listed and   *)
(* claimed by their ifindex, but attached by their name, so that what a    *)
(* guest gets may be another interface than the one it claims.             *)
(***************************************************************************)
EXTENDS Integers, Sequences, SequencesExt

CONSTANTS
  NumContainers,
  NumInterfaces, \* interfaces are told apart by their ifindex
  Names,         \* interface names
  NameOf,        \* [Interface -> Names]
  Wanted,        \* [Container -> SUBSET Names]: dynamic_netiflist
  MaxStarts,     \* bound on the starts of the guests
  MaxSocket,     \* bound on the messages in the netlink socket
  Faults         \* what may fail, a subset of {"attach", "overrun"}

Container == 1 .. NumContainers
Interface == 1 .. NumInterfaces

ASSUME InterfacesAssumption ==
  /\ NumContainers \in Nat \ {0} /\ NumInterfaces \in Nat
  /\ NameOf \in [Interface -> Names] /\ Wanted \in [Container -> SUBSET Names]
  /\ MaxStarts \in Nat /\ MaxSocket \in Nat
  /\ Faults \subseteq {"attach", "overrun"}

VARIABLES
  status,    \* of each guest: STARTED, STOPPING (reboot and shutdown), or DOWN
  running,   \* the guests whose processes and namespace exist
  starts,    \* starts of guests so far
  element,   \* [Container -> [Names -> ifindex or 0]]: container_dynamic_netif_elem_t
  where,     \* of each interface, in the kernel
  owner,     \* of each interface, the guest in whose namespace it is or was last, or 0
  socket,    \* netlink messages that wait to be read
  missed,    \* the interfaces whose last message the kernel has dropped
  error,     \* the error of such a drop waits at the socket
  nllist,    \* of each interface, its entry in network_interface_manager_t
  monitored, \* the event source of the netlink socket is enabled
  notified,  \* a NETIFUPDATED command waits in the socket pair of the state machine
  pos        \* position of the loop in container_netif_updated, 0 outside of it

guestVars == <<status, running, starts>>
monitorVars == <<nllist, monitored>>
socketVars == <<socket, missed, error>>
kernelVars == <<where, owner, socketVars>>
vars == <<guestVars, element, kernelVars, monitorVars, notified, pos>>

\* An interface is not plugged yet, in the namespace of the host or of a guest, on
\* its way back from a namespace that is gone, on the host under another name
\* because its own is taken there, or unplugged.
Places == {"new", "host", "guest", "returning", "renamed", "gone"}

\* An ifindex is in the list under the name of its interface, under another name
\* (dev%d, which no guest wants), or it is absent.  A message puts it there: the
\* first two are an RTM_NEWLINK with this name, the last is an RTM_DELLINK.
Entries == {"own", "other", "absent"}
Messages == [entry : Entries, ifindex : Interface]
Link(entry, i) == [entry |-> entry, ifindex |-> i]

\* The entry of an interface that is at this place.
EntryAt(place) ==
  IF place = "host" THEN "own" ELSE IF place = "renamed" THEN "other" ELSE "absent"

TypeOK ==
  /\ status \in [Container -> {"STARTED", "STOPPING", "DOWN"}]
  /\ running \subseteq Container
  /\ starts \in 0 .. MaxStarts
  /\ element \in [Container -> [Names -> Interface \cup {0}]]
  /\ where \in [Interface -> Places] /\ owner \in [Interface -> 0 .. NumContainers]
  /\ socket \in Seq(Messages) /\ missed \subseteq Interface /\ error \in BOOLEAN
  /\ nllist \in [Interface -> Entries]
  /\ monitored \in BOOLEAN /\ notified \in BOOLEAN
  /\ pos \in 0 .. NumContainers

NoElements == [n \in Names |-> 0]

\* netifmonitor_setup: the interfaces that exist are listed before the first guest
\* starts, and each has sent its notification.
Init ==
  /\ status = [c \in Container |-> "DOWN"] /\ running = {}
  /\ starts = 0
  /\ element = [c \in Container |-> NoElements]
  /\ where \in [Interface -> {"new", "host"}]
  /\ \A i, j \in Interface : where[i] = "host" /\ where[j] = "host" /\ i # j => NameOf[i] # NameOf[j]
  /\ owner = [i \in Interface |-> 0]
  /\ socket = <<>> /\ missed = {} /\ error = FALSE
  /\ nllist = [i \in Interface |-> EntryAt(where[i])]
  /\ monitored = TRUE /\ notified = (\E i \in Interface : where[i] = "host") /\ pos = 0

-----------------------------------------------------------------------------
(***************************************************************************)
(* The kernel.  A name is used once in a namespace.                        *)
(***************************************************************************)

InGuest(c, i) == where[i] = "guest" /\ owner[i] = c
TakenOnHost(n) == \E i \in Interface : where[i] = "host" /\ NameOf[i] = n
TakenInGuest(c, n) == \E i \in Interface : InGuest(c, i) /\ NameOf[i] = n

\* A message is sent to the socket.  When the buffer of the socket is full, which the
\* messages about other interfaces may do to it, the kernel drops the message and sets
\* the error of the socket.
Report(entry, i) ==
  \/ /\ Len(socket) < MaxSocket
     /\ socket' = Append(socket, Link(entry, i)) /\ missed' = missed \ {i}
     /\ UNCHANGED error
  \/ /\ "overrun" \in Faults
     /\ missed' = missed \cup {i} /\ error' = TRUE
     /\ UNCHANGED socket

Plug(i) ==
  /\ where[i] = "new" /\ ~ TakenOnHost(NameOf[i])
  /\ where' = [where EXCEPT ![i] = "host"]
  /\ Report("own", i)
  /\ UNCHANGED <<guestVars, element, owner, monitorVars, notified, pos>>

\* Out of a guest an interface vanishes without a message to the host.
Unplug(i) ==
  /\ where[i] \in {"host", "renamed", "guest"}
  /\ where' = [where EXCEPT ![i] = "gone"]
  /\ IF where[i] = "guest" THEN UNCHANGED socketVars ELSE Report("absent", i)
  /\ UNCHANGED <<guestVars, element, owner, monitorVars, notified, pos>>

\* The last process of guest c has ended, and with it the namespace.
EndNamespace(c) ==
  /\ running' = running \ {c}
  /\ where' = [i \in Interface |-> IF InGuest(c, i) THEN "returning" ELSE where[i]]
  /\ owner' = [i \in Interface |-> IF owner[i] = c THEN 0 ELSE owner[i]]

GuestDies(c) ==
  /\ c \in running /\ EndNamespace(c)
  /\ UNCHANGED <<status, starts, element, socketVars, monitorVars, notified, pos>>

\* The kernel moves the interface of a namespace that is gone to the host.
Return(i) ==
  LET place == IF TakenOnHost(NameOf[i]) THEN "renamed" ELSE "host" IN
  /\ where[i] = "returning"
  /\ where' = [where EXCEPT ![i] = place] /\ Report(EntryAt(place), i)
  /\ UNCHANGED <<guestVars, element, owner, monitorVars, notified, pos>>

-----------------------------------------------------------------------------
(***************************************************************************)
(* The monitor.                                                            *)
(***************************************************************************)

\* Mutant of Listed: a deleted interface stays in the list.
ListedForEver(list, message) ==
  IF message.entry = "absent" THEN list ELSE [list EXCEPT ![message.ifindex] = message.entry]

\* What data_cb does to the list: an entry of the same ifindex is replaced.
Listed(list, message) == [list EXCEPT ![message.ifindex] = message.entry]

\* nml_event_handler that was called for input.  With an error at the socket the
\* receive fails and nothing is read, but the error is gone: the next call reads on,
\* and nobody asks for what was dropped.
NetlinkEvent ==
  /\ pos = 0 /\ monitored /\ (error \/ socket # <<>>)
  /\ IF error
     THEN error' = FALSE /\ UNCHANGED <<nllist, socket, notified>>
     ELSE /\ nllist' = Listed(nllist, Head(socket)) /\ socket' = Tail(socket)
          /\ notified' = TRUE
          /\ UNCHANGED error
  /\ UNCHANGED <<guestVars, element, where, owner, missed, monitored, pos>>

\* nml_event_handler that was called with EPOLLERR: the socket is not listened to any
\* more, whatever it holds.
NetlinkError ==
  /\ pos = 0 /\ monitored /\ error
  /\ monitored' = FALSE
  /\ UNCHANGED <<guestVars, element, kernelVars, nllist, notified, pos>>

-----------------------------------------------------------------------------
(***************************************************************************)
(* The assignment.                                                         *)
(***************************************************************************)

\* The state machine receives CONTAINER_MNGSM_COMMAND_NETIFUPDATED.
BeginUpdate ==
  /\ pos = 0 /\ notified
  /\ notified' = FALSE /\ pos' = 1
  /\ UNCHANGED <<guestVars, element, kernelVars, monitorVars>>

\* The interfaces that are listed under name n, which the host may have no more.
Listing(n) == {i \in Interface : NameOf[i] = n /\ nllist[i] = "own"}

\* The names that guest c has no interface for and the list has one.
Found(c) == {n \in Wanted[c] : element[c][n] = 0 /\ Listing(n) # {}}

\* lxcutil_dynamic_networkif_add_to_guest can move the interface that has name n on
\* the host, whichever it is, to guest c.
CanAttach(c, n) == TakenOnHost(n) /\ c \in running /\ ~ TakenInGuest(c, n)

\* The elements after the update: those of the attached names claim an ifindex, those
\* whose attachment failed fall back, and those that are not listed any more are
\* cleared.
UpdatedElement(c, claim) ==
  [n \in Names |->
     IF n \in DOMAIN claim THEN claim[n]
     ELSE IF element[c][n] # 0 /\ nllist[element[c][n]] # "absent" THEN element[c][n]
     ELSE 0]

\* The interfaces in moved leave the host, with a message about each.
Detach(moved) ==
  \E dropped \in (IF "overrun" \in Faults THEN SUBSET moved ELSE {{}}) :
    /\ \E order \in SetToSeqs(moved \ dropped) :
         socket' = socket \o [k \in DOMAIN order |-> Link("absent", order[k])]
    /\ missed' = (missed \ moved) \cup dropped
    /\ error' = (error \/ dropped # {})

\* container_netif_update_guest, for the next guest of container_netif_updated.  Of the
\* ifindexes listed under a name, the element claims the one at which the attachment
\* succeeded: the newest, or an older one when the attempts before it failed.
UpdateGuest ==
  /\ pos > 0
  /\ pos' = IF pos < NumContainers THEN pos + 1 ELSE 0
  /\ IF status[pos] # "STARTED" THEN UNCHANGED <<element, kernelVars>>
     ELSE \E refused \in (IF "attach" \in Faults THEN SUBSET Found(pos) ELSE {{}}) :
            LET attached == {n \in Found(pos) \ refused : CanAttach(pos, n)}
                moved == {i \in Interface : where[i] = "host" /\ NameOf[i] \in attached} IN
              /\ \E claim \in [attached -> Interface] :
                   /\ \A n \in attached : claim[n] \in Listing(n)
                   /\ element' = [element EXCEPT ![pos] = UpdatedElement(pos, claim)]
              /\ where' = [i \in Interface |-> IF i \in moved THEN "guest" ELSE where[i]]
              /\ owner' = [i \in Interface |-> IF i \in moved THEN pos ELSE owner[i]]
              /\ Detach(moved)
  /\ UNCHANGED <<guestVars, monitorVars, notified>>

-----------------------------------------------------------------------------
(***************************************************************************)
(* The life of the guests, which ContainerControl describes in full.       *)
(***************************************************************************)

\* Mutant of StartGuest: no update is notified.
StartUnnotified(c) ==
  /\ pos = 0 /\ status[c] = "DOWN" /\ c \notin running /\ starts < MaxStarts
  /\ status' = [status EXCEPT ![c] = "STARTED"]
  /\ running' = running \cup {c}
  /\ starts' = starts + 1
  /\ UNCHANGED <<element, kernelVars, monitorVars, notified, pos>>

\* A guest is started, and container_all_dynamic_device_update_notification.
StartGuest(c) ==
  /\ pos = 0 /\ status[c] = "DOWN" /\ c \notin running /\ starts < MaxStarts
  /\ status' = [status EXCEPT ![c] = "STARTED"]
  /\ running' = running \cup {c}
  /\ starts' = starts + 1
  /\ notified' = TRUE
  /\ UNCHANGED <<element, kernelVars, monitorVars, pos>>

\* A request to shut down or to reboot guest c.
StopGuest(c) ==
  /\ pos = 0 /\ status[c] = "STARTED"
  /\ status' = [status EXCEPT ![c] = "STOPPING"]
  /\ UNCHANGED <<running, starts, element, kernelVars, monitorVars, notified, pos>>

\* Mutant of RemoveElement: the elements are left as they are.
KeepElement(c) == UNCHANGED element

\* container_netif_remove_element, which container_terminate calls.
RemoveElement(c) == element' = [element EXCEPT ![c] = NoElements]

\* The exit of guest c is handled.
GuestExited(c) ==
  /\ pos = 0 /\ status[c] # "DOWN" /\ c \notin running
  /\ status' = [status EXCEPT ![c] = "DOWN"]
  /\ RemoveElement(c)
  /\ UNCHANGED <<running, starts, kernelVars, monitorVars, notified, pos>>

\* The deadline of guest c passes: it is sent SIGKILL and terminated, and its
\* processes end some time later.
GuestKilled(c) ==
  /\ pos = 0 /\ status[c] = "STOPPING" /\ c \in running
  /\ status' = [status EXCEPT ![c] = "DOWN"]
  /\ RemoveElement(c)
  /\ UNCHANGED <<running, starts, kernelVars, monitorVars, notified, pos>>

-----------------------------------------------------------------------------

Kernel ==
  \/ \E i \in Interface : Plug(i) \/ Unplug(i) \/ Return(i)
  \/ \E c \in Container : GuestDies(c)

Loop ==
  \/ NetlinkEvent \/ BeginUpdate \/ UpdateGuest
  \/ \E c \in Container : GuestExited(c)

Requests == \E c \in Container : StartGuest(c) \/ StopGuest(c) \/ GuestKilled(c)

Next == Kernel \/ Loop \/ NetlinkError \/ Requests

\* The event loop goes on, and no source is starved by the others: sd_event
\* dispatches the sources that are ready in turn.
Fairness == WF_vars(NetlinkEvent) /\ WF_vars(BeginUpdate) /\ WF_vars(UpdateGuest)

Spec == Init /\ [][Next]_vars /\ Fairness

-----------------------------------------------------------------------------
(***************************************************************************)
(* What must hold.                                                         *)
(***************************************************************************)

\* An element that claims an interface tells the truth about its name as long as its
\* guest lives: an interface of this name is in this guest, or was unplugged there.  The
\* ifindex may be that of another one, which the list named when the host had it no
\* more.  A claim left from a former life, or from an attachment that failed, would keep
\* the guest from ever getting an interface of this name
\* (container_netif_update_guest passes over elements whose ifindex is not 0).
ClaimsAgree ==
  \A c \in running, n \in Names :
    element[c][n] # 0 =>
      \E i \in Interface : NameOf[i] = n /\ owner[i] = c /\ where[i] \in {"guest", "gone"}

\* What the list will say of interface i once the messages that wait have been read:
\* what the last of them about it says, or what it says now.
WillBeListed(i, entry) ==
  LET about == {k \in DOMAIN socket : socket[k].ifindex = i} IN
    IF about = {} THEN nllist[i] = entry
    ELSE \E k \in about : socket[k].entry = entry /\ \A j \in about : j <= k

\* The list is what the host has, but for the messages that wait and for interfaces whose
\* last message was dropped: whatever the order in which interfaces are plugged, moved,
\* returned, renamed and unplugged meanwhile, and whatever was dropped before, it will
\* have the others exactly as the host has them.
ListFollowsHost ==
  \A i \in Interface \ missed : WillBeListed(i, EntryAt(where[i]))

\* Interface i is for guest c to take.
Takes(c, i) ==
  /\ where[i] = "host" /\ NameOf[i] \in Wanted[c]
  /\ status[c] = "STARTED" /\ c \in running /\ ~ TakenInGuest(c, NameOf[i])

\* An interface that was unplugged inside a guest makes room for another of its
\* name, but nobody tells the manager.
RoomUnseen(c, i) ==
  \E j \in Interface : where[j] = "gone" /\ owner[j] = c /\ NameOf[j] = NameOf[i]

\* An interface of the host does not stay there while a guest that names it runs:
\* whatever comes first, the interface, the start of the guest, or its return from
\* a guest that has ended, and whichever ifindex the guest claims.  Attachments that
\* fail are not tried again, an interface whose message was dropped is not looked for,
\* and after an error of the socket none is.
InterfaceDelivered ==
  \A c \in Container, i \in Interface :
    Takes(c, i) ~> (~ Takes(c, i) \/ RoomUnseen(c, i) \/ i \in missed \/ ~ monitored)
=============================================================================
