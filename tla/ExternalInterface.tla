-------------------------- MODULE ExternalInterface --------------------------
(***************************************************************************)
(* The guests of the manager and their roles as they are read at its start *)
(* (container-config.c), and the commands that clients send for them       *)
(* (container-external-interface.c, command/cmcontrol.c).                  *)
(*                                                                         *)
(* A client connects, sends one packet and waits a second for the answer.  *)
(* The manager serves one session at a time in its event loop; a client    *)
(* may give up at any time, also while its command is being executed.      *)
(***************************************************************************)
EXTENDS Integers, Sequences, SequencesExt, FiniteSetsExt

CONSTANTS
  Guest,       \* configuration files of guests that can be parsed
  GuestLimit,  \* GUEST_CONTAINER_LIMIT
  Priority,    \* [Guest -> Int]: bootpriority
  Autoboot,    \* the guests with autoboot
  NameOf,      \* [Guest -> sequence of characters]
  RoleOf,      \* [Guest -> sequence of characters]
  Client,      \* runs of cmcontrol
  Requests,    \* [Client -> set of requests]: what each of them may ask for
  MaxBacklog,  \* connections that wait to be accepted
  Dummy        \* the terminator of a role list, whose cc is NULL

Roles == {RoleOf[c] : c \in Guest}

RequestType ==
  [command : {"shutdown", "reboot", "force"}, by : {"name", "role"}, name : Seq(STRING)]
    \cup [command : {"change"}, name : Seq(STRING)]
    \cup [command : {"get", "unknown"}]

ASSUME ExternalAssumption ==
  /\ IsFiniteSet(Guest) /\ GuestLimit \in Nat \ {0} /\ MaxBacklog \in Nat \ {0}
  /\ Priority \in [Guest -> Int] /\ Autoboot \subseteq Guest /\ Dummy \notin Guest
  /\ \A c \in Guest : NameOf[c] \in Seq(STRING) /\ RoleOf[c] \in Seq(STRING)
  /\ Requests \in [Client -> SUBSET RequestType]

VARIABLES
  containers,  \* the guests in boot order
  role_list,   \* [Roles -> sequence of Guest \cup {Dummy}], <<>> for a role without a list
  started,     \* the guests in state CONTAINER_STARTED
  up,          \* the manager has not ended
  backlog,     \* clients whose connection waits to be accepted
  session,     \* the client of the session, or "none"
  dispatched,  \* the session handler was called for a packet, before a hang-up was seen
  client,      \* of each client: away, connected, sent (its packet), given_up or done
  request,     \* what each client asks for
  answer,      \* what each client was told, "none" before
  hit          \* the guests to which the command of each client was applied

guestVars == <<containers, role_list, started>>
socketVars == <<backlog, session, dispatched>>
clientVars == <<client, request, answer, hit>>
vars == <<guestVars, up, socketVars, clientVars>>

Answers == {"none", "accept", "noname", "error", "list", "busy", "closed", "timeout"}

Members(r) == {c \in ToSet(containers) : RoleOf[c] = r}

TypeOK ==
  /\ containers \in Seq(Guest)
  /\ role_list \in [Roles -> Seq(Guest \cup {Dummy})]
  /\ started \subseteq Guest /\ up \in BOOLEAN
  /\ backlog \in Seq(Client) /\ session \in Client \cup {"none"} /\ dispatched \in BOOLEAN
  /\ client \in [Client -> {"away", "connected", "sent", "given_up", "done"}]
  /\ request \in [Client -> RequestType] /\ answer \in [Client -> Answers]
  /\ hit \in [Client -> SUBSET Guest]

-----------------------------------------------------------------------------
(***************************************************************************)
(* The start of the manager.                                               *)
(***************************************************************************)

\* create_container_configs: the directory is read in any order up to the limit,
\* and sorted by priority; qsort may order equal priorities either way.
BootOrders ==
  LET Scanned == {s \in SUBSET Guest :
                    Cardinality(s) = Min({GuestLimit, Cardinality(Guest)})} IN
  {order \in UNION {SetToSeqs(s) : s \in Scanned} :
     \A j \in DOMAIN order : \A k \in 1 .. j : Priority[order[k]] <= Priority[order[j]]}

\* The step of bind_container_to_role_list for one guest: the list of a new role
\* is the terminator; a guest with autoboot goes to the top, another to the tail.
BindGuest(lists, c) ==
  LET list == IF lists[RoleOf[c]] = <<>> THEN <<Dummy>> ELSE lists[RoleOf[c]] IN
    [lists EXCEPT ![RoleOf[c]] = IF c \in Autoboot THEN <<c>> \o list ELSE Append(list, c)]

\* The lists after all guests of the boot order, from those after the first n.
BindToRoleList(order) ==
  LET lists[n \in 0 .. Len(order)] ==
        IF n = 0 THEN [r \in Roles |-> <<>>] ELSE BindGuest(lists[n - 1], order[n])
  IN  lists[Len(order)]

\* container_external_interface_setup at the end of the start; the heads of the
\* role lists have been started.
Init ==
  /\ containers \in BootOrders
  /\ role_list = BindToRoleList(containers)
  /\ started = {c \in ToSet(containers) : Head(role_list[RoleOf[c]]) = c}
  /\ up = TRUE
  /\ backlog = <<>> /\ session = "none" /\ dispatched = FALSE
  /\ client = [k \in Client |-> "away"]
  /\ request \in {q \in [Client -> UNION {Requests[k] : k \in Client}] :
                    \A k \in Client : q[k] \in Requests[k]}
  /\ answer = [k \in Client |-> "none"]
  /\ hit = [k \in Client |-> {}]

-----------------------------------------------------------------------------
(***************************************************************************)
(* The commands.                                                           *)
(***************************************************************************)

\* The guests that a lifecycle request finds: by name those whose name is a prefix
\* of it, by role the started ones whose role is.
Targets(q) ==
  {c \in ToSet(containers) :
     IF q.by = "name" THEN IsPrefix(NameOf[c], q.name)
     ELSE c \in started /\ IsPrefix(RoleOf[c], q.name)}

\* container_request_shutdown and container_request_reboot take a guest out of
\* CONTAINER_STARTED, lxcutil_container_forcekill only sends a signal.  ContainerControl
\* describes them in full.
ApplyTo(q, guests) == started' = IF q.command = "force" THEN started ELSE started \ guests

\* The answer is written, or the session closed without one.  A client that has
\* given up has closed its end.
Respond(k, a) ==
  /\ answer' = [answer EXCEPT ![k] = IF client[k] = "sent" THEN a ELSE @]
  /\ client' = [client EXCEPT ![k] = IF @ = "sent" THEN "done" ELSE @]

\* Mutant of CommandLifecycle: every request is accepted.
CommandLifecycleAlways(k) ==
  /\ ApplyTo(request[k], Targets(request[k]))
  /\ hit' = [hit EXCEPT ![k] = Targets(request[k])]
  /\ Respond(k, "accept")
  /\ UNCHANGED role_list

\* container_external_interface_command_lifecycle: only a success is answered.
CommandLifecycle(k) ==
  LET q == request[k] IN
    /\ ApplyTo(q, Targets(q))
    /\ hit' = [hit EXCEPT ![k] = Targets(q)]
    /\ Respond(k, IF Targets(q) # {} THEN "accept" ELSE "closed")
    /\ UNCHANGED role_list

\* The places of the guests with that name, in boot order or in the list of a role.
NamedAt(list, name) == {i \in DOMAIN list : list[i] # Dummy /\ NameOf[list[i]] = name}

\* The active guest goes to the end of its list.
Rotated(list) == Append(Tail(list), Head(list))

MoveToFront(list, i) == <<list[i]>> \o RemoveAt(list, i)

\* Mutant of CanChange: the head of the list is not looked at.
CanChangeAlways(list) == TRUE

\* A role whose active guest is the terminator is not changed.
CanChange(list) == Head(list) # Dummy

\* container_external_interface_command_change: in the list of the role of the first
\* guest with that name, the active guest goes to the end, then the named one to the
\* front.
CommandChange(k) ==
  LET name == request[k].name
      named == NamedAt(containers, name) IN
    IF named = {}
    THEN Respond(k, "noname") /\ UNCHANGED <<role_list, started, hit>>
    ELSE LET r == RoleOf[containers[Min(named)]]
             rotated == Rotated(role_list[r])
             i == Min(NamedAt(rotated, name)) IN
      /\ IF CanChange(role_list[r])
         THEN /\ role_list' = [role_list EXCEPT ![r] = MoveToFront(rotated, i)]
              /\ hit' = [hit EXCEPT ![k] = {rotated[i]}]
              /\ Respond(k, "accept")
         ELSE Respond(k, "error") /\ UNCHANGED <<role_list, hit>>
      /\ UNCHANGED started

\* container_external_interface_command_get
CommandGet(k) ==
  Respond(k, "list") /\ UNCHANGED <<role_list, started, hit>>

\* container_external_interface_exec
Exec(k) ==
  CASE request[k].command \in {"shutdown", "reboot", "force"} -> CommandLifecycle(k)
    [] request[k].command = "change" -> CommandChange(k)
    [] request[k].command = "get" -> CommandGet(k)
    [] OTHER -> Respond(k, "closed") /\ UNCHANGED <<role_list, started, hit>>

-----------------------------------------------------------------------------
(***************************************************************************)
(* The sockets of the manager.                                             *)
(***************************************************************************)

\* Mutant of Incoming: the second client takes the place of the first.
IncomingReplaces ==
  /\ up /\ ~ dispatched /\ backlog # <<>>
  /\ backlog' = Tail(backlog)
  /\ session' = Head(backlog)
  /\ UNCHANGED <<guestVars, up, dispatched, clientVars>>

\* container_external_interface_incoming_handler: beside a session, a client is
\* turned away.
Incoming ==
  /\ up /\ ~ dispatched /\ backlog # <<>>
  /\ backlog' = Tail(backlog)
  /\ LET k == Head(backlog) IN
       IF session = "none" THEN session' = k /\ UNCHANGED clientVars
       ELSE /\ UNCHANGED <<session, request, hit>>
            /\ client' = [client EXCEPT ![k] = IF @ = "given_up" THEN @ ELSE "done"]
            /\ answer' = [answer EXCEPT ![k] = IF client[k] = "given_up" THEN @ ELSE "closed"]
  /\ UNCHANGED <<guestVars, up, dispatched>>

\* container_external_interface_sessions_handler for EPOLLHUP: nothing is read.
SessionHangup ==
  /\ up /\ ~ dispatched /\ session # "none" /\ client[session] = "given_up"
  /\ session' = "none"
  /\ UNCHANGED <<guestVars, up, backlog, dispatched, clientVars>>

\* The session handler is called for EPOLLIN alone.
SessionReadable ==
  /\ up /\ ~ dispatched /\ session # "none" /\ client[session] = "sent"
  /\ dispatched' = TRUE
  /\ UNCHANGED <<guestVars, up, backlog, session, clientVars>>

\* It reads the packet, executes it and closes the session; the client may have
\* given up in the meantime.
SessionExec ==
  /\ dispatched
  /\ Exec(session)
  /\ session' = "none" /\ dispatched' = FALSE
  /\ UNCHANGED <<containers, up, backlog, request>>

\* The manager ends between two events: container_external_interface_cleanup, and the
\* kernel closes the connections that were not accepted.
ManagerEnds ==
  /\ up /\ ~ dispatched
  /\ up' = FALSE /\ backlog' = <<>> /\ session' = "none"
  /\ client' = [k \in Client |-> IF client[k] \in {"connected", "sent"} THEN "done" ELSE client[k]]
  /\ answer' = [k \in Client |-> IF client[k] \in {"connected", "sent"} THEN "closed" ELSE answer[k]]
  /\ UNCHANGED <<guestVars, dispatched, request, hit>>

\* What the state machine does to a guest meanwhile: it exits, or is started again
\* when it is the active one of its role.
LifeCycle(c) ==
  /\ up /\ ~ dispatched
  /\ started' = IF c \in started THEN started \ {c} ELSE started \cup {c}
  /\ c \in ToSet(containers)
  /\ c \notin started => Head(role_list[RoleOf[c]]) = c /\ Members(RoleOf[c]) \cap started = {}
  /\ UNCHANGED <<containers, role_list, up, socketVars, clientVars>>

-----------------------------------------------------------------------------
(***************************************************************************)
(* The client: cm_get_guest_list, cm_get_guest_lifecycle and               *)
(* cm_get_guest_change.                                                    *)
(***************************************************************************)

ServerUnchanged == UNCHANGED <<guestVars, up, session, dispatched, request, hit>>

\* cm_socket_setup: a full backlog or no manager is reported as busy.
Connect(k) ==
  /\ client[k] = "away"
  /\ IF up /\ Len(backlog) < MaxBacklog
     THEN /\ client' = [client EXCEPT ![k] = "connected"]
          /\ backlog' = Append(backlog, k)
          /\ UNCHANGED answer
     ELSE /\ client' = [client EXCEPT ![k] = "done"]
          /\ answer' = [answer EXCEPT ![k] = "busy"]
          /\ UNCHANGED backlog
  /\ ServerUnchanged

SendPacket(k) ==
  /\ client[k] = "connected"
  /\ client' = [client EXCEPT ![k] = "sent"]
  /\ UNCHANGED <<backlog, answer>> /\ ServerUnchanged

\* cm_socket_wait_response times out, or the user ends the client.
GiveUp(k) ==
  /\ client[k] \in {"connected", "sent"}
  /\ client' = [client EXCEPT ![k] = "given_up"]
  /\ answer' = [answer EXCEPT ![k] = "timeout"]
  /\ UNCHANGED backlog /\ ServerUnchanged

-----------------------------------------------------------------------------

Manager == Incoming \/ SessionHangup \/ SessionReadable \/ SessionExec

Next ==
  \/ Manager \/ ManagerEnds
  \/ \E c \in Guest : LifeCycle(c)
  \/ \E k \in Client : Connect(k) \/ SendPacket(k) \/ GiveUp(k)

\* The event loop serves what is ready, and a client that has connected sends its
\* packet.  Nobody has to give up.
Fairness == WF_vars(Incoming) /\ WF_vars(SessionHangup) /\ WF_vars(SessionReadable)
            /\ WF_vars(SessionExec) /\ \A k \in Client : WF_vars(SendPacket(k))

Spec == Init /\ [][Next]_vars /\ Fairness

-----------------------------------------------------------------------------
(***************************************************************************)
(* What must hold.                                                         *)
(***************************************************************************)

Executed(k) == hit[k] # {}

\* What a client is told agrees with what was done, whoever else was served in
\* between: accepted means that some guest was found, and a client that was turned
\* away, came at a busy time or was told of an error has changed nothing.  Only one
\* that gave up cannot know.
AnswerIsTrue ==
  \A k \in Client :
    /\ answer[k] = "accept" => Executed(k)
    /\ Executed(k) => answer[k] \in {"accept", "timeout"}

\* Guest a is before guest b in boot order.
BootsBefore(a, b) ==
  \E i, j \in DOMAIN containers : i < j /\ containers[i] = a /\ containers[j] = b

\* Guest a is before guest b in the list of a role whose active guest no client has
\* changed: the guests with autoboot, the last in boot order first, the terminator,
\* and the others in boot order.
Precedes(a, b) ==
  IF a \in Autoboot THEN b \in Autoboot => BootsBefore(b, a)
  ELSE b \notin Autoboot /\ b # Dummy /\ (a # Dummy => BootsBefore(a, b))

Changed(r) == \E k \in Client : request[k].command = "change" /\ \E c \in hit[k] : RoleOf[c] = r

\* Whatever the order of files and commands, the list of a role has each of its
\* guests once, and an active guest at its head exactly when one of them has
\* autoboot: a change never loses a guest, nor gives the role to the terminator or
\* takes it from there.
RoleListsAgree ==
  \A r \in {RoleOf[c] : c \in ToSet(containers)} :
    LET list == role_list[r] IN
      /\ ToSet(list) = Members(r) \cup {Dummy} /\ IsInjective(list)
      /\ Head(list) # Dummy <=> Members(r) \cap Autoboot # {}
      /\ ~ Changed(r) => \A i, j \in DOMAIN list : i < j => Precedes(list[i], list[j])

\* Every client that has connected comes to an end without a time-out of its own:
\* a session that was given up, or whose client is turned away, blocks nobody.
ClientIsServed == \A k \in Client : client[k] = "connected" ~> client[k] \in {"done", "given_up"}
=============================================================================
