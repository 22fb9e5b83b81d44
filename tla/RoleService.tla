----------------------------- MODULE RoleService -----------------------------
(***************************************************************************)
(* What the container manager promises of one role, whatever guests, disks *)
(* and commands do: the role is served by one of its containers at a time, *)
(* it is handed over only while that container is stopped, a guest is      *)
(* launched only while no guest of the role runs, no guest that runs is    *)
(* given up, and a shutdown of the system is final.                        *)
(*                                                                         *)
(* ContainerControl implements this specification for each role.           *)
(***************************************************************************)

CONSTANT Members   \* the containers of the role

VARIABLES
  service,   \* the container that serves the role, and its status
  running,   \* the containers of the role whose guest runs
  chosen,    \* the container that is to serve the role, 0: none
  state      \* "RUN", or "SHUTDOWN": the system shuts down

vars == <<service, running, chosen, state>>

\* The states in which the guest of the container may run.
Live == {"STARTED", "SHUTDOWN", "REBOOT"}

Serves(c, status) == {[container |-> c, status |-> status]}

Init ==
  /\ service = {}
  /\ running = {}
  /\ chosen \in Members \cup {0}
  /\ state = "RUN"

-----------------------------------------------------------------------------

\* The guest of c is launched while no guest runs, cannot be launched, or lacks
\* a disk and stays as it was.
Launch(c, status) ==
  /\ state = "RUN"
  /\ \/ /\ running = {} /\ running' = {c}
        /\ service' = Serves(c, "STARTED")
     \/ /\ UNCHANGED running
        /\ service' \in {Serves(c, "DEAD"), Serves(c, status)}
  /\ UNCHANGED <<chosen, state>>

\* At the start of the manager.
Take == service = {} /\ chosen # 0 /\ Launch(chosen, "NOT_STARTED")

Relaunch == \E c \in Members : service = Serves(c, "DEAD") /\ Launch(c, "DEAD")

\* Another container was chosen, and the one that serves has stopped.
HandOver ==
  /\ chosen # 0
  /\ \E c \in Members \ {chosen} : service = Serves(c, "NOT_STARTED")
  /\ Launch(chosen, "NOT_STARTED")

\* The container that serves changes its status.  Its guest goes on, or has
\* ended when the new status says that no guest runs.
Move(moves) ==
  /\ \E c \in Members, m \in moves : /\ service = Serves(c, m[1])
                                     /\ service' = Serves(c, m[2])
                                     /\ running' = IF m[2] \in Live THEN running ELSE {}
  /\ UNCHANGED chosen

\* The guest is asked to stop or to reboot.
StopMoves == {<<"STARTED", "SHUTDOWN">>, <<"STARTED", "REBOOT">>}

\* The guest has ended or is killed, or a dead one is to stay down.
EndMoves ==
  {<<"STARTED", "DEAD">>, <<"REBOOT", "DEAD">>,
   <<"STARTED", "NOT_STARTED">>, <<"SHUTDOWN", "NOT_STARTED">>, <<"DEAD", "NOT_STARTED">>}

WorkerEndMoves == {<<"RUN_WORKER", "NOT_STARTED">>, <<"RUN_WORKER", "DEAD">>}

LifeCycle == state = "RUN" /\ UNCHANGED state /\ Move(StopMoves \cup EndMoves \cup WorkerEndMoves)

\* A worker takes the place of the guest only of the container that is to serve.
StartWorker ==
  /\ state = "RUN" /\ UNCHANGED state
  /\ service = Serves(chosen, "NOT_STARTED")
  /\ Move({<<"NOT_STARTED", "RUN_WORKER">>})

\* In a shutdown a container can only come nearer to its exit.
ShutdownMoves ==
  {<<"STARTED", "SHUTDOWN">>, <<"REBOOT", "SHUTDOWN">>}
  \cup {<<s, "EXIT">> : s \in {"STARTED", "SHUTDOWN", "DEAD", "NOT_STARTED", "RUN_WORKER"}}

\* The shutdown reaches the role: nothing is left that starts a guest again.
SystemShutdown ==
  /\ state' = "SHUTDOWN"
  /\ \/ Move(ShutdownMoves)
     \/ /\ \A s \in service : s.status \in {"SHUTDOWN", "RUN_WORKER", "EXIT"}
        /\ UNCHANGED <<service, running, chosen>>

ShutdownGoesOn == state = "SHUTDOWN" /\ UNCHANGED state /\ Move(ShutdownMoves)

\* A guest ends or is killed; the manager may learn of it later.
GuestEnds ==
  /\ \E c \in running : running' = running \ {c}
  /\ UNCHANGED <<service, chosen, state>>

\* The command that changes the active guest; it has no effect on a role that
\* has none.
Choose ==
  /\ chosen # 0
  /\ chosen' \in Members
  /\ UNCHANGED <<service, running, state>>

Next ==
  \/ Take \/ Relaunch \/ HandOver
  \/ LifeCycle \/ StartWorker
  \/ SystemShutdown \/ ShutdownGoesOn
  \/ GuestEnds \/ Choose

Spec == Init /\ [][Next]_vars

-----------------------------------------------------------------------------

\* The promise: at most one container serves the role, and only its guest runs,
\* in a state in which the manager waits for its end.
OneGuestServes ==
  /\ \A s, t \in service : s = t
  /\ \A c \in running : \E s \in service : s.container = c /\ s.status \in Live
=============================================================================
