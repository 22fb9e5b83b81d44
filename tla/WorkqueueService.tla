-------------------------- MODULE WorkqueueService --------------------------
(***************************************************************************)
(* What the main thread may rely on when it uses a per container workqueue *)
(* (container-workqueue.c): at most one job at a time; a job that runs is  *)
(* neither replaced nor released before its thread has ended; a job that   *)
(* has ended stays COMPLETED until the main thread cleans it up.           *)
(*                                                                         *)
(* WorkqueueThread (the calls opened up, the thread, the plugin and the    *)
(* tool it runs) implements this specification, and ContainerControl (the  *)
(* calls the main thread makes) uses the workqueue of each guest within    *)
(* it.                                                                     *)
(***************************************************************************)
EXTENDS Workqueue

VARIABLE w   \* a value of WorkqueueType

Init == w = InitialWorkqueue

\* container_workqueue_schedule that succeeds.
ScheduleJob ==
  /\ w.status = "INACTIVE"
  /\ \E job \in Jobs \ {"none"} : w' = Schedule(w, job, TRUE)

RunJob == w.status = "SCHEDULED" /\ \E created \in BOOLEAN : w' = Run(w, created)

CompleteJob == w.thread /\ w' = Complete(w)

CleanupJob == CanCleanup(w) /\ w' = Cleanup(w)

\* container_workqueue_deinitialize refuses a workqueue whose job runs (-2).
DeinitializeQueue == CanDeinitialize(w) /\ w' = Deinitialize(w)

Next == ScheduleJob \/ RunJob \/ CompleteJob \/ CleanupJob \/ DeinitializeQueue

Spec == Init /\ [][Next]_w

\* A job that runs ends.
Fairness == WF_w(CompleteJob)
=============================================================================
