------------------------------ MODULE Workqueue ------------------------------
(***************************************************************************)
(* The per container workqueue of container-workqueue.c, as operators on   *)
(* the value of a container_workqueue_t.  A workqueue holds at most one    *)
(* job (fsck, mkfs or erase of a disk of a guest).  The main thread        *)
(* schedules it, runs it in a detached thread, polls its status and cleans *)
(* it up; the thread only writes the result and the status COMPLETED.      *)
(*                                                                         *)
(* The main thread reads the status once in each of these calls and the    *)
(* only write of the thread is STARTED -> COMPLETED, so a call is one      *)
(* step.  WorkqueueThread opens the calls and interleaves the thread with  *)
(* them.                                                                   *)
(***************************************************************************)

\* The states of CONTAINER_WORKER_...; DISABLE is the state before
\* container_workqueue_initialize and after container_workqueue_deinitialize.
WorkerStatus == {"DISABLE", "INACTIVE", "SCHEDULED", "STARTED", "COMPLETED"}

\* What the job works on: the extra disk of the guest that could not be mounted
\* ("recovery") or the fixed device of the test command ("test").
Jobs == {"none", "recovery", "test"}

\* status, state_after_execute == 1, the job, and whether its thread exists: the
\* thread ends as it sets COMPLETED.
WorkqueueType ==
  {w \in [status : WorkerStatus, after : BOOLEAN, job : Jobs, thread : BOOLEAN] :
     w.thread => w.status = "STARTED"}

\* container_workqueue_initialize
InitialWorkqueue ==
  [status |-> "INACTIVE", after |-> FALSE, job |-> "none", thread |-> FALSE]

\* container_workqueue_schedule, when the plugin loads and takes its arguments.
\* A workqueue that is not INACTIVE keeps the job it has (@retval -1).
Schedule(w, job, launch_after_end) ==
  IF w.status = "INACTIVE"
  THEN [w EXCEPT !.status = "SCHEDULED", !.after = launch_after_end, !.job = job]
  ELSE w

\* container_workqueue_run of a SCHEDULED workqueue: the status is STARTED
\* before pthread_create.  pthread_create returns a positive errno, so the test
\* ret < 0 of the code never restores SCHEDULED: without a thread the
\* workqueue stays STARTED and the call returns 0.
Run(w, created) == [w EXCEPT !.status = "STARTED", !.thread = created]

\* Mutant of Complete: the thread ends without the status COMPLETED.
CompleteLosesStatus(w) == [w EXCEPT !.thread = FALSE]

\* The last section of container_workqueue_thread.
Complete(w) == [w EXCEPT !.status = "COMPLETED", !.thread = FALSE]

\* container_workqueue_cleanup succeeds only for a COMPLETED workqueue.
CanCleanup(w) == w.status = "COMPLETED"
Cleanup(w) ==
  [w EXCEPT !.status = "INACTIVE", !.after = FALSE, !.job = "none"]

\* container_workqueue_deinitialize gives up on a workqueue that is STARTED; the
\* plugin of a job that was not run or not cleaned up is left loaded.
CanDeinitialize(w) == w.status \notin {"STARTED", "DISABLE"}
Deinitialize(w) ==
  [w EXCEPT !.status = "DISABLE", !.after = FALSE, !.job = "none"]
==============================================================================
