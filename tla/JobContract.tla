----------------------------- MODULE JobContract -----------------------------
(***************************************************************************)
(* What the pipeline promises the client who polls GET /api/jobs/{id} and  *)
(* downloads the result: the life of each job as a sequence of attempts,   *)
(* and of its output from the moment the job is done until it is removed.  *)
(* Redis, workers, S3 objects and cleanups do not appear here.             *)
(*                                                                         *)
(* Until a worker has crashed the promise is the strong one: attempts are  *)
(* bounded, a done job is not worked on again, and an output is only       *)
(* removed once it has expired.  After a crash messages are delivered      *)
(* again, and all that is left is that a job is only ever marked done      *)
(* together with a fresh output, and that a deleted job stays deleted.     *)
(***************************************************************************)
EXTENDS Naturals

CONSTANTS Jobs, MaxAttempts

VARIABLES
  phase,     \* what the client reads as the job's status
  output,    \* the output as the client can obtain it
  attempt,   \* how often the job has been started
  crashed    \* whether a worker has been lost

vars == <<phase, output, attempt, crashed>>

Live(j) == phase[j] \notin {"absent", "deleted"}

Init ==
  /\ phase = [j \in Jobs |-> "absent"]
  /\ output = [j \in Jobs |-> "none"]
  /\ attempt = [j \in Jobs |-> 0]
  /\ crashed = FALSE

Submit(j) ==
  /\ phase[j] = "absent"
  /\ phase' = [phase EXCEPT ![j] = "queued"]
  /\ UNCHANGED <<output, attempt, crashed>>

Start(j) ==
  /\ Live(j)
  /\ ~crashed => phase[j] \in {"queued", "failed"} /\ attempt[j] < MaxAttempts
  /\ phase' = [phase EXCEPT ![j] = "running"]
  /\ attempt' = [attempt EXCEPT ![j] = @ + 1]
  /\ UNCHANGED <<output, crashed>>

Finish(j) ==
  /\ Live(j)
  /\ ~crashed => phase[j] = "running" /\ output[j] = "none"
  /\ phase' = [phase EXCEPT ![j] = "done"]
  /\ output' = [output EXCEPT ![j] = "live"]
  /\ UNCHANGED <<attempt, crashed>>

(* A soft time limit that strikes just after the job is done also fails it.*)
Fail(j) ==
  /\ Live(j)
  /\ ~crashed => phase[j] \in {"running", "done"}
  /\ phase' = [phase EXCEPT ![j] = "failed"]
  /\ UNCHANGED <<output, attempt, crashed>>

Expire(j) ==
  /\ output[j] = "live"
  /\ output' = [output EXCEPT ![j] = "expired"]
  /\ UNCHANGED <<phase, attempt, crashed>>

(* One cleanup removes the outputs of several jobs at once.                *)
Reclaim ==
  \E S \in SUBSET Jobs :
    /\ \A j \in S : output[j] = "expired" \/ (crashed /\ output[j] = "live")
    /\ output' = [j \in Jobs |-> IF j \in S THEN "removed" ELSE output[j]]
    /\ UNCHANGED <<phase, attempt, crashed>>

(* Deleting a dataset takes the jobs that were added while it was deleted. *)
Delete ==
  \E S \in SUBSET Jobs :
    /\ \A j \in S : Live(j)
    /\ phase' = [j \in Jobs |-> IF j \in S THEN "deleted" ELSE phase[j]]
    /\ output' = [j \in Jobs |-> IF j \in S THEN "none" ELSE output[j]]
    /\ UNCHANGED <<attempt, crashed>>

WorkerLost == crashed' = TRUE /\ UNCHANGED <<phase, output, attempt>>

Next ==
  \/ \E j \in Jobs : Submit(j) \/ Start(j) \/ Finish(j) \/ Fail(j) \/ Expire(j)
  \/ Reclaim \/ Delete \/ WorkerLost

Spec == Init /\ [][Next]_vars
=============================================================================
