---------------------------- MODULE JobLifecycle ----------------------------
(***************************************************************************)
(* The generation pipeline, end to end: a request inserts a job row and    *)
(* then publishes a Celery message (app/main.py, app/routes), a worker     *)
(* runs the task with late acknowledgement and up to MaxRetries retries    *)
(* (app/tasks.py, app/celery_app.py), the output is put in S3 before the   *)
(* row that names it is committed, a cleanup task deletes expired          *)
(* outputs, and a dataset may be deleted meanwhile (app/routes/dashboard). *)
(*                                                                         *)
(* A step is the code between two points another process can observe: a    *)
(* commit, a publish, an S3 call, an acknowledgement.  What can go wrong   *)
(* is an action of its own that spends one unit of a named fault budget,   *)
(* so that a property can say which faults it survives.                    *)
(***************************************************************************)
EXTENDS Naturals, FiniteSets

CONSTANTS
  Jobs,        \* ids of the jobs clients may ask for (uuid4, never reused)
  Datasets,    \* dataset ids
  DatasetOf,   \* the dataset each job synthesises
  Kind,        \* which endpoint creates the job: "single", "multi" or "dbt"
  Workers,     \* Celery worker processes
  Cleaners,    \* executions of cleanup_expired_outputs that may overlap
  Keys,        \* S3 output keys (uuid4, a new one per upload)
  NoKey,       \* output_s3_key IS NULL
  NoMsg,       \* the worker holds no message
  MaxRetries,  \* the tasks' max_retries (2 in the code)
  Budget       \* how many faults of each kind may happen

(* "enqueue": the API dies, or Redis refuses, between commit and publish.  *)
(* "error":   an exception in the task body, answered by a retry.          *)
(* "soft":    SoftTimeLimitExceeded, answered by failing without a retry.  *)
(* "die":     the pool child is killed (hard limit, OOM), the database     *)
(*            refuses a commit, or the retry cannot be published: Celery   *)
(*            acknowledges the message and the row keeps what it had.      *)
(* "crash":   the whole worker goes down: its message is delivered again.  *)
(* "delete":  S3 refuses a delete and delete_object swallows the error.    *)
(* "cleaner": a cleanup execution is killed.                               *)
FaultKinds == {"enqueue", "error", "soft", "die", "crash", "delete", "cleaner"}

ASSUME JobAssumption     == /\ DatasetOf \in [Jobs -> Datasets]
                            /\ Kind \in [Jobs -> {"single", "multi", "dbt"}]
ASSUME KeyAssumption     == NoKey \notin Keys
ASSUME RetryAssumption   == MaxRetries \in Nat
Messages == [job : Jobs, retries : 0..MaxRetries]
ASSUME MessageAssumption == NoMsg \notin Messages
ASSUME BudgetAssumption  == Budget \in [FaultKinds -> Nat]

VARIABLES
  status,      \* generation_jobs.status; "absent" before the row, "deleted" after it
  outKey,      \* generation_jobs.output_s3_key
  expires,     \* generation_jobs.expires_at: NULL, or which side of now it is on
  executions,  \* how often a worker has set the job running
  dataset,     \* whether the datasets row exists
  deleter,     \* a DELETE /api/dashboard/{id} request, by dataset
  api,         \* the request that creates the job
  queue,       \* ready messages in Redis, counted
  pc,          \* where each worker is in the task
  msg,         \* the unacknowledged message each worker holds
  upload,      \* the local output_key, from the upload until the commit
  object,      \* state of each S3 key
  todo,        \* rows each cleanup has selected and not yet treated
  cleared,     \* rows each cleanup has set output_s3_key = None on, uncommitted
  faults       \* faults so far, by kind

row    == <<status, outKey, expires, executions>>
store  == <<dataset, deleter>>
worker == <<pc, msg, upload>>
clean  == <<todo, cleared>>
vars   == <<row, store, api, queue, worker, object, clean, faults>>

Item == [job : Jobs, key : Keys]

TypeOK ==
  /\ status \in [Jobs -> {"absent", "queued", "running", "done", "failed", "deleted"}]
  /\ outKey \in [Jobs -> Keys \cup {NoKey}]
  /\ expires \in [Jobs -> {"null", "future", "past"}]
  /\ executions \in [Jobs -> Nat]
  /\ dataset \in [Datasets -> {"present", "gone"}]
  /\ deleter \in [Datasets -> {"idle", "loaded", "refused"}]
  /\ api \in [Jobs -> {"none", "checked", "committed", "enqueued", "ended"}]
  /\ queue \in [Messages -> Nat]
  /\ pc \in [Workers -> {"idle", "taken", "generating", "uploaded",
                         "committed", "retrying", "ending"}]
  /\ msg \in [Workers -> Messages \cup {NoMsg}]
  /\ upload \in [Workers -> Keys \cup {NoKey}]
  /\ object \in [Keys -> {"unused", "stored", "deleted"}]
  /\ todo \in [Cleaners -> SUBSET Item]
  /\ cleared \in [Cleaners -> SUBSET Jobs]
  /\ faults \in [FaultKinds -> Nat]
  /\ \A w \in Workers : msg[w] = NoMsg <=> pc[w] = "idle"

Init ==
  /\ status = [j \in Jobs |-> "absent"]
  /\ outKey = [j \in Jobs |-> NoKey]
  /\ expires = [j \in Jobs |-> "null"]
  /\ executions = [j \in Jobs |-> 0]
  /\ dataset = [d \in Datasets |-> "present"]
  /\ deleter = [d \in Datasets |-> "idle"]
  /\ api = [j \in Jobs |-> "none"]
  /\ queue = [m \in Messages |-> 0]
  /\ pc = [w \in Workers |-> "idle"]
  /\ msg = [w \in Workers |-> NoMsg]
  /\ upload = [w \in Workers |-> NoKey]
  /\ object = [k \in Keys |-> "unused"]
  /\ todo = [c \in Cleaners |-> {}]
  /\ cleared = [c \in Cleaners |-> {}]
  /\ faults = [f \in FaultKinds |-> 0]

Fault(f) == /\ faults[f] < Budget[f]
            /\ faults' = [faults EXCEPT ![f] = @ + 1]

HasRow(j) == status[j] \notin {"absent", "deleted"}

-----------------------------------------------------------------------------
(* The request: POST /api/generate and its multi-table and dbt siblings.   *)

CheckDataset(j) ==
  /\ api[j] = "none"
  /\ dataset[DatasetOf[j]] = "present"
  /\ api' = [api EXCEPT ![j] = "checked"]
  /\ UNCHANGED <<row, store, queue, worker, object, clean, faults>>

CommitJob(j) ==
  /\ api[j] = "checked"
  /\ dataset[DatasetOf[j]] = "present"
  /\ status' = [status EXCEPT ![j] = "queued"]
  /\ api' = [api EXCEPT ![j] = "committed"]
  /\ UNCHANGED <<outKey, expires, executions, store, queue, worker, object, clean, faults>>

(* The request fails without publishing: the foreign key refuses the       *)
(* insert, or the refresh after the commit finds the row cascaded away.    *)
RequestFails(j) ==
  /\ \/ api[j] = "checked" /\ dataset[DatasetOf[j]] = "gone"
     \/ api[j] = "committed" /\ ~HasRow(j)
  /\ api' = [api EXCEPT ![j] = "ended"]
  /\ UNCHANGED <<row, store, queue, worker, object, clean, faults>>

(* Mutation: the message is published twice.                               *)
EnqueueTwice(j) ==
  /\ api[j] = "committed" /\ HasRow(j)
  /\ queue' = [queue EXCEPT ![[job |-> j, retries |-> 0]] = @ + 2]
  /\ api' = [api EXCEPT ![j] = "enqueued"]
  /\ UNCHANGED <<row, store, worker, object, clean, faults>>

Enqueue(j) ==
  /\ api[j] = "committed" /\ HasRow(j)
  /\ queue' = [queue EXCEPT ![[job |-> j, retries |-> 0]] = @ + 1]
  /\ api' = [api EXCEPT ![j] = "enqueued"]
  /\ UNCHANGED <<row, store, worker, object, clean, faults>>

EnqueueLost(j) ==
  /\ api[j] = "committed"
  /\ Fault("enqueue")
  /\ api' = [api EXCEPT ![j] = "ended"]
  /\ UNCHANGED <<row, store, queue, worker, object, clean>>

-----------------------------------------------------------------------------
(* DELETE /api/dashboard/{id}.  The relationship Dataset.jobs has no       *)
(* cascade, so the ORM sets dataset_id = NULL on the jobs it loads, which  *)
(* the NOT NULL column refuses: a dataset seen with jobs is not deleted.   *)
(* Jobs committed after that load are cascaded away by the database.       *)

RowsOf(d) == {j \in Jobs : DatasetOf[j] = d /\ HasRow(j)}

LoadForDelete(d) ==
  /\ deleter[d] = "idle" /\ dataset[d] = "present"
  /\ deleter' = [deleter EXCEPT ![d] = IF RowsOf(d) = {} THEN "loaded" ELSE "refused"]
  /\ UNCHANGED <<row, dataset, api, queue, worker, object, clean, faults>>

DeleteDataset(d) ==
  /\ deleter[d] = "loaded"
  /\ dataset' = [dataset EXCEPT ![d] = "gone"]
  /\ deleter' = [deleter EXCEPT ![d] = "idle"]
  /\ status' = [j \in Jobs |-> IF j \in RowsOf(d) THEN "deleted" ELSE status[j]]
  /\ outKey' = [j \in Jobs |-> IF j \in RowsOf(d) THEN NoKey ELSE outKey[j]]
  /\ expires' = [j \in Jobs |-> IF j \in RowsOf(d) THEN "null" ELSE expires[j]]
  /\ UNCHANGED <<executions, api, queue, worker, object, clean, faults>>

-----------------------------------------------------------------------------
(* The Celery task, on the worker w that holds the message.                *)

JobAt(w) == msg[w].job

Goto(w, l) == pc' = [pc EXCEPT ![w] = l]

(* Mutation: the worker goes idle without letting go of its message.       *)
ReleaseKeepsMessage(w) == Goto(w, "idle") /\ UNCHANGED <<msg, upload>>

Release(w) == /\ Goto(w, "idle")
              /\ msg' = [msg EXCEPT ![w] = NoMsg]
              /\ upload' = [upload EXCEPT ![w] = NoKey]

(* Mutation: a message being worked on becomes visible to others again.    *)
TakeVisible(w) ==
  /\ pc[w] = "idle"
  /\ \E m \in Messages : queue[m] > 0 /\ msg' = [msg EXCEPT ![w] = m]
  /\ Goto(w, "taken")
  /\ UNCHANGED <<row, store, api, queue, upload, object, clean, faults>>

Take(w) ==
  /\ pc[w] = "idle"
  /\ \E m \in Messages : /\ queue[m] > 0
                         /\ queue' = [queue EXCEPT ![m] = @ - 1]
                         /\ msg' = [msg EXCEPT ![w] = m]
  /\ Goto(w, "taken")
  /\ UNCHANGED <<row, store, api, upload, object, clean, faults>>

(* session.get(GenerationJob) returned None: the task returns.             *)
BeginMissing(w) ==
  /\ pc[w] = "taken" /\ ~HasRow(JobAt(w))
  /\ Goto(w, "ending")
  /\ UNCHANGED <<row, store, api, queue, msg, upload, object, clean, faults>>

(* The row is set running whatever its status was.                         *)
Begin(w) ==
  /\ pc[w] = "taken" /\ HasRow(JobAt(w))
  /\ status' = [status EXCEPT ![JobAt(w)] = "running"]
  /\ executions' = [executions EXCEPT ![JobAt(w)] = @ + 1]
  /\ Goto(w, "generating")
  /\ UNCHANGED <<outKey, expires, store, api, queue, msg, upload, object, clean, faults>>

(* Only the single-table task can get this far: the multi-table task calls *)
(* upload_csv_bytes, a name tasks.py does not import, and the dbt dataset  *)
(* has a sentinel s3_key under which nothing was ever uploaded.            *)
UploadOutput(w) ==
  /\ pc[w] = "generating" /\ Kind[JobAt(w)] = "single"
  /\ \E k \in Keys : /\ object[k] = "unused"
                     /\ object' = [object EXCEPT ![k] = "stored"]
                     /\ upload' = [upload EXCEPT ![w] = k]
  /\ Goto(w, "uploaded")
  /\ UNCHANGED <<row, store, api, queue, msg, clean, faults>>

(* Mutation: expires_at is not set.                                        *)
CommitDoneNoExpiry(w) ==
  /\ pc[w] = "uploaded" /\ HasRow(JobAt(w))
  /\ status' = [status EXCEPT ![JobAt(w)] = "done"]
  /\ outKey' = [outKey EXCEPT ![JobAt(w)] = upload[w]]
  /\ upload' = [upload EXCEPT ![w] = NoKey]
  /\ Goto(w, "committed")
  /\ UNCHANGED <<expires, executions, store, api, queue, msg, object, clean, faults>>

CommitDone(w) ==
  /\ pc[w] = "uploaded" /\ HasRow(JobAt(w))
  /\ status' = [status EXCEPT ![JobAt(w)] = "done"]
  /\ outKey' = [outKey EXCEPT ![JobAt(w)] = upload[w]]
  /\ expires' = [expires EXCEPT ![JobAt(w)] = "future"]
  /\ upload' = [upload EXCEPT ![w] = NoKey]
  /\ Goto(w, "committed")
  /\ UNCHANGED <<executions, store, api, queue, msg, object, clean, faults>>

(* The row was cascaded away: the commit matches no row, the handler's own *)
(* commit fails on the broken session, and the task ends without a retry.  *)
CommitGone(w) ==
  /\ pc[w] \in {"generating", "uploaded"} /\ ~HasRow(JobAt(w))
  /\ Goto(w, "ending")
  /\ upload' = [upload EXCEPT ![w] = NoKey]
  /\ UNCHANGED <<row, store, api, queue, msg, object, clean, faults>>

(* An exception before the upload: the handler commits "failed".           *)
FailJob(w) ==
  /\ pc[w] = "generating" /\ HasRow(JobAt(w))
  /\ \/ Kind[JobAt(w)] # "single" /\ UNCHANGED faults
     \/ Fault("error")
  /\ status' = [status EXCEPT ![JobAt(w)] = "failed"]
  /\ Goto(w, "retrying")
  /\ UNCHANGED <<outKey, expires, executions, store, api, queue, msg, upload, object, clean>>

(* Mutation: the soft-limit handler does not commit "failed".              *)
SoftTimeoutSilent(w) ==
  /\ pc[w] \in {"generating", "uploaded", "committed"} /\ HasRow(JobAt(w))
  /\ Fault("soft")
  /\ upload' = [upload EXCEPT ![w] = NoKey]
  /\ Goto(w, "ending")
  /\ UNCHANGED <<row, store, api, queue, msg, object, clean>>

(* The soft limit can strike anywhere in the try block, the moment after   *)
(* the final commit included; it is re-raised, never retried.              *)
SoftTimeout(w) ==
  /\ pc[w] \in {"generating", "uploaded", "committed"} /\ HasRow(JobAt(w))
  /\ Fault("soft")
  /\ status' = [status EXCEPT ![JobAt(w)] = "failed"]
  /\ upload' = [upload EXCEPT ![w] = NoKey]
  /\ Goto(w, "ending")
  /\ UNCHANGED <<outKey, expires, executions, store, api, queue, msg, object, clean>>

(* Mutation: the next attempt does not count as a retry.                   *)
RetryUncounted(w) ==
  /\ pc[w] = "retrying" /\ msg[w].retries < MaxRetries
  /\ queue' = [queue EXCEPT ![msg[w]] = @ + 1]
  /\ Goto(w, "ending")
  /\ UNCHANGED <<row, store, api, msg, upload, object, clean, faults>>

(* self.retry publishes the next attempt and raises; only then does Celery *)
(* acknowledge this one.                                                   *)
Retry(w) ==
  /\ pc[w] = "retrying" /\ msg[w].retries < MaxRetries
  /\ queue' = [queue EXCEPT ![[job |-> JobAt(w), retries |-> msg[w].retries + 1]] = @ + 1]
  /\ Goto(w, "ending")
  /\ UNCHANGED <<row, store, api, msg, upload, object, clean, faults>>

GiveUp(w) ==
  /\ pc[w] = "retrying" /\ msg[w].retries = MaxRetries
  /\ Goto(w, "ending")
  /\ UNCHANGED <<row, store, api, queue, msg, upload, object, clean, faults>>

Ack(w) ==
  /\ pc[w] \in {"committed", "ending"}
  /\ Release(w)
  /\ UNCHANGED <<row, store, api, queue, object, clean, faults>>

(* The pool child is lost or the session cannot commit: acknowledged.      *)
Die(w) ==
  /\ pc[w] # "idle"
  /\ Fault("die")
  /\ Release(w)
  /\ UNCHANGED <<row, store, api, queue, object, clean>>

(* Mutation: the message is acknowledged when the task starts.             *)
CrashAcksEarly(w) ==
  /\ pc[w] # "idle"
  /\ Fault("crash")
  /\ Release(w)
  /\ UNCHANGED <<row, store, api, queue, object, clean>>

(* The worker as a whole is lost: the unacknowledged message comes back.   *)
Crash(w) ==
  /\ pc[w] # "idle"
  /\ Fault("crash")
  /\ queue' = [queue EXCEPT ![msg[w]] = @ + 1]
  /\ Release(w)
  /\ UNCHANGED <<row, store, api, object, clean>>

-----------------------------------------------------------------------------
(* cleanup_expired_outputs: one SELECT, a best-effort S3 delete for each   *)
(* row, one commit at the end.                                             *)

(* Mutation: outputs are selected whatever their age.                      *)
DoneWithOutput == {j \in Jobs : status[j] = "done" /\ outKey[j] # NoKey}

Expired == {j \in Jobs : status[j] = "done" /\ expires[j] = "past" /\ outKey[j] # NoKey}

Lapse(j) ==
  /\ expires[j] = "future"
  /\ expires' = [expires EXCEPT ![j] = "past"]
  /\ UNCHANGED <<status, outKey, executions, store, api, queue, worker, object, clean, faults>>

SelectExpired(c) ==
  /\ todo[c] = {} /\ cleared[c] = {} /\ Expired # {}
  /\ todo' = [todo EXCEPT ![c] = {[job |-> j, key |-> outKey[j]] : j \in Expired}]
  /\ UNCHANGED <<row, store, api, queue, worker, object, cleared, faults>>

(* Mutation: the key is forgotten, the object is not deleted.              *)
ForgetOutput(c) ==
  \E i \in todo[c] :
    /\ todo' = [todo EXCEPT ![c] = @ \ {i}]
    /\ cleared' = [cleared EXCEPT ![c] = @ \cup {i.job}]
    /\ UNCHANGED <<row, store, api, queue, worker, object, faults>>

DeleteOutput(c) ==
  \E i \in todo[c] :
    /\ \/ object' = [object EXCEPT ![i.key] = "deleted"] /\ UNCHANGED faults
       \/ Fault("delete") /\ UNCHANGED object
    /\ todo' = [todo EXCEPT ![c] = @ \ {i}]
    /\ cleared' = [cleared EXCEPT ![c] = @ \cup {i.job}]
    /\ UNCHANGED <<row, store, api, queue, worker>>

(* Mutation: the cleanup ends without its commit.                          *)
CommitNothing(c) ==
  /\ todo[c] = {} /\ cleared[c] # {}
  /\ cleared' = [cleared EXCEPT ![c] = {}]
  /\ UNCHANGED <<row, store, api, queue, worker, object, todo, faults>>

(* One UPDATE that matches no row makes the whole flush fail: nothing is   *)
(* cleared, although the objects are gone.                                 *)
CommitCleared(c) ==
  /\ todo[c] = {} /\ cleared[c] # {}
  /\ outKey' = [j \in Jobs |-> IF j \in cleared[c] /\ \A i \in cleared[c] : HasRow(i)
                               THEN NoKey ELSE outKey[j]]
  /\ cleared' = [cleared EXCEPT ![c] = {}]
  /\ UNCHANGED <<status, expires, executions, store, api, queue, worker, object, todo, faults>>

CleanerCrash(c) ==
  /\ todo[c] # {} \/ cleared[c] # {}
  /\ Fault("cleaner")
  /\ todo' = [todo EXCEPT ![c] = {}]
  /\ cleared' = [cleared EXCEPT ![c] = {}]
  /\ UNCHANGED <<row, store, api, queue, worker, object>>

-----------------------------------------------------------------------------
RequestStep(j) == CheckDataset(j) \/ CommitJob(j) \/ RequestFails(j) \/ Enqueue(j) \/ EnqueueLost(j)

DeleteStep(d) == LoadForDelete(d) \/ DeleteDataset(d)

TaskStep(w) ==
  \/ Take(w) \/ BeginMissing(w) \/ Begin(w) \/ UploadOutput(w) \/ CommitDone(w)
  \/ CommitGone(w) \/ FailJob(w) \/ SoftTimeout(w) \/ Retry(w) \/ GiveUp(w) \/ Ack(w)

CleanerStep(c) == SelectExpired(c) \/ DeleteOutput(c) \/ CommitCleared(c)

Next ==
  \/ \E j \in Jobs : RequestStep(j) \/ Lapse(j)
  \/ \E d \in Datasets : DeleteStep(d)
  \/ \E w \in Workers : TaskStep(w) \/ Die(w) \/ Crash(w)
  \/ \E c \in Cleaners : CleanerStep(c) \/ CleanerCrash(c)

Spec == Init /\ [][Next]_vars

(* A request once begun runs to its end, a live worker keeps taking        *)
(* messages and finishing tasks, a cleanup once begun goes on, and time    *)
(* passes.  Nobody has to ask for a job or delete a dataset, and nothing   *)
(* has to begin a cleanup: celery_app.py has a schedule for it, but what   *)
(* docker-compose.yml:115 starts is a worker without a beat.               *)
Fairness ==
  /\ \A j \in Jobs : WF_vars(api[j] # "none" /\ RequestStep(j)) /\ WF_vars(Lapse(j))
  /\ \A w \in Workers : WF_vars(TaskStep(w))
  /\ \A c \in Cleaners : WF_vars(DeleteOutput(c) \/ CommitCleared(c))

FairSpec == Spec /\ Fairness

-----------------------------------------------------------------------------
(* Properties.                                                             *)

(* The cleanup never takes a file that is still promised: whenever a row   *)
(* names an object that S3 no longer has, that row's expires_at has passed.*)
(* The deletes happen before the commit that forgets the keys, against     *)
(* workers that may run the same job again and replace key and expiry.     *)
DanglingOnlyExpired ==
  \A j \in Jobs : outKey[j] # NoKey /\ object[outKey[j]] = "deleted" => expires[j] = "past"

Executing(w) == pc[w] \in {"taken", "generating", "uploaded", "committed", "retrying"}

(* Late acknowledgement and retry do not by themselves run a job twice at  *)
(* once: as long as no worker has crashed, two workers never execute the   *)
(* task of the same job at the same time.                                  *)
ExclusiveExecution ==
  faults["crash"] = 0 =>
    \A w1, w2 \in Workers : w1 # w2 /\ Executing(w1) /\ Executing(w2) => JobAt(w1) # JobAt(w2)

(* ... and a job is set running at most max_retries + 1 times.             *)
BoundedExecutions ==
  faults["crash"] = 0 => \A j \in Jobs : executions[j] <= MaxRetries + 1

InFlight(j) ==
  \/ api[j] = "committed"
  \/ \E m \in Messages : m.job = j /\ queue[m] > 0
  \/ \E w \in Workers : pc[w] \in {"taken", "generating", "uploaded"} /\ JobAt(w) = j

(* A job the client sees queued or running is being looked after: a        *)
(* request, a message or a worker still carries it, whatever crashes,      *)
(* unless a publish was lost or a pool child died.                         *)
NoJobLost ==
  faults["enqueue"] = 0 /\ faults["die"] = 0 =>
    \A j \in Jobs : status[j] \in {"queued", "running"} => InFlight(j)

(* Without faults and without a dataset deleted under its jobs, S3 holds   *)
(* nothing that no row and no worker knows of.                             *)
NoOrphanWithoutFault ==
  (\A f \in FaultKinds : faults[f] = 0) /\ (\A j \in Jobs : status[j] # "deleted") =>
    \A k \in Keys : object[k] = "stored" =>
      (\E j \in Jobs : outKey[j] = k) \/ (\E w \in Workers : upload[w] = k)

(* "done" is final for the client who reads it, unless a worker crashed    *)
(* (the message is delivered again) or the soft limit struck right after   *)
(* the commit; only the row's deletion takes it back.                      *)
DoneIsFinal ==
  [][\A j \in Jobs : status[j] = "done" /\ faults'["crash"] = 0 /\ faults'["soft"] = 0
                       => status'[j] \in {"done", "deleted"}]_vars

(* What the client of the API is promised.  A row whose key was cleared    *)
(* keeps its expires_at: the output is then "removed" (410).               *)
Output(j) == IF outKey[j] = NoKey
               THEN IF expires[j] = "null" THEN "none" ELSE "removed"
               ELSE IF expires[j] = "future" THEN "live" ELSE "expired"

Contract == INSTANCE JobContract WITH
  phase <- status, output <- [j \in Jobs |-> Output(j)], attempt <- executions,
  crashed <- faults["crash"] > 0, MaxAttempts <- MaxRetries + 1

(* The pipeline implements the contract: every step of a request, worker   *)
(* or cleanup is a step the client may observe, or nothing it can observe. *)
ImplementsContract == Contract!Spec

(* A job that was committed comes to rest, done, failed or deleted, and    *)
(* stays so, even when workers crash and tasks fail and are retried.       *)
JobsSettle ==
  \A j \in Jobs :
    <>[](\/ status[j] \in {"absent", "done", "failed", "deleted"}
         \/ faults["enqueue"] > 0 \/ faults["die"] > 0)

(* Where somebody runs the beat that celery_app.py configures, a cleanup   *)
(* begins again as long as there is something to clean.                    *)
BeatRuns == \A c \in Cleaners : WF_vars(SelectExpired(c))

(* With such a beat, and only then, an expired output of a done job is     *)
(* eventually forgotten, although a cleanup is killed half-way or one row  *)
(* deleted under it makes it clear nothing: the next one takes what the    *)
(* last one left, objects that are gone already included.                  *)
ExpiredReclaimed ==
  BeatRuns => \A j \in Jobs : j \in Expired ~> j \notin Expired

-----------------------------------------------------------------------------
(* Claims of the repository's documents that the code does not keep.       *)

(* plans/ADR-002-async-job-execution.md:125 "task_acks_late = True         *)
(* # Re-queue on worker crash": a job whose worker is lost, in whatever    *)
(* way, is queued again, so no job stays queued or running unattended.     *)
InterruptedIsRequeued ==
  faults["enqueue"] = 0 =>
    \A j \in Jobs : status[j] \in {"queued", "running"} => InFlight(j)

(* app/routes/dashboard.py:5 "delete dataset and all associated jobs": the *)
(* owner's DELETE is carried out.                                          *)
DeleteHonoured == \A d \in Datasets : deleter[d] # "refused"

(* CHANGELOG.md:60 and :45, the multi-table and dbt endpoints enqueue a    *)
(* job that generates: a job fails only when something went wrong.         *)
FailedOnlyByFault ==
  \A j \in Jobs : status[j] = "failed" => faults["error"] > 0 \/ faults["soft"] > 0
=============================================================================
