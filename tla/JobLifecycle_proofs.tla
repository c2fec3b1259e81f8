------------------------- MODULE JobLifecycle_proofs -------------------------
(* Theorems about JobLifecycle, for any sets of jobs, workers, cleanups    *)
(* and keys, any number of retries and any fault budget.                   *)
EXTENDS JobLifecycle, TLAPS

(* What a message carries, and that every retry number makes a message.    *)
LEMMA MessageFields ==
  /\ \A m \in Messages : m.job \in Jobs /\ m.retries \in 0..MaxRetries
  /\ \A j \in Jobs : [job |-> j, retries |-> 0] \in Messages
  /\ \A m \in Messages : m.retries < MaxRetries =>
                           [job |-> m.job, retries |-> m.retries + 1] \in Messages
  BY RetryAssumption DEF Messages

(* A fault moves its own counter, up by one, and no other.                 *)
LEMMA FaultCounts ==
  ASSUME faults \in [FaultKinds -> Nat], NEW f \in FaultKinds, Fault(f)
  PROVE  /\ faults' \in [FaultKinds -> Nat]
         /\ faults'[f] = faults[f] + 1
         /\ \A g \in FaultKinds : g # f => faults'[g] = faults[g]
  BY DEF Fault

(* Every step of a request, a worker, a cleanup or a delete leaves the     *)
(* rows, messages and objects well-formed, and a worker holds a message    *)
(* exactly while it is not idle.                                           *)
THEOREM TypeCorrect == Spec => []TypeOK
<1>1. Init => TypeOK
  BY JobAssumption, RetryAssumption, KeyAssumption DEF Init, TypeOK
<1>2. TypeOK /\ [Next]_vars => TypeOK'
  <2> SUFFICES ASSUME TypeOK, [Next]_vars PROVE TypeOK'
    OBVIOUS
  <2> USE JobAssumption, RetryAssumption, KeyAssumption, MessageAssumption, BudgetAssumption
      DEF TypeOK, row, store, worker, clean
  <2>1. ASSUME NEW j \in Jobs, CheckDataset(j) PROVE TypeOK'
    BY <2>1 DEF CheckDataset
  <2>2. ASSUME NEW j \in Jobs, CommitJob(j) PROVE TypeOK'
    BY <2>2 DEF CommitJob
  <2>3. ASSUME NEW j \in Jobs, RequestFails(j) PROVE TypeOK'
    BY <2>3 DEF RequestFails
  <2>4. ASSUME NEW j \in Jobs, Enqueue(j) PROVE TypeOK'
    BY <2>4, MessageFields DEF Enqueue
  <2>5. ASSUME NEW j \in Jobs, EnqueueLost(j) PROVE TypeOK'
    BY <2>5, FaultCounts DEF EnqueueLost, FaultKinds
  <2>6. ASSUME NEW j \in Jobs, Lapse(j) PROVE TypeOK'
    BY <2>6 DEF Lapse
  <2>7. ASSUME NEW d \in Datasets, LoadForDelete(d) PROVE TypeOK'
    BY <2>7 DEF LoadForDelete
  <2>8. ASSUME NEW d \in Datasets, DeleteDataset(d) PROVE TypeOK'
    BY <2>8 DEF DeleteDataset
  <2>9. ASSUME NEW w \in Workers, Take(w) PROVE TypeOK'
    BY <2>9 DEF Take, Goto
  <2>10. ASSUME NEW w \in Workers, BeginMissing(w) PROVE TypeOK'
    BY <2>10 DEF BeginMissing, Goto
  <2>11. ASSUME NEW w \in Workers, Begin(w) PROVE TypeOK'
    BY <2>11, MessageFields DEF Begin, Goto, JobAt
  <2>12. ASSUME NEW w \in Workers, UploadOutput(w) PROVE TypeOK'
    BY <2>12 DEF UploadOutput, Goto
  <2>13. ASSUME NEW w \in Workers, CommitDone(w) PROVE TypeOK'
    BY <2>13, MessageFields DEF CommitDone, Goto, JobAt
  <2>14. ASSUME NEW w \in Workers, CommitGone(w) PROVE TypeOK'
    BY <2>14 DEF CommitGone, Goto
  <2>15. ASSUME NEW w \in Workers, FailJob(w) PROVE TypeOK'
    BY <2>15, FaultCounts, MessageFields DEF FailJob, Goto, JobAt, FaultKinds
  <2>16. ASSUME NEW w \in Workers, SoftTimeout(w) PROVE TypeOK'
    BY <2>16, FaultCounts, MessageFields DEF SoftTimeout, Goto, JobAt, FaultKinds
  <2>17. ASSUME NEW w \in Workers, Retry(w) PROVE TypeOK'
    BY <2>17, MessageFields DEF Retry, Goto, JobAt
  <2>18. ASSUME NEW w \in Workers, GiveUp(w) PROVE TypeOK'
    BY <2>18 DEF GiveUp, Goto
  <2>19. ASSUME NEW w \in Workers, Ack(w) PROVE TypeOK'
    BY <2>19 DEF Ack, Release, Goto
  <2>20. ASSUME NEW w \in Workers, Die(w) PROVE TypeOK'
    BY <2>20, FaultCounts DEF Die, Release, Goto, FaultKinds
  <2>21. ASSUME NEW w \in Workers, Crash(w) PROVE TypeOK'
    BY <2>21, FaultCounts DEF Crash, Release, Goto, FaultKinds
  <2>22. ASSUME NEW c \in Cleaners, SelectExpired(c) PROVE TypeOK'
    BY <2>22 DEF SelectExpired, Expired, Item
  <2>23. ASSUME NEW c \in Cleaners, DeleteOutput(c) PROVE TypeOK'
    BY <2>23, FaultCounts DEF DeleteOutput, FaultKinds, Item
  <2>24. ASSUME NEW c \in Cleaners, CommitCleared(c) PROVE TypeOK'
    BY <2>24 DEF CommitCleared
  <2>25. ASSUME NEW c \in Cleaners, CleanerCrash(c) PROVE TypeOK'
    BY <2>25, FaultCounts DEF CleanerCrash, FaultKinds
  <2>26. CASE UNCHANGED vars
    BY <2>26 DEF vars
  <2> QED
    BY <2>1, <2>2, <2>3, <2>4, <2>5, <2>6, <2>7, <2>8, <2>9, <2>10, <2>11, <2>12, <2>13,
       <2>14, <2>15, <2>16, <2>17, <2>18, <2>19, <2>20, <2>21, <2>22, <2>23, <2>24, <2>25, <2>26
    DEF Next, RequestStep, DeleteStep, TaskStep, CleanerStep
<1> QED
  BY <1>1, <1>2, PTL DEF Spec

-----------------------------------------------------------------------------
(* Outputs.  The key a worker has uploaded but not committed is known to   *)
(* nobody else; a key a cleanup is about to delete can only be named by    *)
(* the row it was selected for, and only while that row is still expired.  *)

KeysKnown ==
  /\ \A j \in Jobs : outKey[j] # NoKey => object[outKey[j]] # "unused"
  /\ \A w \in Workers : upload[w] # NoKey => object[upload[w]] = "stored"
  /\ \A c \in Cleaners : \A i \in todo[c] : object[i.key] # "unused"

KeysDistinct ==
  /\ \A i, j \in Jobs : outKey[i] # NoKey /\ outKey[i] = outKey[j] => i = j
  /\ \A v, w \in Workers : upload[v] # NoKey /\ upload[v] = upload[w] => v = w
  /\ \A w \in Workers, j \in Jobs : upload[w] # NoKey => outKey[j] # upload[w]
  /\ \A w \in Workers, c \in Cleaners : \A i \in todo[c] : i.key # upload[w]

SelectedExpired ==
  \A c \in Cleaners : \A i \in todo[c] : \A j \in Jobs :
    outKey[j] = i.key => j = i.job /\ expires[j] = "past"

OutputInv == KeysKnown /\ KeysDistinct /\ SelectedExpired /\ DanglingOnlyExpired

(* That stays so through every step, the ones that fail included.          *)
LEMMA OutputInvariant == Spec => []OutputInv
<1>1. Init => OutputInv
  BY DEF Init, OutputInv, KeysKnown, KeysDistinct, SelectedExpired, DanglingOnlyExpired
<1>2. TypeOK /\ OutputInv /\ [Next]_vars => OutputInv'
  <2> SUFFICES ASSUME TypeOK, OutputInv, [Next]_vars PROVE OutputInv'
    OBVIOUS
  <2> USE KeyAssumption
      DEF OutputInv, KeysKnown, KeysDistinct, SelectedExpired, DanglingOnlyExpired
  <2>1. ASSUME UNCHANGED <<outKey, upload, object, todo>>,
               \A j \in Jobs : expires[j] = "past" => expires'[j] = "past"
        PROVE  OutputInv'
    BY <2>1 DEF TypeOK
  <2>2. ASSUME NEW j \in Jobs, RequestStep(j) \/ Lapse(j) PROVE OutputInv'
    <3>1. CASE RequestStep(j)
      BY <2>1, <3>1 DEF RequestStep, CheckDataset, CommitJob, RequestFails, Enqueue, EnqueueLost,
                        row, worker, clean
    <3>2. CASE Lapse(j)
      BY <2>1, <3>2 DEF Lapse, worker, clean, TypeOK
    <3> QED
      BY <2>2, <3>1, <3>2
  <2>3. ASSUME NEW d \in Datasets, LoadForDelete(d) PROVE OutputInv'
    BY <2>1, <2>3 DEF LoadForDelete, row, worker, clean
  <2>4. ASSUME NEW d \in Datasets, DeleteDataset(d) PROVE OutputInv'
    <3>1. \A j \in Jobs : outKey'[j] = NoKey \/ (outKey'[j] = outKey[j] /\ expires'[j] = expires[j])
      BY <2>4 DEF DeleteDataset
    <3> QED
      BY <2>4, <3>1 DEF DeleteDataset, worker, clean, TypeOK, Item
  <2>5. ASSUME NEW w \in Workers,
               UNCHANGED <<outKey, expires, object, todo>>,
               upload' = upload \/ upload' = [upload EXCEPT ![w] = NoKey]
        PROVE  OutputInv'
    BY <2>5 DEF TypeOK, Item
  <2>6. ASSUME NEW w \in Workers, UploadOutput(w) PROVE OutputInv'
    BY <2>6 DEF UploadOutput, row, clean, TypeOK, Item
  <2>7. ASSUME NEW w \in Workers, CommitDone(w) PROVE OutputInv'
    <3>1. JobAt(w) \in Jobs
      BY <2>7, MessageFields DEF CommitDone, JobAt, TypeOK
    <3> QED
      BY <2>7, <3>1 DEF CommitDone, clean, TypeOK, Item
  <2>8. ASSUME NEW w \in Workers, TaskStep(w) \/ Die(w) \/ Crash(w) PROVE OutputInv'
    BY <2>5, <2>6, <2>7, <2>8
    DEF TaskStep, Take, BeginMissing, Begin, CommitGone, FailJob, SoftTimeout, Retry, GiveUp, Ack,
        Die, Crash, Release, row, worker, clean
  <2>9. ASSUME NEW c \in Cleaners, SelectExpired(c) PROVE OutputInv'
    BY <2>9 DEF SelectExpired, Expired, row, worker, TypeOK, Item
  <2>10. ASSUME NEW c \in Cleaners, DeleteOutput(c) PROVE OutputInv'
    BY <2>10 DEF DeleteOutput, row, worker, TypeOK, Item
  <2>11. ASSUME NEW c \in Cleaners, CommitCleared(c) PROVE OutputInv'
    BY <2>11 DEF CommitCleared, worker, TypeOK, Item
  <2>12. ASSUME NEW c \in Cleaners, CleanerCrash(c) PROVE OutputInv'
    BY <2>12 DEF CleanerCrash, row, worker, TypeOK, Item
  <2>13. CASE UNCHANGED vars
    BY <2>1, <2>13 DEF vars, row, worker, clean
  <2> QED
    BY <2>2, <2>3, <2>4, <2>8, <2>9, <2>10, <2>11, <2>12, <2>13 DEF Next, DeleteStep, CleanerStep
<1> QED
  BY <1>1, <1>2, TypeCorrect, PTL DEF Spec

(* A row whose output is gone from S3 has expired, however requests,       *)
(* retries, redeliveries, cleanups and crashes interleave.                 *)
THEOREM OutputsSafe == Spec => []DanglingOnlyExpired
<1>1. OutputInv => DanglingOnlyExpired
  BY DEF OutputInv
<1> QED
  BY <1>1, OutputInvariant, PTL

-----------------------------------------------------------------------------
(* Executions.  While no worker has crashed, each job has at most one      *)
(* delivery, and the number of times it has been started can be read off   *)
(* the message or the worker that carries it.                              *)

OneDelivery ==
  /\ \A m, n \in Messages : queue[m] > 0 /\ queue[n] > 0 /\ m.job = n.job => m = n
  /\ \A m \in Messages : queue[m] <= 1
  /\ \A m \in Messages, w \in Workers : queue[m] > 0 /\ Executing(w) => JobAt(w) # m.job
  /\ \A v, w \in Workers : v # w /\ Executing(v) /\ Executing(w) => JobAt(v) # JobAt(w)
  /\ \A m \in Messages : api[m.job] # "enqueued" => queue[m] = 0
  /\ \A w \in Workers : Executing(w) => api[JobAt(w)] = "enqueued"

ExecutionsCounted ==
  /\ \A j \in Jobs : executions[j] <= MaxRetries + 1
  /\ \A j \in Jobs : api[j] # "enqueued" => executions[j] = 0
  /\ \A m \in Messages : queue[m] > 0 => executions[m.job] = m.retries
  /\ \A w \in Workers : pc[w] = "taken" => executions[JobAt(w)] = msg[w].retries
  /\ \A w \in Workers :
       pc[w] \in {"generating", "retrying"} => executions[JobAt(w)] = msg[w].retries + 1

ExecutionInv == faults["crash"] = 0 => OneDelivery /\ ExecutionsCounted

(* A step that is no crash leaves the number of crashes alone.             *)
LEMMA NoCrashBefore ==
  ASSUME TypeOK, [Next]_vars, faults'["crash"] = 0
  PROVE  faults["crash"] = 0 /\ ~\E w \in Workers : Crash(w)
<1>1. UNCHANGED faults \/ \E f \in FaultKinds : Fault(f)
  BY DEF vars, Next, RequestStep, CheckDataset, CommitJob, RequestFails, Enqueue, EnqueueLost,
         Lapse, DeleteStep, LoadForDelete, DeleteDataset, TaskStep, Take, BeginMissing, Begin,
         UploadOutput, CommitDone, CommitGone, FailJob, SoftTimeout, Retry, GiveUp, Ack, Die, Crash,
         CleanerStep, SelectExpired, DeleteOutput, CommitCleared, CleanerCrash, FaultKinds
<1>2. faults \in [FaultKinds -> Nat] /\ "crash" \in FaultKinds
  BY DEF TypeOK, FaultKinds
<1>3. faults["crash"] = 0
  BY <1>1, <1>2, FaultCounts
<1>4. ASSUME NEW w \in Workers, Crash(w) PROVE FALSE
  BY <1>2, <1>4, FaultCounts DEF Crash
<1> QED
  BY <1>3, <1>4

(* ... so the delivery and the count survive every other step.             *)
LEMMA ExecutionInvariant == Spec => []ExecutionInv
<1>1. Init => ExecutionInv
  BY RetryAssumption, MessageFields
  DEF Init, ExecutionInv, OneDelivery, ExecutionsCounted, Executing
<1>2. TypeOK /\ ExecutionInv /\ [Next]_vars => ExecutionInv'
  <2> SUFFICES ASSUME TypeOK, ExecutionInv, [Next]_vars, faults'["crash"] = 0
               PROVE  OneDelivery' /\ ExecutionsCounted'
    BY DEF ExecutionInv
  <2>0. /\ faults["crash"] = 0 /\ OneDelivery /\ ExecutionsCounted
        /\ \A w \in Workers : ~Crash(w)
    BY NoCrashBefore DEF ExecutionInv
  <2> USE <2>0, RetryAssumption, MessageAssumption, MessageFields
          DEF OneDelivery, ExecutionsCounted, Executing, JobAt
  <2>1. ASSUME UNCHANGED <<api, executions, queue, pc, msg>> PROVE OneDelivery' /\ ExecutionsCounted'
    BY <2>1
  <2>2. ASSUME NEW j \in Jobs, CheckDataset(j) \/ CommitJob(j) \/ RequestFails(j) \/ EnqueueLost(j)
        PROVE  OneDelivery' /\ ExecutionsCounted'
    BY <2>2 DEF CheckDataset, CommitJob, RequestFails, EnqueueLost, row, worker, TypeOK
  <2>3. ASSUME NEW j \in Jobs, Enqueue(j) PROVE OneDelivery' /\ ExecutionsCounted'
    BY <2>3 DEF Enqueue, row, worker, TypeOK
  <2>4. ASSUME NEW w \in Workers, Take(w) PROVE OneDelivery' /\ ExecutionsCounted'
    <3>1. PICK m \in Messages : /\ queue[m] > 0
                                /\ queue' = [queue EXCEPT ![m] = @ - 1]
                                /\ msg' = [msg EXCEPT ![w] = m]
      BY <2>4 DEF Take
    <3>2. \A n \in Messages : queue'[n] = IF n = m THEN 0 ELSE queue[n]
      BY <3>1 DEF TypeOK
    <3>3. \A v \in Workers : /\ msg'[v] = IF v = w THEN m ELSE msg[v]
                             /\ pc'[v] = IF v = w THEN "taken" ELSE pc[v]
      BY <2>4, <3>1 DEF Take, Goto, TypeOK
    <3>4. \A v \in Workers : Executing(v) => msg[v].job # m.job
      BY <3>1
    <3>5. api[m.job] = "enqueued" /\ executions[m.job] = m.retries
      BY <3>1
    <3>6. UNCHANGED <<api, executions>>
      BY <2>4 DEF Take, row
    <3>7. OneDelivery'
      BY <3>1, <3>2, <3>3, <3>4, <3>5, <3>6
    <3>8. ExecutionsCounted'
      BY <3>1, <3>2, <3>3, <3>4, <3>5, <3>6
    <3> QED
      BY <3>7, <3>8
  <2>5. ASSUME NEW w \in Workers, Begin(w) PROVE OneDelivery' /\ ExecutionsCounted'
    BY <2>5 DEF Begin, Goto, TypeOK
  <2>6. ASSUME NEW w \in Workers, Retry(w) PROVE OneDelivery' /\ ExecutionsCounted'
    BY <2>6 DEF Retry, Goto, row, TypeOK
  <2>7. ASSUME NEW w \in Workers,
               BeginMissing(w) \/ UploadOutput(w) \/ CommitDone(w) \/ CommitGone(w) \/ FailJob(w)
                 \/ SoftTimeout(w) \/ GiveUp(w)
        PROVE  OneDelivery' /\ ExecutionsCounted'
    BY <2>7 DEF BeginMissing, UploadOutput, CommitDone, CommitGone, FailJob, SoftTimeout, GiveUp,
                Goto, row, TypeOK
  <2>8. ASSUME NEW w \in Workers, Ack(w) \/ Die(w) PROVE OneDelivery' /\ ExecutionsCounted'
    <3>1. \A v \in Workers : pc'[v] = (IF v = w THEN "idle" ELSE pc[v]) /\ (v # w => msg'[v] = msg[v])
      BY <2>8 DEF Ack, Die, Release, Goto, TypeOK
    <3>2. UNCHANGED <<api, executions, queue>>
      BY <2>8 DEF Ack, Die, row
    <3> QED
      BY <3>1, <3>2
  <2>9. ASSUME NEW j \in Jobs, Lapse(j) PROVE OneDelivery' /\ ExecutionsCounted'
    BY <2>1, <2>9 DEF Lapse, worker
  <2>10. ASSUME NEW d \in Datasets, DeleteStep(d) PROVE OneDelivery' /\ ExecutionsCounted'
    BY <2>1, <2>10 DEF DeleteStep, LoadForDelete, DeleteDataset, row, worker
  <2>11. ASSUME NEW c \in Cleaners, CleanerStep(c) \/ CleanerCrash(c)
         PROVE  OneDelivery' /\ ExecutionsCounted'
    BY <2>1, <2>11
    DEF CleanerStep, SelectExpired, DeleteOutput, CommitCleared, CleanerCrash, row, worker
  <2>12. CASE UNCHANGED vars
    BY <2>1, <2>12 DEF vars, row, worker
  <2> QED
    BY <2>2, <2>3, <2>4, <2>5, <2>6, <2>7, <2>8, <2>9, <2>10, <2>11, <2>12
    DEF Next, RequestStep, TaskStep
<1> QED
  BY <1>1, <1>2, TypeCorrect, PTL DEF Spec

(* Two workers never execute the task of one job at a time unless a worker *)
(* has crashed: retry publishes the next attempt before the present one is *)
(* acknowledged, and this one has nothing left to do by then.              *)
THEOREM ExecutionExclusive == Spec => []ExclusiveExecution
<1>1. ExecutionInv => ExclusiveExecution
  BY DEF ExecutionInv, ExclusiveExecution, OneDelivery
<1> QED
  BY <1>1, ExecutionInvariant, PTL

(* ... and no job is started more than max_retries + 1 times.              *)
THEOREM ExecutionsBounded == Spec => []BoundedExecutions
<1>1. ExecutionInv => BoundedExecutions
  BY DEF ExecutionInv, BoundedExecutions, ExecutionsCounted
<1> QED
  BY <1>1, ExecutionInvariant, PTL

-----------------------------------------------------------------------------
(* A job seen queued or running is carried by its request, by a message or *)
(* by a worker, whatever crashes, while no publish and no pool child is    *)
(* lost: whoever lets go of a job writes its outcome first.                *)
THEOREM JobsCarried == Spec => []NoJobLost
<1>1. Init => NoJobLost
  BY DEF Init, NoJobLost
<1>2. TypeOK /\ NoJobLost /\ [Next]_vars => NoJobLost'
  <2> SUFFICES ASSUME TypeOK, NoJobLost, [Next]_vars,
                      faults'["enqueue"] = 0, faults'["die"] = 0,
                      NEW j \in Jobs, status'[j] \in {"queued", "running"}
               PROVE  InFlight(j)'
    BY DEF NoJobLost
  <2> DEFINE Was == status[j] \in {"queued", "running"} => InFlight(j)
  <2>0. ASSUME UNCHANGED faults \/ \E f \in FaultKinds \ {"enqueue", "die"} : Fault(f) PROVE Was
    BY <2>0, FaultCounts DEF NoJobLost, TypeOK, FaultKinds
  <2> HIDE DEF Was
  <2> USE MessageFields DEF InFlight, JobAt, HasRow, TypeOK, row, store, worker, clean
  <2>1. ASSUME NEW i \in Jobs, RequestStep(i) PROVE InFlight(j)'
    <3>1. CASE CheckDataset(i) \/ CommitJob(i) \/ RequestFails(i)
      BY <2>0, <3>1 DEF CheckDataset, CommitJob, RequestFails, Was
    <3>2. CASE Enqueue(i)
      BY <2>0, <3>2 DEF Enqueue, Was
    <3>3. CASE EnqueueLost(i)
      BY <3>3, FaultCounts DEF EnqueueLost, FaultKinds
    <3> QED
      BY <2>1, <3>1, <3>2, <3>3 DEF RequestStep
  <2>2. ASSUME NEW w \in Workers, TaskStep(w) PROVE InFlight(j)'
    <3>1. CASE Take(w)
      BY <2>0, <3>1 DEF Take, Goto, Was
    <3>2. CASE BeginMissing(w) \/ Begin(w) \/ UploadOutput(w)
      BY <2>0, <3>2 DEF BeginMissing, Begin, UploadOutput, Goto, Was
    <3>3. CASE CommitDone(w) \/ CommitGone(w)
      BY <2>0, <3>3 DEF CommitDone, CommitGone, Goto, Was
    <3>4. CASE FailJob(w) \/ SoftTimeout(w)
      <4>1. Was
        BY <2>0, <3>4 DEF FailJob, SoftTimeout, FaultKinds
      <4>2. CASE FailJob(w)
        BY <4>1, <4>2 DEF FailJob, Goto, Was
      <4>3. CASE SoftTimeout(w)
        BY <4>1, <4>3 DEF SoftTimeout, Goto, Was
      <4> QED
        BY <3>4, <4>2, <4>3
    <3>5. CASE Retry(w) \/ GiveUp(w) \/ Ack(w)
      BY <2>0, <3>5 DEF Retry, GiveUp, Ack, Release, Goto, Was
    <3> QED
      BY <2>2, <3>1, <3>2, <3>3, <3>4, <3>5 DEF TaskStep
  <2>3. ASSUME NEW w \in Workers, Die(w) PROVE InFlight(j)'
    BY <2>3, FaultCounts DEF Die, FaultKinds
  <2>4. ASSUME NEW w \in Workers, Crash(w) PROVE InFlight(j)'
    BY <2>0, <2>4 DEF Crash, Release, Goto, Was, FaultKinds
  <2>5. ASSUME UNCHANGED <<api, queue, pc, msg>>,
               status'[j] = status[j], Was
        PROVE  InFlight(j)'
    BY <2>5 DEF Was
  <2>6. ASSUME NEW i \in Jobs, Lapse(i) PROVE InFlight(j)'
    BY <2>0, <2>5, <2>6 DEF Lapse
  <2>7. ASSUME NEW d \in Datasets, DeleteStep(d) PROVE InFlight(j)'
    BY <2>0, <2>5, <2>7 DEF DeleteStep, LoadForDelete, DeleteDataset
  <2>8. ASSUME NEW c \in Cleaners, CleanerStep(c) \/ CleanerCrash(c) PROVE InFlight(j)'
    BY <2>0, <2>5, <2>8
    DEF CleanerStep, SelectExpired, DeleteOutput, CommitCleared, CleanerCrash, FaultKinds
  <2>9. CASE UNCHANGED vars
    BY <2>0, <2>5, <2>9 DEF vars
  <2> QED
    BY <2>1, <2>2, <2>3, <2>4, <2>6, <2>7, <2>8, <2>9 DEF Next
<1> QED
  BY <1>1, <1>2, TypeCorrect, PTL DEF Spec

-----------------------------------------------------------------------------
(* The contract.  What a step shows the client depends on what the row has *)
(* been through, which can be read off whoever carries the job.            *)

Fresh(j) == outKey[j] = NoKey /\ expires[j] = "null"

RowShape ==
  /\ \A j \in Jobs : api[j] \in {"none", "checked"} => status[j] = "absent"
  /\ \A j \in Jobs : outKey[j] # NoKey => expires[j] # "null"
  /\ \A w \in Workers : pc[w] = "uploaded" => upload[w] # NoKey

WorkPhase ==
  /\ \A j \in Jobs : api[j] \in {"none", "checked"} => Fresh(j)
  /\ \A j \in Jobs : api[j] = "committed" => Fresh(j) /\ status[j] \in {"queued", "deleted"}
  /\ \A m \in Messages :
       queue[m] > 0 => Fresh(m.job) /\ status[m.job] \in {"queued", "failed", "deleted"}
  /\ \A w \in Workers :
       /\ pc[w] = "taken" => Fresh(JobAt(w)) /\ status[JobAt(w)] \in {"queued", "failed", "deleted"}
       /\ pc[w] \in {"generating", "uploaded"} =>
            Fresh(JobAt(w)) /\ status[JobAt(w)] \in {"running", "deleted"}
       /\ pc[w] = "retrying" => Fresh(JobAt(w)) /\ status[JobAt(w)] \in {"failed", "deleted"}
       /\ pc[w] = "committed" => status[JobAt(w)] \in {"done", "deleted"}

CleanedPhase ==
  /\ \A c \in Cleaners : \A i \in todo[c] : status[i.job] = "deleted" \/ expires[i.job] = "past"
  /\ \A c \in Cleaners : \A j \in cleared[c] : status[j] = "deleted" \/ expires[j] = "past"

PhaseInv == faults["crash"] = 0 => WorkPhase /\ CleanedPhase

LEMMA RowShapeInvariant == Spec => []RowShape
<1>1. Init => RowShape
  BY DEF Init, RowShape
<1>2. TypeOK /\ RowShape /\ [Next]_vars => RowShape'
  <2> SUFFICES ASSUME TypeOK, RowShape, [Next]_vars PROVE RowShape'
    OBVIOUS
  <2> USE KeyAssumption, MessageFields DEF RowShape, TypeOK, row, store, worker, clean, Goto, JobAt, HasRow
  <2>1. ASSUME NEW j \in Jobs, RequestStep(j) \/ Lapse(j) PROVE RowShape'
    BY <2>1 DEF RequestStep, CheckDataset, CommitJob, RequestFails, Enqueue, EnqueueLost, Lapse
  <2>2. ASSUME NEW d \in Datasets, DeleteStep(d) PROVE RowShape'
    BY <2>2 DEF DeleteStep, LoadForDelete, DeleteDataset, RowsOf
  <2>3. ASSUME NEW w \in Workers, Take(w) \/ BeginMissing(w) \/ Begin(w) PROVE RowShape'
    BY <2>3 DEF Take, BeginMissing, Begin
  <2>4. ASSUME NEW w \in Workers, UploadOutput(w) PROVE RowShape'
    BY <2>4 DEF UploadOutput
  <2>5. ASSUME NEW w \in Workers, CommitDone(w) \/ CommitGone(w) PROVE RowShape'
    BY <2>5 DEF CommitDone, CommitGone
  <2>6. ASSUME NEW w \in Workers, FailJob(w) \/ SoftTimeout(w) PROVE RowShape'
    BY <2>6 DEF FailJob, SoftTimeout
  <2>7. ASSUME NEW w \in Workers, Retry(w) \/ GiveUp(w) \/ Ack(w) \/ Die(w) \/ Crash(w)
        PROVE  RowShape'
    BY <2>7 DEF Retry, GiveUp, Ack, Die, Crash, Release
  <2>8. ASSUME NEW c \in Cleaners, CleanerStep(c) \/ CleanerCrash(c) PROVE RowShape'
    BY <2>8 DEF CleanerStep, SelectExpired, DeleteOutput, CommitCleared, CleanerCrash
  <2>9. CASE UNCHANGED vars
    BY <2>9 DEF vars
  <2> QED
    BY <2>1, <2>2, <2>3, <2>4, <2>5, <2>6, <2>7, <2>8, <2>9 DEF Next, TaskStep
<1> QED
  BY <1>1, <1>2, TypeCorrect, PTL DEF Spec

LEMMA PhaseInvariant == Spec => []PhaseInv
<1>1. Init => PhaseInv
  BY DEF Init, PhaseInv, WorkPhase, CleanedPhase, Fresh
<1>2. TypeOK /\ RowShape /\ ExecutionInv /\ PhaseInv /\ [Next]_vars => PhaseInv'
  <2> SUFFICES ASSUME TypeOK, RowShape, ExecutionInv, PhaseInv, [Next]_vars, faults'["crash"] = 0
               PROVE  WorkPhase' /\ CleanedPhase'
    BY DEF PhaseInv
  <2>0. /\ OneDelivery /\ WorkPhase /\ CleanedPhase
        /\ \A w \in Workers : ~Crash(w)
    BY NoCrashBefore DEF ExecutionInv, PhaseInv
  <2> USE <2>0, KeyAssumption, MessageFields
      DEF OneDelivery, Executing, RowShape, WorkPhase, CleanedPhase, Fresh, TypeOK,
          row, store, worker, clean, Goto, JobAt, HasRow
  <2>1. ASSUME NEW j \in Jobs, RequestStep(j) PROVE WorkPhase' /\ CleanedPhase'
    <3>1. CASE CheckDataset(j)
      BY <3>1 DEF CheckDataset
    <3>2. CASE CommitJob(j)
      BY <3>2 DEF CommitJob, Item
    <3>3. CASE RequestFails(j) \/ EnqueueLost(j)
      BY <3>3 DEF RequestFails, EnqueueLost
    <3>4. CASE Enqueue(j)
      BY <3>4 DEF Enqueue
    <3> QED
      BY <2>1, <3>1, <3>2, <3>3, <3>4 DEF RequestStep
  <2>2. ASSUME NEW j \in Jobs, Lapse(j) PROVE WorkPhase' /\ CleanedPhase'
    BY <2>2 DEF Lapse
  <2>3. ASSUME NEW d \in Datasets, DeleteStep(d) PROVE WorkPhase' /\ CleanedPhase'
    BY <2>3 DEF DeleteStep, LoadForDelete, DeleteDataset, RowsOf, Item
  <2>4. ASSUME NEW w \in Workers, Take(w) PROVE WorkPhase' /\ CleanedPhase'
    BY <2>4 DEF Take
  <2>5. ASSUME NEW w \in Workers, BeginMissing(w) \/ UploadOutput(w) \/ CommitGone(w) \/ GiveUp(w)
        PROVE  WorkPhase' /\ CleanedPhase'
    BY <2>5 DEF BeginMissing, UploadOutput, CommitGone, GiveUp
  <2>6. ASSUME NEW w \in Workers, Begin(w) PROVE WorkPhase' /\ CleanedPhase'
    BY <2>6 DEF Begin, Item
  <2>7. ASSUME NEW w \in Workers, CommitDone(w) PROVE WorkPhase' /\ CleanedPhase'
    BY <2>7 DEF CommitDone, Item
  <2>8. ASSUME NEW w \in Workers, FailJob(w) PROVE WorkPhase' /\ CleanedPhase'
    BY <2>8 DEF FailJob, Item
  <2>9. ASSUME NEW w \in Workers, SoftTimeout(w) PROVE WorkPhase' /\ CleanedPhase'
    BY <2>9 DEF SoftTimeout, Item
  <2>10. ASSUME NEW w \in Workers, Retry(w) PROVE WorkPhase' /\ CleanedPhase'
    BY <2>10 DEF Retry
  <2>11. ASSUME NEW w \in Workers, Ack(w) \/ Die(w) PROVE WorkPhase' /\ CleanedPhase'
    BY <2>11 DEF Ack, Die, Release
  <2>12. ASSUME NEW c \in Cleaners, CleanerStep(c) \/ CleanerCrash(c) PROVE WorkPhase' /\ CleanedPhase'
    <3>1. CASE SelectExpired(c)
      BY <3>1 DEF SelectExpired, Expired, Item
    <3>2. CASE DeleteOutput(c)
      BY <3>2 DEF DeleteOutput, Item
    <3>3. CASE CommitCleared(c)
      BY <3>3 DEF CommitCleared
    <3>4. CASE CleanerCrash(c)
      BY <3>4 DEF CleanerCrash
    <3> QED
      BY <2>12, <3>1, <3>2, <3>3, <3>4 DEF CleanerStep
  <2>13. CASE UNCHANGED vars
    BY <2>13 DEF vars
  <2> QED
    BY <2>1, <2>2, <2>3, <2>4, <2>5, <2>6, <2>7, <2>8, <2>9, <2>10, <2>11, <2>12, <2>13
    DEF Next, TaskStep
<1> QED
  BY <1>1, <1>2, TypeCorrect, RowShapeInvariant, ExecutionInvariant, PTL DEF Spec

(* A job the client has seen done stays done until its row is deleted:     *)
(* without a crash, whoever could set the row running or failed again      *)
(* holds a message of a job that is not done, and only the soft limit      *)
(* strikes a task that has committed.                                      *)
THEOREM DoneStaysDone == Spec => DoneIsFinal
<1>1. TypeOK /\ RowShape /\ PhaseInv /\ [Next]_vars
        => [\A j \in Jobs : status[j] = "done" /\ faults'["crash"] = 0 /\ faults'["soft"] = 0
                             => status'[j] \in {"done", "deleted"}]_vars
  <2> SUFFICES ASSUME TypeOK, RowShape, PhaseInv, [Next]_vars, NEW j \in Jobs,
                      status[j] = "done", faults'["crash"] = 0, faults'["soft"] = 0
               PROVE  status'[j] \in {"done", "deleted"}
    OBVIOUS
  <2>0. WorkPhase
    BY NoCrashBefore DEF PhaseInv
  <2> USE MessageFields DEF TypeOK, row, JobAt, HasRow
  <2>1. ASSUME UNCHANGED status PROVE status'[j] \in {"done", "deleted"}
    BY <2>1
  <2>2. ASSUME NEW i \in Jobs, RequestStep(i) \/ Lapse(i) PROVE status'[j] \in {"done", "deleted"}
    BY <2>2 DEF RequestStep, CheckDataset, CommitJob, RequestFails, Enqueue, EnqueueLost, Lapse, RowShape
  <2>3. ASSUME NEW d \in Datasets, DeleteStep(d) PROVE status'[j] \in {"done", "deleted"}
    BY <2>3 DEF DeleteStep, LoadForDelete, DeleteDataset
  <2>4. ASSUME NEW w \in Workers, Begin(w) PROVE status'[j] \in {"done", "deleted"}
    BY <2>0, <2>4 DEF Begin, WorkPhase
  <2>5. ASSUME NEW w \in Workers, CommitDone(w) PROVE status'[j] \in {"done", "deleted"}
    BY <2>5 DEF CommitDone
  <2>6. ASSUME NEW w \in Workers, FailJob(w) PROVE status'[j] \in {"done", "deleted"}
    BY <2>0, <2>6 DEF FailJob, WorkPhase
  <2>7. ASSUME NEW w \in Workers, SoftTimeout(w) PROVE FALSE
    BY <2>7, FaultCounts DEF SoftTimeout, FaultKinds
  <2>8. ASSUME NEW w \in Workers, TaskStep(w) \/ Die(w) \/ Crash(w)
        PROVE  status'[j] \in {"done", "deleted"}
    BY <2>1, <2>4, <2>5, <2>6, <2>7, <2>8
    DEF TaskStep, Take, BeginMissing, UploadOutput, CommitGone, Retry, GiveUp, Ack, Die, Crash
  <2>9. ASSUME NEW c \in Cleaners, CleanerStep(c) \/ CleanerCrash(c)
        PROVE  status'[j] \in {"done", "deleted"}
    BY <2>1, <2>9 DEF CleanerStep, SelectExpired, DeleteOutput, CommitCleared, CleanerCrash
  <2>10. CASE UNCHANGED vars
    BY <2>1, <2>10 DEF vars
  <2> QED
    BY <2>2, <2>3, <2>8, <2>9, <2>10 DEF Next
<1> QED
  BY <1>1, TypeCorrect, RowShapeInvariant, PhaseInvariant, PTL DEF Spec, DoneIsFinal

-----------------------------------------------------------------------------
(* Orphans.  A worker knows a key only between the upload and the commit;  *)
(* and while nothing fails, a row selected by a cleanup keeps its key, and *)
(* the object of a row the cleanup is about to clear is gone already.      *)

UploadPending == \A w \in Workers : upload[w] # NoKey => pc[w] = "uploaded"

NoFault   == \A f \in FaultKinds : faults[f] = 0
NoneTaken == \A j \in Jobs : status[j] # "deleted"

Reclaiming ==
  /\ \A c \in Cleaners : \A i \in todo[c] : outKey[i.job] \in {i.key, NoKey}
  /\ \A c \in Cleaners : \A j \in cleared[c] : outKey[j] # NoKey => object[outKey[j]] = "deleted"

KnownOf(k) == (\E j \in Jobs : outKey[j] = k) \/ (\E w \in Workers : upload[w] = k)
AllKnown   == \A k \in Keys : object[k] = "stored" => KnownOf(k)
OrphanInv  == NoFault => Reclaiming /\ (NoneTaken => AllKnown)

(* The upload's key is in hand only until the task commits or gives up.    *)
LEMMA UploadPendingInvariant == Spec => []UploadPending
<1>1. Init => UploadPending
  BY DEF Init, UploadPending
<1>2. TypeOK /\ UploadPending /\ [Next]_vars => UploadPending'
  <2> SUFFICES ASSUME TypeOK, UploadPending, [Next]_vars PROVE UploadPending'
    OBVIOUS
  <2> USE DEF UploadPending, TypeOK, worker, Goto
  <2>1. ASSUME NEW j \in Jobs, RequestStep(j) \/ Lapse(j) PROVE UploadPending'
    BY <2>1 DEF RequestStep, CheckDataset, CommitJob, RequestFails, Enqueue, EnqueueLost, Lapse
  <2>2. ASSUME NEW d \in Datasets, DeleteStep(d) PROVE UploadPending'
    BY <2>2 DEF DeleteStep, LoadForDelete, DeleteDataset
  <2>3. ASSUME NEW w \in Workers, Take(w) \/ BeginMissing(w) \/ Begin(w) \/ UploadOutput(w)
        PROVE  UploadPending'
    BY <2>3 DEF Take, BeginMissing, Begin, UploadOutput
  <2>4. ASSUME NEW w \in Workers, CommitDone(w) \/ CommitGone(w) \/ FailJob(w) \/ SoftTimeout(w)
        PROVE  UploadPending'
    BY <2>4 DEF CommitDone, CommitGone, FailJob, SoftTimeout
  <2>5. ASSUME NEW w \in Workers, Retry(w) \/ GiveUp(w) \/ Ack(w) \/ Die(w) \/ Crash(w)
        PROVE  UploadPending'
    BY <2>5 DEF Retry, GiveUp, Ack, Die, Crash, Release
  <2>6. ASSUME NEW c \in Cleaners, CleanerStep(c) \/ CleanerCrash(c) PROVE UploadPending'
    BY <2>6 DEF CleanerStep, SelectExpired, DeleteOutput, CommitCleared, CleanerCrash
  <2>7. CASE UNCHANGED vars
    BY <2>7 DEF vars
  <2> QED
    BY <2>1, <2>2, <2>3, <2>4, <2>5, <2>6, <2>7 DEF Next, TaskStep
<1> QED
  BY <1>1, <1>2, TypeCorrect, PTL DEF Spec

(* A state without faults comes from one without faults, by a step that is *)
(* no fault.                                                               *)
LEMMA NoFaultBefore ==
  ASSUME TypeOK, [Next]_vars, NoFault'
  PROVE  /\ NoFault /\ UNCHANGED faults
         /\ \A f \in FaultKinds : ~Fault(f)
         /\ \A w \in Workers : ~SoftTimeout(w) /\ ~Die(w) /\ ~Crash(w)
         /\ \A c \in Cleaners : ~CleanerCrash(c)
<1>1. UNCHANGED faults \/ \E f \in FaultKinds : Fault(f)
  BY DEF vars, Next, RequestStep, CheckDataset, CommitJob, RequestFails, Enqueue, EnqueueLost,
         Lapse, DeleteStep, LoadForDelete, DeleteDataset, TaskStep, Take, BeginMissing, Begin,
         UploadOutput, CommitDone, CommitGone, FailJob, SoftTimeout, Retry, GiveUp, Ack, Die, Crash,
         CleanerStep, SelectExpired, DeleteOutput, CommitCleared, CleanerCrash, FaultKinds
<1>2. \A f \in FaultKinds : ~Fault(f)
  BY FaultCounts DEF TypeOK, NoFault
<1>3. UNCHANGED faults /\ NoFault
  BY <1>1, <1>2 DEF NoFault
<1> QED
  BY <1>2, <1>3 DEF SoftTimeout, Die, Crash, CleanerCrash, FaultKinds

(* A row that was taken stays taken; a step after which none is taken      *)
(* takes no key from a row by deleting it.                                 *)
LEMMA NoneTakenBefore ==
  ASSUME TypeOK, RowShape, [Next]_vars, NoneTaken'
  PROVE  NoneTaken /\ \A d \in Datasets : DeleteDataset(d) => UNCHANGED outKey
<1> DEFINE Stays(j) == status[j] = "deleted" => status'[j] = "deleted"
<1> SUFFICES ASSUME NEW j \in Jobs PROVE Stays(j)
  BY DEF NoneTaken, DeleteDataset, RowsOf, TypeOK
<1> USE MessageFields DEF TypeOK, row, JobAt, HasRow
<1>1. ASSUME NEW i \in Jobs, RequestStep(i) \/ Lapse(i) PROVE Stays(j)
  BY <1>1 DEF RequestStep, CheckDataset, CommitJob, RequestFails, Enqueue, EnqueueLost, Lapse, RowShape
<1>2. ASSUME NEW d \in Datasets, DeleteStep(d) PROVE Stays(j)
  BY <1>2 DEF DeleteStep, LoadForDelete, DeleteDataset
<1>3. ASSUME NEW w \in Workers, TaskStep(w) \/ Die(w) \/ Crash(w) PROVE Stays(j)
  BY <1>3 DEF TaskStep, Take, BeginMissing, Begin, UploadOutput, CommitDone, CommitGone, FailJob,
              SoftTimeout, Retry, GiveUp, Ack, Die, Crash
<1>4. ASSUME NEW c \in Cleaners, CleanerStep(c) \/ CleanerCrash(c) PROVE Stays(j)
  BY <1>4 DEF CleanerStep, SelectExpired, DeleteOutput, CommitCleared, CleanerCrash
<1>5. CASE UNCHANGED vars
  BY <1>5 DEF vars
<1> QED
  BY <1>1, <1>2, <1>3, <1>4, <1>5 DEF Next

(* Without faults, and with no dataset deleted under its jobs, S3 holds    *)
(* no output that nobody knows of: an upload is committed to a row without *)
(* output, and a cleanup forgets a key only after its object.              *)
THEOREM NoOutputOrphaned == Spec => []NoOrphanWithoutFault
<1>1. Init => OrphanInv
  BY DEF Init, OrphanInv, Reclaiming, AllKnown
<1>2. TypeOK /\ RowShape /\ OutputInv /\ PhaseInv /\ UploadPending /\ OrphanInv /\ [Next]_vars
        => OrphanInv'
  <2> DEFINE Kept == Reclaiming' /\ (NoneTaken' => AllKnown')
  <2> SUFFICES ASSUME TypeOK, RowShape, OutputInv, PhaseInv, UploadPending, OrphanInv,
                      [Next]_vars, NoFault'
               PROVE  Kept
    BY DEF OrphanInv
  <2>0. /\ NoFault /\ UNCHANGED faults /\ Reclaiming /\ WorkPhase /\ CleanedPhase
        /\ \A f \in FaultKinds : ~Fault(f)
        /\ \A w \in Workers : ~SoftTimeout(w) /\ ~Die(w) /\ ~Crash(w)
        /\ \A c \in Cleaners : ~CleanerCrash(c)
    BY NoFaultBefore DEF OrphanInv, PhaseInv, NoFault, FaultKinds
  <2>1. NoneTaken' => /\ NoneTaken /\ AllKnown
                      /\ \A d \in Datasets : DeleteDataset(d) => UNCHANGED outKey
    BY <2>0, NoneTakenBefore DEF OrphanInv
  <2> USE <2>0, <2>1, KeyAssumption, MessageFields
      DEF Reclaiming, AllKnown, KnownOf, TypeOK, row, store, worker, clean, Goto, JobAt, HasRow, Item
  <2>2. ASSUME UNCHANGED <<outKey, upload, object, todo, cleared>> PROVE Kept
    BY <2>2
  <2>3. ASSUME NEW j \in Jobs, RequestStep(j) \/ Lapse(j) PROVE Kept
    BY <2>2, <2>3 DEF RequestStep, CheckDataset, CommitJob, RequestFails, Enqueue, EnqueueLost, Lapse
  <2>4. ASSUME NEW d \in Datasets, LoadForDelete(d) PROVE Kept
    BY <2>2, <2>4 DEF LoadForDelete
  <2>5. ASSUME NEW d \in Datasets, DeleteDataset(d) PROVE Kept
    <3>1. /\ \A j \in Jobs : outKey'[j] \in {outKey[j], NoKey}
          /\ UNCHANGED <<upload, object, todo, cleared>>
      BY <2>5 DEF DeleteDataset
    <3>2. Reclaiming'
      BY <3>1
    <3>3. NoneTaken' => AllKnown'
      BY <2>2, <2>5, <3>1
    <3> QED
      BY <3>2, <3>3
  <2>6. ASSUME NEW w \in Workers,
               Take(w) \/ BeginMissing(w) \/ Begin(w) \/ FailJob(w) \/ Retry(w) \/ GiveUp(w)
        PROVE  Kept
    BY <2>2, <2>6 DEF Take, BeginMissing, Begin, FailJob, Retry, GiveUp
  <2>7. ASSUME NEW w \in Workers, UploadOutput(w) PROVE Kept
    <3>1. PICK k \in Keys : /\ object[k] = "unused"
                            /\ object' = [object EXCEPT ![k] = "stored"]
                            /\ upload' = [upload EXCEPT ![w] = k]
      BY <2>7 DEF UploadOutput
    <3>2. upload[w] = NoKey
      BY <2>7 DEF UploadOutput, UploadPending
    <3>3. UNCHANGED <<outKey, todo, cleared>>
      BY <2>7 DEF UploadOutput
    <3>4. Reclaiming'
      BY <3>1, <3>3
    <3>5. NoneTaken' => AllKnown'
      BY <3>1, <3>2, <3>3
    <3> QED
      BY <3>4, <3>5
  <2>8. ASSUME NEW w \in Workers, CommitDone(w) PROVE Kept
    <3>1. JobAt(w) \in Jobs /\ Fresh(JobAt(w)) /\ status[JobAt(w)] = "running"
      BY <2>8 DEF CommitDone, WorkPhase
    <3>2. /\ outKey' = [outKey EXCEPT ![JobAt(w)] = upload[w]]
          /\ upload' = [upload EXCEPT ![w] = NoKey]
          /\ UNCHANGED <<object, todo, cleared>>
      BY <2>8 DEF CommitDone
    <3>3. /\ \A c \in Cleaners : \A i \in todo[c] : i.job # JobAt(w)
          /\ \A c \in Cleaners : JobAt(w) \notin cleared[c]
      BY <3>1 DEF CleanedPhase, Fresh
    <3>4. Reclaiming'
      BY <3>1, <3>2, <3>3
    <3>5. NoneTaken' => AllKnown'
      BY <3>1, <3>2 DEF Fresh
    <3> QED
      BY <3>4, <3>5
  <2>9. ASSUME NEW w \in Workers, CommitGone(w) PROVE Kept
    <3>1. JobAt(w) \in Jobs /\ status[JobAt(w)] = "deleted"
      BY <2>9 DEF CommitGone, WorkPhase
    <3>2. ~NoneTaken'
      BY <2>9, <3>1 DEF CommitGone, NoneTaken
    <3> QED
      BY <2>9, <3>2 DEF CommitGone
  <2>10. ASSUME NEW w \in Workers, Ack(w) PROVE Kept
    <3>1. upload[w] = NoKey
      BY <2>10 DEF Ack, UploadPending
    <3>2. UNCHANGED <<outKey, upload, object, todo, cleared>>
      BY <2>10, <3>1 DEF Ack, Release
    <3> QED
      BY <2>2, <3>2
  <2>11. ASSUME NEW c \in Cleaners, SelectExpired(c) PROVE Kept
    BY <2>11 DEF SelectExpired, Expired
  <2>12. ASSUME NEW c \in Cleaners, DeleteOutput(c) PROVE Kept
    <3>1. PICK i \in todo[c] : /\ object' = [object EXCEPT ![i.key] = "deleted"]
                               /\ todo' = [todo EXCEPT ![c] = @ \ {i}]
                               /\ cleared' = [cleared EXCEPT ![c] = @ \cup {i.job}]
      BY <2>12 DEF DeleteOutput, FaultKinds
    <3>2. UNCHANGED <<outKey, upload>> /\ i.job \in Jobs /\ i.key \in Keys
      BY <2>12, <3>1 DEF DeleteOutput
    <3>3. Reclaiming'
      BY <3>1, <3>2
    <3>4. AllKnown => AllKnown'
      BY <3>1, <3>2
    <3> QED
      BY <3>3, <3>4
  <2>13. ASSUME NEW c \in Cleaners, CommitCleared(c) PROVE Kept
    <3>1. /\ \A j \in Jobs : outKey'[j] = outKey[j] \/ (j \in cleared[c] /\ outKey'[j] = NoKey)
          /\ \A b \in Cleaners : cleared'[b] \subseteq cleared[b]
          /\ UNCHANGED <<upload, object, todo>>
      BY <2>13 DEF CommitCleared
    <3>2. Reclaiming'
      BY <3>1
    <3>3. AllKnown => AllKnown'
      BY <3>1
    <3> QED
      BY <3>2, <3>3
  <2>14. CASE UNCHANGED vars
    BY <2>2, <2>14 DEF vars
  <2> QED
    BY <2>3, <2>4, <2>5, <2>6, <2>7, <2>8, <2>9, <2>10, <2>11, <2>12, <2>13, <2>14
    DEF Next, DeleteStep, TaskStep, CleanerStep
<1>3. OrphanInv => NoOrphanWithoutFault
  BY DEF OrphanInv, NoOrphanWithoutFault, NoFault, NoneTaken, AllKnown, KnownOf
<1> QED
  BY <1>1, <1>2, <1>3, TypeCorrect, OutputInvariant, RowShapeInvariant, PhaseInvariant,
     UploadPendingInvariant, PTL DEF Spec

-----------------------------------------------------------------------------
(* The pipeline implements the client's contract, crashes included: every  *)
(* step is one the contract allows or one the client cannot observe.       *)
THEOREM PipelineImplementsContract == Spec => ImplementsContract
<1> USE KeyAssumption
<1>1. Init => Contract!Init
  BY DEF Init, Contract!Init, Output, FaultKinds
<1>2. TypeOK /\ TypeOK' /\ RowShape /\ RowShape' /\ ExecutionInv /\ PhaseInv /\ [Next]_vars
        => [Contract!Next]_(Contract!vars)
  <2> SUFFICES ASSUME TypeOK, TypeOK', RowShape, RowShape', ExecutionInv, PhaseInv, [Next]_vars
               PROVE  Contract!Next \/ UNCHANGED Contract!vars
    OBVIOUS
  <2>0. /\ faults["crash"] \in Nat
        /\ ~(faults["crash"] > 0) => OneDelivery /\ ExecutionsCounted /\ WorkPhase /\ CleanedPhase
    BY DEF TypeOK, FaultKinds, ExecutionInv, PhaseInv
  <2> DEFINE outputs == [j \in Jobs |-> Output(j)]
  <2> USE DEF TypeOK, row, store, worker, clean, Goto, JobAt, HasRow
  <2>1. ASSUME UNCHANGED <<status, outKey, expires, executions>>,
               faults'["crash"] = faults["crash"]
        PROVE  UNCHANGED Contract!vars
    BY <2>1 DEF Contract!vars, Output
  <2>2. ASSUME NEW f \in FaultKinds, f # "crash", Fault(f)
        PROVE  faults'["crash"] = faults["crash"]
    BY <2>2, FaultCounts DEF FaultKinds
  <2>3. ASSUME NEW j \in Jobs, RequestStep(j) PROVE Contract!Next \/ UNCHANGED Contract!vars
    <3>1. CASE CheckDataset(j) \/ RequestFails(j) \/ Enqueue(j)
      BY <2>1, <3>1 DEF CheckDataset, RequestFails, Enqueue
    <3>2. CASE EnqueueLost(j)
      BY <2>1, <2>2, <3>2 DEF EnqueueLost, FaultKinds
    <3>3. CASE CommitJob(j)
      <4>1. Contract!Submit(j)
        BY <3>3 DEF CommitJob, Contract!Submit, RowShape, Output
      <4> QED
        BY <4>1 DEF Contract!Next
    <3> QED
      BY <2>3, <3>1, <3>2, <3>3 DEF RequestStep
  <2>4. ASSUME NEW j \in Jobs, Lapse(j) PROVE Contract!Next \/ UNCHANGED Contract!vars
    <3>1. CASE outKey[j] = NoKey
      <4>1. \A i \in Jobs : Output(i)' = Output(i)
        BY <2>4, <3>1 DEF Lapse, Output
      <4> QED
        BY <2>4, <4>1 DEF Lapse, Contract!vars
    <3>2. CASE outKey[j] # NoKey
      <4>1. Output(j) = "live" /\ \A i \in Jobs : Output(i)' = IF i = j THEN "expired" ELSE Output(i)
        BY <2>4, <3>2 DEF Lapse, Output
      <4>2. outputs' = [outputs EXCEPT ![j] = "expired"]
        BY <4>1 DEF outputs
      <4>3. UNCHANGED <<status, executions>> /\ UNCHANGED (faults["crash"] > 0)
        BY <2>4 DEF Lapse
      <4>4. Contract!Expire(j)
        BY <4>1, <4>2, <4>3 DEF Contract!Expire, outputs
      <4> QED
        BY <4>4 DEF Contract!Next
    <3> QED
      BY <3>1, <3>2
  <2>5. ASSUME NEW d \in Datasets, LoadForDelete(d) PROVE UNCHANGED Contract!vars
    BY <2>1, <2>5 DEF LoadForDelete
  <2>6. ASSUME NEW d \in Datasets, DeleteDataset(d) PROVE Contract!Next
    <3>1. RowsOf(d) \in SUBSET Jobs /\ \A j \in RowsOf(d) : Contract!Live(j)
      BY DEF RowsOf, Contract!Live
    <3>2. \A j \in Jobs : Output(j)' = IF j \in RowsOf(d) THEN "none" ELSE Output(j)
      BY <2>6 DEF DeleteDataset, Output
    <3>3. outputs' = [j \in Jobs |-> IF j \in RowsOf(d) THEN "none" ELSE outputs[j]]
      BY <3>2 DEF outputs
    <3>4. /\ status' = [j \in Jobs |-> IF j \in RowsOf(d) THEN "deleted" ELSE status[j]]
          /\ UNCHANGED executions /\ UNCHANGED (faults["crash"] > 0)
      BY <2>6 DEF DeleteDataset
    <3> HIDE DEF TypeOK
    <3>5. Contract!Delete
      BY <3>1, <3>3, <3>4, Zenon DEF Contract!Delete, outputs
    <3> QED
      BY <3>5 DEF Contract!Next
  <2>7. ASSUME NEW w \in Workers,
               Take(w) \/ BeginMissing(w) \/ UploadOutput(w) \/ CommitGone(w) \/ Retry(w)
                 \/ GiveUp(w) \/ Ack(w)
        PROVE  UNCHANGED Contract!vars
    BY <2>1, <2>7 DEF Take, BeginMissing, UploadOutput, CommitGone, Retry, GiveUp, Ack
  <2>8. ASSUME NEW w \in Workers, pc[w] # "idle" PROVE msg[w] \in Messages /\ JobAt(w) \in Jobs
    BY <2>8, MessageFields
  <2>9. ASSUME NEW w \in Workers, Begin(w) PROVE Contract!Next
    <3>1. JobAt(w) \in Jobs /\ msg[w].retries \in 0..MaxRetries
      BY <2>8, <2>9, MessageFields DEF Begin
    <3>2. ~(faults["crash"] > 0) =>
            status[JobAt(w)] \in {"queued", "failed"} /\ executions[JobAt(w)] < MaxRetries + 1
      BY <2>0, <2>9, <3>1, RetryAssumption DEF Begin, WorkPhase, ExecutionsCounted
    <3>3. Contract!Start(JobAt(w))
      BY <2>9, <3>1, <3>2 DEF Begin, Contract!Start, Contract!Live, Output
    <3> QED
      BY <3>1, <3>3 DEF Contract!Next
  <2>10. ASSUME NEW w \in Workers, CommitDone(w) PROVE Contract!Next
    <3>1. JobAt(w) \in Jobs /\ upload[w] # NoKey
      BY <2>8, <2>10 DEF CommitDone, RowShape
    <3>2. ~(faults["crash"] > 0) => status[JobAt(w)] = "running" /\ Output(JobAt(w)) = "none"
      BY <2>0, <2>10, <3>1 DEF CommitDone, WorkPhase, Fresh, Output
    <3>3. \A j \in Jobs : Output(j)' = IF j = JobAt(w) THEN "live" ELSE Output(j)
      BY <2>10, <3>1 DEF CommitDone, Output
    <3>4. Contract!Finish(JobAt(w))
      BY <2>10, <3>1, <3>2, <3>3 DEF CommitDone, Contract!Finish, Contract!Live
    <3> QED
      BY <3>1, <3>4 DEF Contract!Next
  <2>11. ASSUME NEW w \in Workers, FailJob(w) \/ SoftTimeout(w) PROVE Contract!Next
    <3>1. JobAt(w) \in Jobs
      BY <2>8, <2>11 DEF FailJob, SoftTimeout
    <3>2. ~(faults["crash"] > 0) => status[JobAt(w)] \in {"running", "done"}
      BY <2>0, <2>11, <3>1 DEF FailJob, SoftTimeout, WorkPhase
    <3>3. faults'["crash"] = faults["crash"]
      BY <2>2, <2>11 DEF FailJob, SoftTimeout, FaultKinds
    <3>4. Contract!Fail(JobAt(w))
      BY <2>11, <3>1, <3>2, <3>3 DEF FailJob, SoftTimeout, Contract!Fail, Contract!Live, Output
    <3> QED
      BY <3>1, <3>4 DEF Contract!Next
  <2>12. ASSUME NEW w \in Workers, Die(w) PROVE UNCHANGED Contract!vars
    BY <2>1, <2>2, <2>12 DEF Die, FaultKinds
  <2>13. ASSUME NEW w \in Workers, Crash(w) PROVE Contract!Next
    <3>1. faults'["crash"] > 0
      BY <2>0, <2>13, FaultCounts DEF Crash, FaultKinds
    <3>2. Contract!WorkerLost
      BY <2>13, <3>1 DEF Crash, Contract!WorkerLost, Output
    <3> QED
      BY <3>2 DEF Contract!Next
  <2>14. ASSUME NEW c \in Cleaners, SelectExpired(c) PROVE UNCHANGED Contract!vars
    BY <2>1, <2>14 DEF SelectExpired
  <2>15. ASSUME NEW c \in Cleaners, DeleteOutput(c) \/ CleanerCrash(c) PROVE UNCHANGED Contract!vars
    BY <2>1, <2>2, <2>15 DEF DeleteOutput, CleanerCrash, FaultKinds
  <2>16. ASSUME NEW c \in Cleaners, CommitCleared(c) PROVE Contract!Next
    <3> DEFINE S == {j \in Jobs : outKey'[j] # outKey[j]}
    <3>1. \A j \in S : j \in cleared[c] /\ HasRow(j) /\ outKey[j] # NoKey /\ outKey'[j] = NoKey
      BY <2>16 DEF CommitCleared
    <3>2. \A j \in S : expires[j] # "null" /\ expires'[j] = expires[j]
      BY <2>16, <3>1 DEF CommitCleared, RowShape
    <3>3. \A j \in S : ~(faults["crash"] > 0) => expires[j] = "past"
      BY <2>0, <3>1 DEF CleanedPhase
    <3>4. \A j \in S : Output(j) = "expired" \/ (faults["crash"] > 0 /\ Output(j) = "live")
      BY <3>1, <3>2, <3>3 DEF Output
    <3>5. \A j \in Jobs : Output(j)' = IF j \in S THEN "removed" ELSE Output(j)
      BY <2>16, <3>1, <3>2 DEF CommitCleared, Output
    <3> HIDE DEF S
    <3>6. outputs' = [j \in Jobs |-> IF j \in S THEN "removed" ELSE outputs[j]]
      BY <3>5 DEF outputs
    <3>7. UNCHANGED <<status, executions>> /\ UNCHANGED (faults["crash"] > 0)
      BY <2>16 DEF CommitCleared
    <3>8. \A j \in S : outputs[j] = "expired" \/ (faults["crash"] > 0 /\ outputs[j] = "live")
      BY <3>4 DEF S, outputs
    <3>9. S \in SUBSET Jobs
      BY DEF S
    <3> HIDE DEF TypeOK
    <3>10. Contract!Reclaim
      BY <3>6, <3>7, <3>8, <3>9, Zenon DEF Contract!Reclaim, outputs
    <3> QED
      BY <3>10 DEF Contract!Next
  <2>17. CASE UNCHANGED vars
    BY <2>1, <2>17 DEF vars
  <2> QED
    BY <2>3, <2>4, <2>5, <2>6, <2>7, <2>9, <2>10, <2>11, <2>12, <2>13, <2>14, <2>15, <2>16, <2>17
    DEF Next, DeleteStep, TaskStep, CleanerStep
<1> QED
  BY <1>1, <1>2, TypeCorrect, RowShapeInvariant, ExecutionInvariant, PhaseInvariant, PTL
  DEF Spec, ImplementsContract, Contract!Spec
=============================================================================
