----------------------------- MODULE Workspace -----------------------------
(***************************************************************************)
(* A user's datasets and jobs as the web application shows them: the       *)
(* ingestion and generation endpoints (app/main.py, app/routes/samples,    *)
(* database, multi_table, dbt, dashboard), the upload and results pages    *)
(* (frontend/app/page.tsx, frontend/app/jobs), and between them the        *)
(* pipeline, of which only the promise of JobContract is used.             *)
(*                                                                         *)
(* A request is stepped through its commits, S3 calls and publishes; the   *)
(* browser sees only replies, and may lose one.  Workers do not crash and  *)
(* outputs do not expire here (JobLifecycle treats both).  Fresh uuid4s    *)
(* are taken in a fixed order: they are interchangeable.                   *)
(***************************************************************************)
EXTENDS Naturals, FiniteSets

CONSTANTS
  Requests,     \* request slots; one whose reply nobody takes stays used
  Datasets, Keys, Jobs,  \* row ids and S3 keys (uuid4, never reused)
  NoDataset, NoKey, NoJob, NoRequest, Idle, Gone,
  ApiOps,       \* what API clients ask for beside the browser
  MaxAttempts,  \* executions of one job
  MaxLosses,    \* bound: replies the browser does not get
  MaxDeletes    \* bound: datasets deleted

Ingestions == {"upload", "sample", "database", "multi", "dbt"}
ASSUME ApiAssumption == ApiOps \subseteq Ingestions \cup {"multi_generate"}

VARIABLES
  dataset,     \* datasets rows: state, source (mode) and s3_key
  deleting,    \* datasets a DELETE request has seen without jobs
  stored,      \* S3 input keys that exist
  request,     \* requests in progress or answered
  origin,      \* generation_jobs.dataset_id, kept after the row is gone
  multi,       \* jobs for the multi-table task; the others are single-table
  published,   \* jobs whose Celery message has been published
  usage,       \* usage_events of type "generation"
  lost,        \* requests that stopped between the S3 put and the commit
  page,        \* what the browser tab shows
  told,        \* jobs a reply has told the browser of
  losses,      \* replies the browser did not get
  phase, output, attempt, crashed   \* the pipeline, as JobContract has it

server   == <<dataset, deleting, stored, request, origin, multi, published, usage, lost>>
browser  == <<page, told, losses>>
pipeline == <<phase, output, attempt, crashed>>
vars     == <<server, browser, pipeline>>

Pipeline == INSTANCE JobContract

Row     == [state : {"absent", "present", "deleted"}, source : Ingestions \cup {"none"},
            key : Keys \cup {NoKey}]
Request == [op : Ingestions \cup {"generate", "multi_generate"},
            step : {"checking", "stored", "committed", "ok", "error"},
            dataset : Datasets \cup {NoDataset}, key : Keys \cup {NoKey}, job : Jobs \cup {NoJob}]
Page    == [stage : {"idle", "uploading", "schema", "generating", "polling", "stopped"},
            request : Requests \cup {NoRequest}, dataset : Datasets \cup {NoDataset},
            job : Jobs \cup {NoJob},
            shown : {"nothing", "queued", "running", "done", "failed", "error"}, seen : Nat]

ASSUME NullAssumption ==
  /\ Idle \notin Request /\ Gone \notin Request
  /\ NoRequest \notin Requests /\ NoKey \notin Keys
ASSUME LossesAssumption == MaxLosses \in Nat

TypeOK ==
  /\ dataset \in [Datasets -> Row]
  /\ deleting \subseteq Datasets /\ stored \subseteq Keys
  /\ request \in [Requests -> Request \cup {Idle, Gone}]
  /\ origin \in [Jobs -> Datasets \cup {NoDataset}]
  /\ multi \subseteq Jobs /\ published \subseteq Jobs /\ told \subseteq Jobs
  /\ usage \in Nat /\ lost \in Nat /\ losses \in 0..MaxLosses
  /\ page \in Page

NewPage == [stage |-> "idle", request |-> NoRequest, dataset |-> NoDataset, job |-> NoJob,
            shown |-> "nothing", seen |-> 0]

Init ==
  /\ dataset = [d \in Datasets |-> [state |-> "absent", source |-> "none", key |-> NoKey]]
  /\ deleting = {} /\ stored = {} /\ request = [r \in Requests |-> Idle]
  /\ origin = [j \in Jobs |-> NoDataset] /\ multi = {} /\ published = {}
  /\ usage = 0 /\ lost = 0
  /\ page = NewPage /\ told = {} /\ losses = 0
  /\ Pipeline!Init

(* The next unused id, if there is one left in the bounded set.            *)
Fresh(S)   == IF S = {} THEN {} ELSE {CHOOSE x \in S : TRUE}
NewKey     == Fresh(Keys \ stored)
NewDataset == Fresh({d \in Datasets : dataset[d].state = "absent"})
NewJob     == Fresh({j \in Jobs : phase[j] = "absent"})

Present(d)     == d \in Datasets /\ dataset[d].state = "present"
JobsOf(d)      == {j \in Jobs : origin[j] = d /\ Pipeline!Live(j)}
At(r, step)    == request[r] \notin {Idle, Gone} /\ request[r].step = step
Ask(r, op, d)  == /\ r \in Fresh({q \in Requests : request[q] = Idle})
                  /\ request' = [request EXCEPT ![r] = [op |-> op, step |-> "checking",
                       dataset |-> d, key |-> NoKey, job |-> NoJob]]
AwaitedBy(r)   == page.request = r
(* The answer waits for the tab, or goes to somebody this model leaves out. *)
Answer(r, rec) == request' = [request EXCEPT ![r] = IF AwaitedBy(r) THEN rec ELSE Gone]

-----------------------------------------------------------------------------
(* An API client: any ingestion, or a multi-table generation.              *)
ApiCall(r) ==
  /\ \E op \in ApiOps :
       \E d \in IF op = "multi_generate" THEN {e \in Datasets : Present(e)} ELSE {NoDataset} :
         Ask(r, op, d)
  /\ UNCHANGED <<dataset, deleting, stored, origin, multi, published, usage, lost, browser, pipeline>>

(* The checks before anything is stored fail: tier, quota, size, syntax,   *)
(* empty table, row cap, unknown dataset, table, template or relationship, *)
(* a database that is down or whose table is gone by the second connection.*)
Refuse(r) ==
  /\ At(r, "checking")
  /\ Answer(r, [request[r] EXCEPT !.step = "error"])
  /\ UNCHANGED <<dataset, deleting, stored, origin, multi, published, usage, lost, browser, pipeline>>

(* upload_csv_bytes: the object is put under a fresh key.                  *)
StoreInput(r) ==
  /\ At(r, "checking") /\ request[r].op \in Ingestions \ {"dbt"}
  /\ \E k \in NewKey :
       /\ stored' = stored \cup {k}
       /\ request' = [request EXCEPT ![r].step = "stored", ![r].key = k]
  /\ UNCHANGED <<dataset, deleting, origin, multi, published, usage, lost, browser, pipeline>>

(* Mutation: the row is committed without waiting for the object.          *)
ReadyToCommitM(r) == At(r, "stored")
                     \/ (At(r, "checking") /\ request[r].op \in Ingestions \ {"dbt"})
ReadyToCommit(r)  == At(r, "stored")
(* Schema inference and PII scan done, the row is committed.               *)
CommitDataset(r) ==
  /\ ReadyToCommit(r)
  /\ \E d \in NewDataset :
       /\ dataset' = [dataset EXCEPT ![d] =
            [state |-> "present", source |-> request[r].op, key |-> request[r].key]]
       /\ Answer(r, [request[r] EXCEPT !.step = "ok", !.dataset = d])
  /\ UNCHANGED <<deleting, stored, origin, multi, published, usage, lost, browser, pipeline>>

(* The inference or the scan raises, the commit fails, or the API dies.    *)
LoseInput(r) ==
  /\ At(r, "stored")
  /\ Answer(r, [request[r] EXCEPT !.step = "error"])
  /\ lost' = lost + 1
  /\ UNCHANGED <<dataset, deleting, stored, origin, multi, published, usage, browser, pipeline>>

(* Mutation: the dbt endpoint records no usage event.                      *)
EventsM(op) == IF op = "dbt" THEN 0 ELSE 1
Events(op)  == 1

(* Job row and usage event in one commit; the dataset must still be there. *)
AddJob(r, d) ==
  \E j \in NewJob :
    /\ Pipeline!Submit(j)
    /\ origin' = [origin EXCEPT ![j] = d]
    /\ multi' = IF request[r].op = "multi_generate" THEN multi \cup {j} ELSE multi
    /\ usage' = usage + Events(request[r].op)
    /\ request' = [request EXCEPT ![r].step = "committed", ![r].dataset = d, ![r].job = j]

StartGeneration(r) ==
  /\ At(r, "checking") /\ request[r].op \in {"generate", "multi_generate"}
  /\ Present(request[r].dataset)
  /\ request[r].op = "multi_generate" => dataset[request[r].dataset].source = "multi"
  /\ AddJob(r, request[r].dataset)
  /\ UNCHANGED <<dataset, deleting, stored, published, lost, browser>>

(* dbt/generate: dataset, job and usage event in one commit; the s3_key is *)
(* a sentinel that names no object.                                        *)
DbtGenerate(r) ==
  /\ At(r, "checking") /\ request[r].op = "dbt"
  /\ \E d \in NewDataset :
       /\ dataset' = [dataset EXCEPT ![d] = [state |-> "present", source |-> "dbt", key |-> NoKey]]
       /\ AddJob(r, d)
  /\ UNCHANGED <<deleting, stored, published, lost, browser>>

(* .delay() after the commit; or the publish, or the refresh before it,    *)
(* fails and the job is never worked on.                                   *)
Publish(r) ==
  /\ At(r, "committed")
  /\ Answer(r, [request[r] EXCEPT !.step = "ok"])
  /\ published' = published \cup {request[r].job}
  /\ UNCHANGED <<dataset, deleting, stored, origin, multi, usage, lost, browser, pipeline>>

PublishFails(r) ==
  /\ At(r, "committed")
  /\ Answer(r, [request[r] EXCEPT !.step = "error"])
  /\ UNCHANGED <<dataset, deleting, stored, origin, multi, published, usage, lost, browser, pipeline>>

(* DELETE /api/dashboard/{id}: db.delete loads the dataset's jobs; if it   *)
(* finds some the flush is refused (NOT NULL) and nothing changes.  The    *)
(* row then goes with the jobs committed since; the input object stays.    *)
BeginDelete(d) ==
  /\ Present(d) /\ JobsOf(d) = {} /\ d \notin deleting
  /\ Cardinality(deleting \cup {e \in Datasets : dataset[e].state = "deleted"}) < MaxDeletes
  /\ deleting' = deleting \cup {d}
  /\ UNCHANGED <<dataset, stored, request, origin, multi, published, usage, lost,
                 browser, pipeline>>

DeleteDataset(d) ==
  /\ d \in deleting
  /\ deleting' = deleting \ {d}
  /\ dataset' = [dataset EXCEPT ![d].state = "deleted"]
  /\ phase' = [j \in Jobs |-> IF j \in JobsOf(d) THEN "deleted" ELSE phase[j]]
  /\ output' = [j \in Jobs |-> IF j \in JobsOf(d) THEN "none" ELSE output[j]]
  /\ UNCHANGED <<stored, request, origin, multi, published, usage, lost, browser,
                 attempt, crashed>>

-----------------------------------------------------------------------------
(* A worker can finish a job only if it can read the input as a CSV: a dbt *)
(* dataset has none, and multi-table input is a ZIP archive, whose own task *)
(* cannot finish either (it calls upload_csv_bytes, which is not imported). *)
Runnable(j) ==
  LET row == dataset[origin[j]] IN row.key \in stored /\ row.source # "multi"

Begin(j)  == j \in published /\ Pipeline!Start(j)  /\ UNCHANGED <<server, browser>>
Finish(j) == j \in published /\ Runnable(j) /\ Pipeline!Finish(j) /\ UNCHANGED <<server, browser>>
Fail(j)   == j \in published /\ Pipeline!Fail(j)   /\ UNCHANGED <<server, browser>>

-----------------------------------------------------------------------------
(* The tab: handleFile and handleGenerate send a request and wait.         *)
Send(r, op, d, stage) ==
  /\ Ask(r, op, d)
  /\ page' = [page EXCEPT !.stage = stage, !.request = r]
  /\ UNCHANGED <<dataset, deleting, stored, origin, multi, published, usage, lost,
                 told, losses, pipeline>>

ChooseFile(r)    == page.stage = "idle" /\ Send(r, "upload", NoDataset, "uploading")
ClickGenerate(r) == page.stage = "schema" /\ Send(r, "generate", page.dataset, "generating")

Waiting   == page.stage \in {"uploading", "generating"}
(* Mutation: an error stage that the page does not render.                 *)
BackM     == IF page.stage = "uploading" THEN "error" ELSE "schema"
Back      == IF page.stage = "uploading" THEN "idle" ELSE "schema"
Reply     == request[page.request]
TakeReply == request' = [request EXCEPT ![page.request] = Idle]

GetDataset ==
  /\ page.stage = "uploading" /\ At(page.request, "ok")
  /\ page' = [NewPage EXCEPT !.stage = "schema", !.dataset = Reply.dataset]
  /\ TakeReply
  /\ UNCHANGED <<dataset, deleting, stored, origin, multi, published, usage, lost,
                 told, losses, pipeline>>

(* router.push to the results page, whose first poll follows.              *)
GetJob ==
  /\ page.stage = "generating" /\ At(page.request, "ok")
  /\ page' = [NewPage EXCEPT !.stage = "polling", !.job = Reply.job]
  /\ told' = told \cup {Reply.job}
  /\ TakeReply
  /\ UNCHANGED <<dataset, deleting, stored, origin, multi, published, usage, lost,
                 losses, pipeline>>

GetError ==
  /\ Waiting /\ At(page.request, "error")
  /\ page' = [page EXCEPT !.stage = Back, !.request = NoRequest]
  /\ TakeReply
  /\ UNCHANGED <<dataset, deleting, stored, origin, multi, published, usage, lost,
                 told, losses, pipeline>>

(* "network error. Please try again": the server knows nothing of it.      *)
LoseReply ==
  /\ Waiting /\ losses < MaxLosses
  /\ page' = [page EXCEPT !.stage = Back, !.request = NoRequest]
  /\ losses' = losses + 1
  /\ request' = [request EXCEPT ![page.request] =
                   IF At(page.request, "ok") \/ At(page.request, "error") THEN Gone ELSE @]
  /\ UNCHANGED <<dataset, deleting, stored, origin, multi, published, usage, lost,
                 told, pipeline>>

(* Mutation: only a done job stops the polling.                            *)
DoneOnly(s)  == s \in {"done", "error"}
(* Mutation: anything but a queued job stops the polling.                  *)
NotQueued(s) == s # "queued"
Final(s)     == s \in {"done", "failed", "error"}

(* One poll of GET /api/jobs/{id}: an ApiError (the job is gone) ends the  *)
(* polling as done and failed do; a network error changes nothing.         *)
Poll ==
  /\ page.stage = "polling"
  /\ LET s == IF Pipeline!Live(page.job) THEN phase[page.job] ELSE "error" IN
       page' = [page EXCEPT !.shown = s, !.seen = attempt[page.job],
                            !.stage = IF Final(s) THEN "stopped" ELSE "polling"]
  /\ UNCHANGED <<server, told, losses, pipeline>>

(* The 15-minute access token has expired, and nothing in the frontend     *)
(* calls /api/auth/refresh: the poll is answered with an ApiError.         *)
PollRefused ==
  /\ page.stage = "polling"
  /\ page' = [page EXCEPT !.shown = "error", !.stage = "stopped"]
  /\ UNCHANGED <<server, told, losses, pipeline>>

(* The results URL is opened again; or the user starts over.               *)
Reload  == /\ page.stage = "stopped"
           /\ page' = [page EXCEPT !.stage = "polling", !.shown = "nothing"]
           /\ UNCHANGED <<server, told, losses, pipeline>>
StartOver == /\ page.stage \in {"schema", "polling", "stopped"}
             /\ page' = NewPage
             /\ UNCHANGED <<server, told, losses, pipeline>>

Next ==
  \/ \E r \in Requests :
       \/ ApiCall(r) \/ Refuse(r) \/ LoseInput(r) \/ Publish(r) \/ PublishFails(r)
       \/ ChooseFile(r) \/ ClickGenerate(r)
       \/ StoreInput(r) \/ CommitDataset(r) \/ DbtGenerate(r) \/ StartGeneration(r)
  \/ \E d \in Datasets : BeginDelete(d) \/ DeleteDataset(d)
  \/ \E j \in Jobs : Begin(j) \/ Finish(j) \/ Fail(j)
  \/ GetDataset \/ GetJob \/ GetError \/ LoseReply \/ Poll \/ PollRefused \/ Reload \/ StartOver

(* The tab's timer fires as long as the page is polling, and some poll is  *)
(* answered, unless one is refused and ends the polling.  Nothing is       *)
(* assumed of the workers: a job whose publish failed stays queued, one    *)
(* whose pool child is killed stays running, and a page that shows either  *)
(* polls until its access token has expired.                               *)
Fairness == WF_vars(Poll)

Spec == Init /\ [][Next]_vars /\ Fairness

-----------------------------------------------------------------------------
(* Input objects: every dataset but a dbt one names an object that exists, *)
(* no two name the same, and an object nobody names was left behind by a   *)
(* request that stopped after the put or by the deletion of its dataset.   *)
InputsAccounted ==
  LET present == {d \in Datasets : Present(d) /\ dataset[d].source # "dbt"}
      deleted == {d \in Datasets : dataset[d].state = "deleted" /\ dataset[d].source # "dbt"}
      named   == {dataset[d].key : d \in present}
      held    == {request[r].key : r \in {q \in Requests : At(q, "stored")}}
  IN /\ named \subseteq stored
     /\ Cardinality(named) = Cardinality(present)
     /\ named \cap held = {}
     /\ Cardinality(stored \ (named \cup held)) = lost + Cardinality(deleted)

(* Every generation charged is a job and every job is charged; and a job   *)
(* asked for in the tab that the tab does not know of is one whose reply   *)
(* was lost, whose publish failed, or whose reply is still on its way.     *)
ChargedOnce ==
  /\ usage = Cardinality({j \in Jobs : phase[j] # "absent"})
  /\ LET unknown == {j \in Jobs : /\ phase[j] # "absent" /\ j \notin told /\ j \notin multi
                                  /\ dataset[origin[j]].source # "dbt"}
         unpublished == unknown \ published
         coming  == {r \in Requests : AwaitedBy(r) /\ At(r, "ok") /\ request[r].op = "generate"}
     IN Cardinality(unknown) <= losses + Cardinality(unpublished) + Cardinality(coming)

(* A page that stopped at done or failed shows what the job still is,      *)
(* unless the job was retried or its soft time limit struck since, or it   *)
(* was deleted: the polling never stops on a status the job moves on from. *)
ShownExplained ==
  page.stage = "stopped" =>
    \/ page.shown = "error"
    \/ page.shown = phase[page.job]
    \/ attempt[page.job] > page.seen
    \/ page.shown = "done" /\ phase[page.job] = "failed"
    \/ phase[page.job] = "deleted"

(* A page never polls for ever a job that has come to rest, done, failed   *)
(* or deleted, whatever became of its dataset and of the requests of the   *)
(* tab: it stops, the user leaves it, or the job is run again.             *)
PollingRested == page.stage = "polling" /\ phase[page.job] \in {"done", "failed", "deleted"}
PollingEnds   == PollingRested ~> ~PollingRested
=============================================================================
