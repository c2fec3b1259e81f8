--------------------------- MODULE Workspace_proofs ---------------------------
(* Theorems about Workspace, for any requests, datasets, keys and jobs,    *)
(* and any number of attempts, lost replies and deletions.                 *)
EXTENDS Workspace, FiniteSetTheorems, TLAPS

Active(r) == request[r] \notin {Idle, Gone}
Phases    == {"absent", "queued", "running", "done", "failed", "deleted"}
Statuses  == {"queued", "running", "done", "failed"}

(* The id that is taken next is one of the unused ones.                    *)
LEMMA FreshIn ==
  ASSUME NEW S, NEW x \in Fresh(S)
  PROVE  x \in S
BY DEF Fresh

(* The pipeline's rows are well-formed, no worker crashes, and a tab that  *)
(* waits has a request of the right kind; a request that has stored is an  *)
(* ingestion, and one that has committed a job names it.                   *)
PipelineOK ==
  /\ phase \in [Jobs -> Phases]
  /\ output \in [Jobs -> {"none", "live"}]
  /\ attempt \in [Jobs -> Nat]
  /\ crashed = FALSE
WaitsForOwn ==
  /\ page.stage = "uploading"  => /\ page.request \in Requests /\ Active(page.request)
                                  /\ request[page.request].op = "upload"
  /\ page.stage = "generating" => /\ page.request \in Requests /\ Active(page.request)
                                  /\ request[page.request].op = "generate"
  /\ ~Waiting => page.request = NoRequest
  /\ page.stage \in {"polling", "stopped"} => page.job \in Jobs
StepsFit ==
  \A r \in Requests :
    /\ At(r, "stored") => request[r].op \in Ingestions \ {"dbt"}
    /\ At(r, "committed") \/ (At(r, "ok") /\ request[r].op = "generate")
         => request[r].job \in Jobs
Shape == TypeOK /\ PipelineOK /\ WaitsForOwn /\ StepsFit

(* A request is a record or one of the two marks, which are not records.   *)
LEMMA Requested ==
  ASSUME TypeOK, NEW r \in Requests
  PROVE  /\ Active(r) <=> request[r] \in Request
         /\ \A step : At(r, step) <=> Active(r) /\ request[r].step = step
BY NullAssumption DEF TypeOK, Active, At

(* Asking makes an idle slot a request that has nothing yet.               *)
LEMMA Asking ==
  ASSUME TypeOK, NEW r \in Requests, NEW op \in Ingestions \cup {"generate", "multi_generate"},
         NEW d \in Datasets \cup {NoDataset}, Ask(r, op, d)
  PROVE  /\ request[r] = Idle
         /\ request' \in [Requests -> Request \cup {Idle, Gone}]
         /\ request'[r] \in Request
         /\ request'[r] = [op |-> op, step |-> "checking", dataset |-> d, key |-> NoKey,
                           job |-> NoJob]
         /\ \A q \in Requests \ {r} : request'[q] = request[q]
<1>1. r \in {q \in Requests : request[q] = Idle}
  BY FreshIn DEF Ask
<1> DEFINE rec == [op |-> op, step |-> "checking", dataset |-> d, key |-> NoKey, job |-> NoJob]
<1>2. rec \in Request
  BY DEF Request
<1>3. request' = [request EXCEPT ![r] = rec]
  BY DEF Ask
<1> HIDE DEF rec
<1>4. /\ request' \in [Requests -> Request \cup {Idle, Gone}]
      /\ request'[r] = rec
      /\ \A q \in Requests \ {r} : request'[q] = request[q]
  BY <1>2, <1>3 DEF TypeOK
<1> QED
  BY <1>1, <1>2, <1>4 DEF rec

(* An answer is kept for the tab that awaits it and forgotten otherwise.   *)
LEMMA Answering ==
  ASSUME TypeOK, NEW r \in Requests, NEW rec \in Request, Answer(r, rec)
  PROVE  /\ request' \in [Requests -> Request \cup {Idle, Gone}]
         /\ request'[r] = IF AwaitedBy(r) THEN rec ELSE Gone
         /\ \A q \in Requests \ {r} : request'[q] = request[q]
BY DEF TypeOK, Answer

(* The empty workspace is well-formed.                                     *)
LEMMA InitShape == Init => Shape
<1> SUFFICES ASSUME Init PROVE Shape
  OBVIOUS
<1>1. NewPage \in Page /\ page = NewPage
  BY DEF Init, NewPage, Page
<1>2. dataset \in [Datasets -> Row] /\ request \in [Requests -> Request \cup {Idle, Gone}]
  BY DEF Init, Row
<1>3. TypeOK
  BY <1>1, <1>2, LossesAssumption DEF Init, TypeOK
<1>4. PipelineOK
  BY DEF Init, PipelineOK, Phases, Pipeline!Init
<1>5. WaitsForOwn
  BY <1>1 DEF NewPage, WaitsForOwn, Waiting
<1>6. StepsFit
  BY DEF Init, StepsFit, At
<1> QED
  BY <1>3, <1>4, <1>5, <1>6 DEF Shape

(* A handler moves its own request on, and the tab looks at it or not.     *)
Moved(r, rec) ==
  /\ Active(r) /\ rec \in Request /\ rec.op = request[r].op
  /\ rec.step = "stored" => rec.op \in Ingestions \ {"dbt"}
  /\ rec.step \in {"committed", "ok"} =>
       rec.job \in Jobs \/ (rec.step = "ok" /\ rec.op # "generate")
  /\ Answer(r, rec) \/ request' = [request EXCEPT ![r] = rec]

(* Whatever its record becomes, a handler's step leaves the others alone,  *)
(* and the tab goes on waiting for its own request.                        *)
LEMMA Moving ==
  ASSUME Shape, NEW r \in Requests, NEW rec, Moved(r, rec), UNCHANGED browser
  PROVE  /\ request' \in [Requests -> Request \cup {Idle, Gone}]
         /\ \A q \in Requests \ {r} : request'[q] = request[q]
         /\ request'[r] \in {rec, Gone}
         /\ AwaitedBy(r) => request'[r] = rec
         /\ WaitsForOwn' /\ StepsFit'
<1> DEFINE Effect ==
      /\ request' \in [Requests -> Request \cup {Idle, Gone}]
      /\ \A q \in Requests \ {r} : request'[q] = request[q]
      /\ request'[r] \in {rec, Gone}
      /\ AwaitedBy(r) => request'[r] = rec
<1>1. Effect
  <2>1. CASE Answer(r, rec)
    BY <2>1, Answering DEF Shape, Moved
  <2>2. CASE request' = [request EXCEPT ![r] = rec]
    BY <2>2 DEF Shape, TypeOK, Moved
  <2> QED
    BY <2>1, <2>2 DEF Moved
<1>2. rec \notin {Idle, Gone}
  BY NullAssumption DEF Moved
<1>3. page' = page /\ Waiting' = Waiting
  BY DEF browser, Waiting
<1>4. page.request \in Requests =>
        /\ Active(page.request) => Active(page.request)'
        /\ Active(page.request) => request'[page.request].op = request[page.request].op
  <2> SUFFICES ASSUME page.request \in Requests, Active(page.request)
               PROVE  /\ Active(page.request)'
                      /\ request'[page.request].op = request[page.request].op
    OBVIOUS
  <2>1. CASE page.request = r
    BY <1>1, <1>2, <1>3, <2>1 DEF Active, Moved, AwaitedBy
  <2>2. CASE page.request # r
    BY <1>1, <1>3, <2>2 DEF Active
  <2> QED
    BY <2>1, <2>2
<1>5. WaitsForOwn'
  BY <1>3, <1>4 DEF WaitsForOwn, Shape, Active
<1>6. StepsFit'
  <2> SUFFICES ASSUME NEW q \in Requests
               PROVE  /\ At(q, "stored")' => request'[q].op \in Ingestions \ {"dbt"}
                      /\ At(q, "committed")' \/ (At(q, "ok")' /\ request'[q].op = "generate")
                           => request'[q].job \in Jobs
    BY DEF StepsFit
  <2>1. CASE q = r
    BY <1>1, <2>1 DEF Moved, At
  <2>2. CASE q # r
    BY <1>1, <2>2 DEF StepsFit, Shape, At
  <2> QED
    BY <2>1, <2>2
<1> QED
  BY <1>1, <1>5, <1>6

(* What each handler step makes of its request.                            *)
LEMMA Handlers ==
  ASSUME Shape, NEW r \in Requests
  PROVE  /\ Refuse(r) \/ LoseInput(r) \/ PublishFails(r) =>
              Moved(r, [request[r] EXCEPT !.step = "error"])
         /\ Publish(r) => Moved(r, [request[r] EXCEPT !.step = "ok"])
         /\ \A k \in Keys :
              /\ request' = [request EXCEPT ![r].step = "stored", ![r].key = k]
              /\ At(r, "checking") /\ request[r].op \in Ingestions \ {"dbt"}
              => Moved(r, [request[r] EXCEPT !.step = "stored", !.key = k])
         /\ \A d \in Datasets :
              /\ At(r, "stored")
              /\ Answer(r, [request[r] EXCEPT !.step = "ok", !.dataset = d])
              => Moved(r, [request[r] EXCEPT !.step = "ok", !.dataset = d])
         /\ \A d \in Datasets, j \in Jobs :
              /\ request' = [request EXCEPT ![r].step = "committed", ![r].dataset = d, ![r].job = j]
              /\ At(r, "checking")
              => Moved(r, [request[r] EXCEPT !.step = "committed", !.dataset = d, !.job = j])
<1>1. /\ Active(r) <=> request[r] \in Request
      /\ \A step : At(r, step) <=> Active(r) /\ request[r].step = step
  BY Requested DEF Shape
<1>2. request \in [Requests -> Request \cup {Idle, Gone}]
  BY DEF Shape, TypeOK
<1>3. /\ At(r, "committed") => request[r].job \in Jobs
      /\ At(r, "stored") => request[r].op \in Ingestions \ {"dbt"}
  BY DEF Shape, StepsFit
<1>4. Refuse(r) \/ LoseInput(r) \/ PublishFails(r) => Moved(r, [request[r] EXCEPT !.step = "error"])
  BY <1>1 DEF Refuse, LoseInput, PublishFails, Moved, Request
<1>5. Publish(r) => Moved(r, [request[r] EXCEPT !.step = "ok"])
  BY <1>1, <1>3 DEF Publish, Moved, Request
<1>6. ASSUME NEW k \in Keys, At(r, "checking"), request[r].op \in Ingestions \ {"dbt"},
             request' = [request EXCEPT ![r].step = "stored", ![r].key = k]
      PROVE  Moved(r, [request[r] EXCEPT !.step = "stored", !.key = k])
  BY <1>1, <1>2, <1>6 DEF Moved, Request
<1>7. ASSUME NEW d \in Datasets, At(r, "stored"),
             Answer(r, [request[r] EXCEPT !.step = "ok", !.dataset = d])
      PROVE  Moved(r, [request[r] EXCEPT !.step = "ok", !.dataset = d])
  BY <1>1, <1>3, <1>7 DEF Moved, Request, Ingestions
<1>8. ASSUME NEW d \in Datasets, NEW j \in Jobs, At(r, "checking"),
             request' = [request EXCEPT ![r].step = "committed", ![r].dataset = d, ![r].job = j]
      PROVE  Moved(r, [request[r] EXCEPT !.step = "committed", !.dataset = d, !.job = j])
  BY <1>1, <1>2, <1>8 DEF Moved, Request
<1> QED
  BY <1>4, <1>5, <1>6, <1>7, <1>8

(* The steps of the pipeline keep its rows well-formed.                    *)
LEMMA PipelineSteps ==
  ASSUME PipelineOK, NEW j \in Jobs,
         Pipeline!Submit(j) \/ Pipeline!Start(j) \/ Pipeline!Finish(j) \/ Pipeline!Fail(j)
  PROVE  PipelineOK'
BY DEF PipelineOK, Phases, Pipeline!Submit, Pipeline!Start, Pipeline!Finish, Pipeline!Fail

(* Steps that touch neither requests nor the page keep what ties the two.  *)
LEMMA RequestsKept ==
  ASSUME Shape, UNCHANGED <<request, page>>
  PROVE  WaitsForOwn' /\ StepsFit'
BY DEF Shape, WaitsForOwn, StepsFit, Waiting, Active, At

(* The steps of the server, one by one.                                    *)
LEMMA ServerShape ==
  ASSUME Shape, NEW r \in Requests,
         \/ Refuse(r) \/ LoseInput(r) \/ Publish(r) \/ PublishFails(r) \/ StoreInput(r)
         \/ CommitDataset(r) \/ DbtGenerate(r) \/ StartGeneration(r)
  PROVE  Shape'
<1> USE DEF Shape
<1>1. CASE Refuse(r) \/ LoseInput(r) \/ PublishFails(r)
  <2>1. UNCHANGED <<browser, pipeline, dataset, deleting, stored, origin, multi, published, usage>>
        /\ lost' \in {lost, lost + 1}
    BY <1>1 DEF Refuse, LoseInput, PublishFails
  <2>2. WaitsForOwn' /\ StepsFit' /\ request' \in [Requests -> Request \cup {Idle, Gone}]
    BY <1>1, <2>1, Handlers, Moving
  <2> QED
    BY <2>1, <2>2 DEF TypeOK, PipelineOK, browser, pipeline
<1>2. CASE Publish(r)
  <2>1. UNCHANGED <<browser, pipeline, dataset, deleting, stored, origin, multi, usage, lost>>
        /\ published' = published \cup {request[r].job} /\ request[r].job \in Jobs
    BY <1>2 DEF Publish, StepsFit
  <2>2. WaitsForOwn' /\ StepsFit' /\ request' \in [Requests -> Request \cup {Idle, Gone}]
    BY <1>2, <2>1, Handlers, Moving
  <2> QED
    BY <2>1, <2>2 DEF TypeOK, PipelineOK, browser, pipeline
<1>3. CASE StoreInput(r)
  <2>1. PICK k \in NewKey : stored' = stored \cup {k} /\
                            request' = [request EXCEPT ![r].step = "stored", ![r].key = k]
    BY <1>3 DEF StoreInput
  <2>2. k \in Keys
    BY <2>1, FreshIn DEF NewKey
  <2>3. UNCHANGED <<browser, pipeline, dataset, deleting, origin, multi, published, usage, lost>>
    BY <1>3 DEF StoreInput
  <2>4. Moved(r, [request[r] EXCEPT !.step = "stored", !.key = k])
    BY <1>3, <2>1, <2>2, Handlers DEF StoreInput
  <2>5. WaitsForOwn' /\ StepsFit' /\ request' \in [Requests -> Request \cup {Idle, Gone}]
    BY <2>3, <2>4, Moving
  <2> QED
    BY <2>1, <2>2, <2>3, <2>5 DEF TypeOK, PipelineOK, browser, pipeline
<1>4. CASE CommitDataset(r)
  <2>1. PICK d \in NewDataset :
          /\ dataset' = [dataset EXCEPT ![d] =
               [state |-> "present", source |-> request[r].op, key |-> request[r].key]]
          /\ Answer(r, [request[r] EXCEPT !.step = "ok", !.dataset = d])
    BY <1>4 DEF CommitDataset
  <2>2. d \in Datasets
    BY <2>1, FreshIn DEF NewDataset
  <2>3. UNCHANGED <<browser, pipeline, deleting, stored, origin, multi, published, usage, lost>>
        /\ At(r, "stored")
    BY <1>4 DEF CommitDataset, ReadyToCommit
  <2>4. Moved(r, [request[r] EXCEPT !.step = "ok", !.dataset = d])
    BY <2>1, <2>2, <2>3, Handlers
  <2>5. WaitsForOwn' /\ StepsFit' /\ request' \in [Requests -> Request \cup {Idle, Gone}]
    BY <2>3, <2>4, Moving
  <2>6. request[r] \in Request /\ request[r].op \in Ingestions
    BY <2>3, Requested DEF StepsFit
  <2>7. dataset' \in [Datasets -> Row]
    BY <2>1, <2>2, <2>6 DEF TypeOK, Row, Request
  <2> QED
    BY <2>3, <2>5, <2>7 DEF TypeOK, PipelineOK, browser, pipeline
<1>5. ASSUME NEW d \in Datasets, At(r, "checking"), AddJob(r, d), dataset' \in [Datasets -> Row],
             UNCHANGED <<deleting, stored, published, lost, browser>>
      PROVE  Shape'
  <2>1. PICK j \in NewJob :
          /\ Pipeline!Submit(j)
          /\ origin' = [origin EXCEPT ![j] = d]
          /\ multi' = IF request[r].op = "multi_generate" THEN multi \cup {j} ELSE multi
          /\ usage' = usage + Events(request[r].op)
          /\ request' = [request EXCEPT ![r].step = "committed", ![r].dataset = d, ![r].job = j]
    BY <1>5 DEF AddJob
  <2>2. j \in Jobs
    BY <2>1, FreshIn DEF NewJob
  <2>3. Moved(r, [request[r] EXCEPT !.step = "committed", !.dataset = d, !.job = j])
    BY <1>5, <2>1, <2>2, Handlers
  <2>4. WaitsForOwn' /\ StepsFit' /\ request' \in [Requests -> Request \cup {Idle, Gone}]
    BY <1>5, <2>3, Moving
  <2>5. PipelineOK'
    BY <2>1, <2>2, PipelineSteps
  <2> QED
    BY <1>5, <2>1, <2>2, <2>4, <2>5 DEF TypeOK, Events, browser
<1>6. CASE DbtGenerate(r)
  <2>1. PICK d \in NewDataset :
          /\ dataset' = [dataset EXCEPT ![d] =
               [state |-> "present", source |-> "dbt", key |-> NoKey]]
          /\ AddJob(r, d)
    BY <1>6 DEF DbtGenerate
  <2>2. d \in Datasets
    BY <2>1, FreshIn DEF NewDataset
  <2>3. dataset' \in [Datasets -> Row]
    BY <2>1 DEF TypeOK, Row, Ingestions
  <2> QED
    BY <1>5, <1>6, <2>1, <2>2, <2>3 DEF DbtGenerate
<1>7. CASE StartGeneration(r)
  <2>1. /\ request[r].dataset \in Datasets /\ At(r, "checking") /\ AddJob(r, request[r].dataset)
        /\ UNCHANGED <<dataset, deleting, stored, published, lost, browser>>
    BY <1>7 DEF StartGeneration, Present
  <2> QED
    BY <1>5, <2>1 DEF TypeOK
<1> QED
  BY <1>1, <1>2, <1>3, <1>4, <1>6, <1>7

(* The requests the tab and the API clients start.                         *)
LEMMA AskShape ==
  ASSUME Shape, NEW r \in Requests, NEW op \in Ingestions \cup {"generate", "multi_generate"},
         NEW d \in Datasets \cup {NoDataset}, Ask(r, op, d)
  PROVE  /\ request' \in [Requests -> Request \cup {Idle, Gone}]
         /\ StepsFit'
         /\ Active(r)' /\ request'[r].op = op
         /\ page' = page => WaitsForOwn'
<1> USE DEF Shape
<1> DEFINE rec == [op |-> op, step |-> "checking", dataset |-> d, key |-> NoKey, job |-> NoJob]
<1>0. /\ request[r] = Idle
      /\ request' \in [Requests -> Request \cup {Idle, Gone}]
      /\ request'[r] \in Request /\ request'[r] = rec
      /\ \A q \in Requests \ {r} : request'[q] = request[q]
  <2>1. TypeOK
    BY DEF Shape
  <2> HIDE DEF Shape
  <2> QED
    BY <2>1, Asking
<1>1. /\ request[r] = Idle
      /\ request' \in [Requests -> Request \cup {Idle, Gone}]
      /\ request'[r] \in Request /\ request'[r].op = op /\ request'[r].step = "checking"
      /\ \A q \in Requests \ {r} : request'[q] = request[q]
  BY <1>0
<1>2. Active(r)'
  BY <1>1, NullAssumption DEF Active
<1>3. StepsFit'
  BY <1>1 DEF StepsFit, At
<1>4. page' = page => WaitsForOwn'
  BY <1>1 DEF WaitsForOwn, Waiting, Active
<1> QED
  BY <1>1, <1>2, <1>3, <1>4

(* The tab takes an answer, or no longer waits for it.                     *)
LEMMA TakeShape ==
  ASSUME Shape, Waiting, NEW x \in {Idle, Gone, Reply}, NEW pg \in Page,
         request' = [request EXCEPT ![page.request] = x], page' = pg,
         pg.stage \notin {"uploading", "generating"}, pg.request = NoRequest,
         pg.stage \in {"polling", "stopped"} => pg.job \in Jobs
  PROVE  /\ request' \in [Requests -> Request \cup {Idle, Gone}]
         /\ page' \in Page /\ StepsFit' /\ WaitsForOwn'
<1> USE DEF Shape
<1>1. page.request \in Requests /\ Reply \in Request \cup {Idle, Gone}
  BY DEF Waiting, WaitsForOwn, Reply, TypeOK
<1>2. request' \in [Requests -> Request \cup {Idle, Gone}]
  BY <1>1 DEF TypeOK
<1>3. \A q \in Requests : request'[q] \in {request[q], Idle, Gone}
  BY <1>1 DEF TypeOK, Reply
<1>4. StepsFit'
  BY <1>3 DEF StepsFit, At
<1>5. WaitsForOwn'
  BY DEF WaitsForOwn, Waiting
<1> QED
  BY <1>2, <1>4, <1>5

(* The steps of the tab and of API clients, one by one.                    *)
LEMMA BrowserShape ==
  ASSUME Shape,
         \/ \E r \in Requests : ChooseFile(r) \/ ClickGenerate(r) \/ ApiCall(r)
         \/ GetDataset \/ GetJob \/ GetError \/ LoseReply
         \/ Poll \/ PollRefused \/ Reload \/ StartOver
  PROVE  Shape'
<1> USE DEF Shape
<1>1. ASSUME NEW r \in Requests, ChooseFile(r) \/ ClickGenerate(r)
      PROVE  Shape'
  <2>1. PICK op \in {"upload", "generate"}, d \in Datasets \cup {NoDataset},
             stage \in {"uploading", "generating"} :
          Send(r, op, d, stage) /\ (stage = "uploading" <=> op = "upload")
    BY <1>1 DEF ChooseFile, ClickGenerate, TypeOK, Page
  <2>2. /\ request' \in [Requests -> Request \cup {Idle, Gone}] /\ StepsFit'
        /\ Active(r)' /\ request'[r].op = op
    BY <2>1, AskShape DEF Send, Ingestions
  <2>3. page' \in Page /\ page'.stage = stage /\ page'.request = r
    BY <2>1 DEF Send, TypeOK, Page
  <2>4. WaitsForOwn'
    BY <2>1, <2>2, <2>3 DEF WaitsForOwn, Waiting
  <2> QED
    BY <2>1, <2>2, <2>3, <2>4 DEF Send, TypeOK, PipelineOK, pipeline
<1>2. ASSUME NEW r \in Requests, ApiCall(r)
      PROVE  Shape'
  <2>1. PICK op \in ApiOps, d \in Datasets \cup {NoDataset} : Ask(r, op, d)
    BY <1>2 DEF ApiCall
  <2>2. request' \in [Requests -> Request \cup {Idle, Gone}] /\ StepsFit' /\ WaitsForOwn'
    BY <1>2, <2>1, AskShape, ApiAssumption DEF ApiCall, browser
  <2> QED
    BY <1>2, <2>2 DEF ApiCall, TypeOK, PipelineOK, browser, pipeline
<1>3. page.stage \in {"uploading", "generating"} /\ At(page.request, "ok") =>
        /\ Waiting /\ page.request \in Requests /\ Reply \in Request
        /\ page.stage = "generating" => Reply.job \in Jobs
  BY Requested DEF Waiting, WaitsForOwn, StepsFit, At, Reply
<1>4. CASE GetDataset
  <2> DEFINE pg == [NewPage EXCEPT !.stage = "schema", !.dataset = Reply.dataset]
  <2>1. pg \in Page /\ pg.stage = "schema" /\ pg.request = NoRequest
    BY <1>3, <1>4 DEF GetDataset, NewPage, Page, Request
  <2>2. page' = pg /\ request' = [request EXCEPT ![page.request] = Idle] /\ Waiting
    BY <1>4 DEF GetDataset, TakeReply, Waiting
  <2> HIDE DEF pg
  <2>3. /\ request' \in [Requests -> Request \cup {Idle, Gone}]
        /\ page' \in Page /\ StepsFit' /\ WaitsForOwn'
    BY <2>1, <2>2, TakeShape
  <2> QED
    BY <1>4, <2>3 DEF GetDataset, TypeOK, PipelineOK, pipeline
<1>5. CASE GetJob
  <2> DEFINE pg == [NewPage EXCEPT !.stage = "polling", !.job = Reply.job]
  <2>1. pg \in Page /\ pg.stage = "polling" /\ pg.request = NoRequest /\ pg.job \in Jobs
        /\ Reply.job \in Jobs
    BY <1>3, <1>5 DEF GetJob, NewPage, Page, Request
  <2>2. page' = pg /\ request' = [request EXCEPT ![page.request] = Idle] /\ Waiting
    BY <1>5 DEF GetJob, TakeReply, Waiting
  <2> HIDE DEF pg
  <2>3. /\ request' \in [Requests -> Request \cup {Idle, Gone}]
        /\ page' \in Page /\ StepsFit' /\ WaitsForOwn'
    BY <2>1, <2>2, TakeShape
  <2> QED
    BY <1>5, <2>1, <2>3 DEF GetJob, TypeOK, PipelineOK, pipeline
<1>6. CASE GetError \/ LoseReply
  <2> DEFINE pg == [page EXCEPT !.stage = Back, !.request = NoRequest]
  <2>1. pg \in Page /\ pg.stage \in {"idle", "schema"} /\ pg.request = NoRequest
    BY DEF TypeOK, Page, Back
  <2>2. page' = pg /\ Waiting
    BY <1>6 DEF GetError, LoseReply
  <2>3. PICK x \in {Idle, Gone, Reply} : request' = [request EXCEPT ![page.request] = x]
    BY <1>6 DEF GetError, LoseReply, TakeReply, Reply
  <2> HIDE DEF pg
  <2>4. /\ request' \in [Requests -> Request \cup {Idle, Gone}]
        /\ page' \in Page /\ StepsFit' /\ WaitsForOwn'
    BY <2>1, <2>2, <2>3, TakeShape
  <2>5. losses' \in 0..MaxLosses
    BY <1>6, LossesAssumption DEF GetError, LoseReply, TypeOK
  <2> QED
    BY <1>6, <2>4, <2>5 DEF GetError, LoseReply, TypeOK, PipelineOK, pipeline
<1>7. CASE Poll \/ PollRefused \/ Reload \/ StartOver
  <2>1. page.stage \in {"polling", "stopped"} => page.job \in Jobs
    BY DEF WaitsForOwn
  <2>2. ~Waiting /\ page.request = NoRequest /\ NewPage \in Page
    BY <1>7 DEF WaitsForOwn, Waiting, Poll, PollRefused, Reload, StartOver, NewPage, Page
  <2>3. CASE Poll
    <3> DEFINE s == IF Pipeline!Live(page.job) THEN phase[page.job] ELSE "error"
    <3>1. s \in Statuses \cup {"error"} /\ attempt[page.job] \in Nat
      BY <2>1, <2>3 DEF Poll, PipelineOK, Pipeline!Live, Phases, Statuses
    <3>2. page' = [page EXCEPT !.shown = s, !.seen = attempt[page.job],
                               !.stage = IF Final(s) THEN "stopped" ELSE "polling"]
      BY <2>3 DEF Poll
    <3> HIDE DEF s
    <3>3. page' \in Page /\ page'.request = NoRequest /\ page'.stage \in {"polling", "stopped"}
          /\ page'.job = page.job
      BY <2>2, <3>1, <3>2 DEF TypeOK, Page, Statuses
    <3> QED
      BY <2>1, <2>3, <3>3 DEF Poll, TypeOK, Page, WaitsForOwn, Waiting, StepsFit, At, PipelineOK,
                              server, pipeline
  <2>4. CASE PollRefused \/ Reload \/ StartOver
    <3>1. /\ page' \in Page /\ page'.request = NoRequest
          /\ page'.stage \notin {"uploading", "generating"}
          /\ page'.stage \in {"polling", "stopped"} => page'.job \in Jobs
      <4>1. CASE PollRefused
        BY <2>1, <2>2, <4>1 DEF PollRefused, TypeOK, Page
      <4>2. CASE Reload
        BY <2>1, <2>2, <4>2 DEF Reload, TypeOK, Page
      <4>3. CASE StartOver
        BY <2>2, <4>3 DEF StartOver, NewPage
      <4> QED
        BY <2>4, <4>1, <4>2, <4>3
    <3>2. WaitsForOwn'
      BY <3>1 DEF WaitsForOwn, Waiting
    <3>3. UNCHANGED <<server, told, losses, pipeline>>
      BY <2>4 DEF PollRefused, Reload, StartOver
    <3>4. StepsFit'
      BY <3>3 DEF StepsFit, At, server
    <3> QED
      BY <3>1, <3>2, <3>3, <3>4 DEF TypeOK, PipelineOK, server, pipeline
  <2> QED
    BY <1>7, <2>3, <2>4
<1> QED
  BY <1>1, <1>2, <1>4, <1>5, <1>6, <1>7

(* The deletions and the pipeline's own steps.                             *)
LEMMA RestShape ==
  ASSUME Shape,
         \/ \E d \in Datasets : BeginDelete(d) \/ DeleteDataset(d)
         \/ \E j \in Jobs : Begin(j) \/ Finish(j) \/ Fail(j)
         \/ UNCHANGED vars
  PROVE  Shape'
<1> USE DEF Shape
<1>1. ASSUME NEW d \in Datasets, BeginDelete(d) \/ DeleteDataset(d)
      PROVE  Shape'
  <2>1. UNCHANGED <<stored, request, origin, multi, published, usage, lost, browser, attempt,
                    crashed>>
    BY <1>1 DEF BeginDelete, DeleteDataset, pipeline
  <2>2. dataset' \in [Datasets -> Row] /\ deleting' \subseteq Datasets
    BY <1>1 DEF BeginDelete, DeleteDataset, TypeOK, Row
  <2>3. phase' \in [Jobs -> Phases] /\ output' \in [Jobs -> {"none", "live"}]
    BY <1>1 DEF BeginDelete, DeleteDataset, PipelineOK, Phases, pipeline
  <2> QED
    BY <2>1, <2>2, <2>3, RequestsKept DEF TypeOK, PipelineOK, browser
<1>2. ASSUME NEW j \in Jobs, Begin(j) \/ Finish(j) \/ Fail(j)
      PROVE  Shape'
  <2>1. UNCHANGED <<server, browser>>
    BY <1>2 DEF Begin, Finish, Fail
  <2>2. PipelineOK'
    BY <1>2, PipelineSteps DEF Begin, Finish, Fail
  <2> QED
    BY <2>1, <2>2, RequestsKept DEF TypeOK, server, browser
<1>3. CASE UNCHANGED vars
  BY <1>3, RequestsKept DEF vars, server, browser, pipeline, TypeOK, PipelineOK
<1> QED
  BY <1>1, <1>2, <1>3

(* The workspace stays well-formed.                                        *)
LEMMA ShapeInvariance == Spec => []Shape
<1>1. Shape /\ [Next]_vars => Shape'
  BY ServerShape, BrowserShape, RestShape DEF Next
<1> QED
  BY <1>1, InitShape, PTL DEF Spec

(* Whatever the tab, the API clients, the handlers and the workers do, in  *)
(* any order, every variable of the workspace keeps its type.              *)
THEOREM TypeCorrect == Spec => []TypeOK
<1>1. Shape => TypeOK
  BY DEF Shape
<1> QED
  BY <1>1, ShapeInvariance, PTL

-----------------------------------------------------------------------------
(* What a poll saw of a job is not later than what the job is; a page that *)
(* has stopped shows an end of the job, and from there only a retry, the   *)
(* soft time limit or a deletion moves the job on.                         *)
Seen ==
  /\ page.stage \in {"polling", "stopped"} => page.seen <= attempt[page.job]
  /\ page.stage = "stopped" => Final(page.shown)

(* A new page has seen nothing.                                            *)
LEMMA InitShown == Init => Seen /\ ShownExplained
BY DEF Init, NewPage, Seen, ShownExplained

(* What the pipeline does to a job leaves a stopped page behind only by a  *)
(* new attempt, the soft limit or a deletion.                              *)
LEMMA PipelineShown ==
  ASSUME Shape, Seen, ShownExplained, page' = page, NEW j \in Jobs,
         Pipeline!Submit(j) \/ Pipeline!Start(j) \/ Pipeline!Finish(j) \/ Pipeline!Fail(j)
  PROVE  Seen' /\ ShownExplained'
<1>1. /\ page.stage \in {"polling", "stopped"} => page.job \in Jobs
      /\ phase \in [Jobs -> Phases] /\ attempt \in [Jobs -> Nat] /\ crashed = FALSE
      /\ page.seen \in Nat
  BY DEF Shape, WaitsForOwn, PipelineOK, TypeOK, Page
<1>2. page.stage \in {"polling", "stopped"} =>
        attempt'[page.job] \in Nat /\ attempt[page.job] <= attempt'[page.job]
  <2>1. attempt' = attempt \/ attempt' = [attempt EXCEPT ![j] = @ + 1]
    BY DEF Pipeline!Submit, Pipeline!Start, Pipeline!Finish, Pipeline!Fail
  <2> QED
    BY <1>1, <2>1
<1>3. Seen'
  BY <1>1, <1>2 DEF Seen
<1>4. ASSUME page.stage = "stopped", page.job # j
      PROVE  phase'[page.job] = phase[page.job]
  BY <1>1, <1>4 DEF Pipeline!Submit, Pipeline!Start, Pipeline!Finish, Pipeline!Fail
<1>5. ASSUME page.stage = "stopped", page.job = j
      PROVE  ShownExplained'
  <2>1. CASE Pipeline!Submit(j)
    BY <1>1, <1>2, <1>5, <2>1 DEF Pipeline!Submit, ShownExplained, Seen, Final
  <2>2. CASE Pipeline!Start(j)
    BY <1>1, <1>5, <2>2 DEF Pipeline!Start, ShownExplained, Seen
  <2>3. CASE Pipeline!Finish(j)
    BY <1>1, <1>2, <1>5, <2>3 DEF Pipeline!Finish, ShownExplained, Seen, Final
  <2>4. CASE Pipeline!Fail(j)
    BY <1>1, <1>2, <1>5, <2>4 DEF Pipeline!Fail, ShownExplained, Seen, Final
  <2> QED
    BY <2>1, <2>2, <2>3, <2>4
<1> QED
  BY <1>1, <1>2, <1>3, <1>4, <1>5 DEF ShownExplained

(* So does every step; a poll shows what is.                               *)
LEMMA ShownStep ==
  ASSUME Shape, Seen, ShownExplained, [Next]_vars
  PROVE  Seen' /\ ShownExplained'
<1>1. /\ page.stage \in {"polling", "stopped"} => page.job \in Jobs
      /\ phase \in [Jobs -> Phases] /\ attempt \in [Jobs -> Nat]
      /\ page \in Page
  BY DEF Shape, WaitsForOwn, PipelineOK, TypeOK
<1>2. CASE UNCHANGED <<page, phase, attempt>>
  BY <1>2 DEF Seen, ShownExplained
<1>3. ASSUME page'.stage \in {"idle", "uploading", "schema", "generating"}
      PROVE  Seen' /\ ShownExplained'
  BY <1>3 DEF Seen, ShownExplained
<1>4. ASSUME NEW r \in Requests, ApiCall(r) \/ Refuse(r) \/ LoseInput(r) \/ Publish(r)
                               \/ PublishFails(r) \/ StoreInput(r) \/ CommitDataset(r)
      PROVE  Seen' /\ ShownExplained'
  BY <1>2, <1>4 DEF ApiCall, Refuse, LoseInput, Publish, PublishFails, StoreInput, CommitDataset,
                    browser, pipeline
<1>5. ASSUME NEW r \in Requests, DbtGenerate(r) \/ StartGeneration(r)
      PROVE  Seen' /\ ShownExplained'
  <2>1. PICK d : AddJob(r, d)
    BY <1>5 DEF DbtGenerate, StartGeneration
  <2>2. PICK j \in NewJob : Pipeline!Submit(j)
    BY <2>1 DEF AddJob
  <2>3. j \in Jobs /\ page' = page
    BY <1>5, <2>2, FreshIn DEF NewJob, DbtGenerate, StartGeneration, browser
  <2> QED
    BY <2>2, <2>3, PipelineShown
<1>6. ASSUME NEW r \in Requests, ChooseFile(r) \/ ClickGenerate(r)
      PROVE  Seen' /\ ShownExplained'
  BY <1>1, <1>3, <1>6 DEF ChooseFile, ClickGenerate, Send, Page
<1>7. ASSUME NEW d \in Datasets, BeginDelete(d)
      PROVE  Seen' /\ ShownExplained'
  BY <1>2, <1>7 DEF BeginDelete, browser, pipeline
<1>8. ASSUME NEW d \in Datasets, DeleteDataset(d)
      PROVE  Seen' /\ ShownExplained'
  <2>1. /\ page' = page /\ attempt' = attempt
        /\ \A j \in Jobs : phase'[j] \in {phase[j], "deleted"}
    BY <1>8 DEF DeleteDataset, browser
  <2> QED
    BY <1>1, <2>1 DEF Seen, ShownExplained
<1>9. ASSUME NEW j \in Jobs, Begin(j) \/ Finish(j) \/ Fail(j)
      PROVE  Seen' /\ ShownExplained'
  BY <1>9, PipelineShown DEF Begin, Finish, Fail, browser
<1>10. CASE GetDataset \/ GetError \/ LoseReply \/ StartOver
  <2>1. CASE GetDataset \/ StartOver
    <3>1. page' = NewPage \/ page' = [NewPage EXCEPT !.stage = "schema", !.dataset = Reply.dataset]
      BY <2>1 DEF GetDataset, StartOver
    <3>2. NewPage.stage = "idle"
      BY DEF NewPage
    <3>3. [NewPage EXCEPT !.stage = "schema", !.dataset = Reply.dataset].stage = "schema"
      BY DEF NewPage
    <3> QED
      BY <1>3, <3>1, <3>2, <3>3
  <2>2. CASE GetError \/ LoseReply
    <3>1. page' = [page EXCEPT !.stage = Back, !.request = NoRequest]
      BY <2>2 DEF GetError, LoseReply
    <3>2. page'.stage \in {"idle", "schema"}
      BY <1>1, <3>1 DEF Page, Back
    <3> QED
      BY <1>3, <3>2
  <2> QED
    BY <1>10, <2>1, <2>2
<1>11. CASE GetJob
  <2>1. page'.stage = "polling" /\ page'.seen = 0 /\ page'.job = Reply.job /\ attempt' = attempt
    BY <1>11 DEF GetJob, NewPage, pipeline
  <2>2. Reply.job \in Jobs
    <3>1. page.stage = "generating" /\ At(page.request, "ok")
      BY <1>11 DEF GetJob
    <3> QED
      BY <3>1 DEF Shape, WaitsForOwn, StepsFit, Reply
  <2> QED
    BY <1>1, <2>1, <2>2 DEF Seen, ShownExplained
<1>12. CASE Poll
  <2> DEFINE s == IF Pipeline!Live(page.job) THEN phase[page.job] ELSE "error"
  <2>1. /\ page.stage = "polling" /\ UNCHANGED <<phase, attempt>>
        /\ page' = [page EXCEPT !.shown = s, !.seen = attempt[page.job],
                                !.stage = IF Final(s) THEN "stopped" ELSE "polling"]
    BY <1>12 DEF Poll, pipeline
  <2>2. s = phase[page.job] \/ s = "error"
    OBVIOUS
  <2> HIDE DEF s
  <2>3. /\ page'.shown = s /\ page'.seen = attempt[page.job] /\ page'.job = page.job
        /\ page'.stage = IF Final(s) THEN "stopped" ELSE "polling"
    BY <1>1, <2>1 DEF Page
  <2> QED
    BY <1>1, <2>1, <2>2, <2>3 DEF Seen, ShownExplained
<1>13. CASE PollRefused
  <2>1. /\ page'.stage = "stopped" /\ page'.shown = "error" /\ page'.seen = page.seen
        /\ page'.job = page.job /\ page.stage = "polling" /\ UNCHANGED <<phase, attempt>>
    BY <1>1, <1>13 DEF PollRefused, Page, pipeline
  <2> QED
    BY <2>1 DEF Seen, ShownExplained, Final
<1>14. CASE Reload
  <2>1. /\ page'.stage = "polling" /\ page'.seen = page.seen /\ page'.job = page.job
        /\ page.stage = "stopped" /\ UNCHANGED <<phase, attempt>>
    BY <1>1, <1>14 DEF Reload, Page, pipeline
  <2> QED
    BY <2>1 DEF Seen, ShownExplained
<1>15. CASE UNCHANGED vars
  BY <1>2, <1>15 DEF vars, browser, pipeline
<1> QED
  BY <1>4, <1>5, <1>6, <1>7, <1>8, <1>9, <1>10, <1>11, <1>12, <1>13, <1>14, <1>15 DEF Next

(* A results page whose polling stopped at done or failed shows the job's  *)
(* status, or the job was retried, struck by the soft time limit or        *)
(* deleted since: poll() sets its timer again at any other status.         *)
THEOREM PagesTruthful == Spec => []ShownExplained
<1>1. Shape /\ (Seen /\ ShownExplained) /\ [Next]_vars => (Seen /\ ShownExplained)'
  BY ShownStep
<1> QED
  BY <1>1, InitShown, ShapeInvariance, PTL DEF Spec

-----------------------------------------------------------------------------
(* Input objects: whoever names a stored object names it alone, a dataset  *)
(* or a request that is about to commit one.  What nobody names any more   *)
(* is counted by the requests that stopped and the datasets deleted.       *)
Stores(d)   == dataset[d].state # "absent" /\ dataset[d].source # "dbt"
Inputs(st)  == {d \in Datasets : dataset[d].state = st /\ dataset[d].source # "dbt"}
Named       == {dataset[d].key : d \in Inputs("present")}
Held        == {request[r].key : r \in {q \in Requests : At(q, "stored")}}
Abandoned   == stored \ (Named \cup Held)

NamedAlone ==
  /\ \A d \in Datasets : Stores(d) => dataset[d].key \in stored
  /\ \A d, e \in Datasets : Stores(d) /\ Stores(e) /\ dataset[d].key = dataset[e].key => d = e
  /\ \A r \in Requests : At(r, "stored") =>
       /\ request[r].key \in stored
       /\ \A d \in Datasets : Stores(d) => dataset[d].key # request[r].key
       /\ \A q \in Requests : At(q, "stored") /\ request[q].key = request[r].key => q = r
  /\ \A d \in deleting : dataset[d].state = "present"
AllFinite ==
  /\ IsFiniteSet(stored)
  /\ IsFiniteSet(Inputs("present")) /\ IsFiniteSet(Inputs("deleted"))
Balanced == Cardinality(Abandoned) = lost + Cardinality(Inputs("deleted"))
InputInv == NamedAlone /\ AllFinite /\ Balanced

(* At first nothing is stored, named or lost.                              *)
LEMMA InitInputs == Init => InputInv
<1> SUFFICES ASSUME Init PROVE InputInv
  OBVIOUS
<1>1. /\ \A d \in Datasets : dataset[d].state = "absent"
      /\ \A r \in Requests : ~At(r, "stored")
      /\ stored = {} /\ deleting = {} /\ lost = 0
  BY DEF Init, At
<1>2. Inputs("present") = {} /\ Inputs("deleted") = {} /\ Abandoned = {}
  BY <1>1 DEF Inputs, Abandoned
<1> QED
  BY <1>1, <1>2, FS_EmptySet DEF InputInv, NamedAlone, Stores, AllFinite, Balanced

(* Steps that neither store nor commit nor lose nor delete an input.       *)
HeldAsBefore ==
  \A r \in Requests : /\ At(r, "stored")' <=> At(r, "stored")
                      /\ At(r, "stored") => request'[r].key = request[r].key
LEMMA InputsKept ==
  ASSUME InputInv, HeldAsBefore, UNCHANGED <<dataset, stored, lost>>,
         \A d \in deleting' : d \in deleting \/ dataset[d].state = "present"
  PROVE  InputInv'
<1>1. /\ \A d : Stores(d)' <=> Stores(d)
      /\ \A st : Inputs(st)' = Inputs(st)
      /\ Named' = Named
  BY DEF Stores, Inputs, Named
<1>2. Held' = Held
  BY DEF HeldAsBefore, Held
<1>3. NamedAlone'
  BY <1>1 DEF InputInv, NamedAlone, HeldAsBefore
<1> QED
  BY <1>1, <1>2, <1>3 DEF InputInv, AllFinite, Balanced, Abandoned

(* A request that has not stored moves on without storing.                 *)
LEMMA OthersHold ==
  ASSUME NEW r, r \in Requests => ~At(r, "stored"), r \in Requests => ~At(r, "stored")',
         \A q \in Requests \ {r} : request'[q] = request[q]
  PROVE  HeldAsBefore
BY DEF HeldAsBefore, At

(* A put adds an object that its request alone names.                      *)
LEMMA StoreInputs ==
  ASSUME Shape, InputInv, NEW r \in Requests, StoreInput(r)
  PROVE  InputInv'
<1>1. PICK k \in NewKey : /\ stored' = stored \cup {k}
                          /\ request' = [request EXCEPT ![r].step = "stored", ![r].key = k]
  BY DEF StoreInput
<1>2. k \in Keys \ stored
  BY <1>1, FreshIn DEF NewKey
<1>3. /\ At(r, "checking") /\ request[r] \in Request
      /\ request \in [Requests -> Request \cup {Idle, Gone}]
      /\ UNCHANGED <<dataset, deleting, lost>>
  BY Requested DEF StoreInput, Shape, TypeOK
<1>4. /\ request'[r].step = "stored" /\ request'[r].key = k /\ request'[r] \in Request
      /\ \A q \in Requests \ {r} : request'[q] = request[q]
  BY <1>1, <1>2, <1>3 DEF Request
<1>5. /\ At(r, "stored")' /\ ~At(r, "stored")
      /\ \A q \in Requests \ {r} : At(q, "stored")' <=> At(q, "stored")
  BY <1>3, <1>4, NullAssumption DEF At
<1>6. /\ \A d : Stores(d)' <=> Stores(d)
      /\ \A st : Inputs(st)' = Inputs(st)
      /\ Named' = Named
  BY <1>3 DEF Stores, Inputs, Named
<1>7. Held' = Held \cup {k}
  BY <1>4, <1>5 DEF Held
<1>8. NamedAlone'
  BY <1>1, <1>2, <1>3, <1>4, <1>5, <1>6 DEF InputInv, NamedAlone
<1>9. Abandoned' = Abandoned
  BY <1>1, <1>2, <1>6, <1>7 DEF Abandoned
<1>10. IsFiniteSet(stored')
  BY <1>1, FS_AddElement DEF InputInv, AllFinite
<1> QED
  BY <1>3, <1>6, <1>8, <1>9, <1>10 DEF InputInv, AllFinite, Balanced

(* A commit passes the object from the request to the new dataset.         *)
LEMMA CommitInputs ==
  ASSUME Shape, InputInv, NEW r \in Requests, CommitDataset(r)
  PROVE  InputInv'
<1>1. PICK d \in NewDataset :
        /\ dataset' = [dataset EXCEPT ![d] =
             [state |-> "present", source |-> request[r].op, key |-> request[r].key]]
        /\ Answer(r, [request[r] EXCEPT !.step = "ok", !.dataset = d])
  BY DEF CommitDataset
<1>2. d \in Datasets /\ dataset[d].state = "absent" /\ dataset \in [Datasets -> Row]
  BY <1>1, FreshIn DEF NewDataset, Shape, TypeOK
<1>3. /\ At(r, "stored") /\ request[r] \in Request /\ request[r].op \in Ingestions \ {"dbt"}
      /\ UNCHANGED <<stored, deleting, lost, browser>>
  BY Requested DEF CommitDataset, ReadyToCommit, Shape, StepsFit
<1> DEFINE rec == [request[r] EXCEPT !.step = "ok", !.dataset = d]
<1>4. Moved(r, rec) /\ rec.step = "ok"
  BY <1>1, <1>2, <1>3, Handlers DEF Request
<1> HIDE DEF rec
<1>5. /\ request'[r] \in {rec, Gone}
      /\ \A q \in Requests \ {r} : request'[q] = request[q]
  BY <1>3, <1>4, Moving
<1>6. /\ ~At(r, "stored")'
      /\ \A q \in Requests \ {r} : At(q, "stored")' <=> At(q, "stored")
  BY <1>4, <1>5 DEF At
<1> DEFINE k == request[r].key
<1>7. /\ dataset'[d].state = "present" /\ dataset'[d].source # "dbt" /\ dataset'[d].key = k
      /\ \A e \in Datasets \ {d} : dataset'[e] = dataset[e]
  BY <1>1, <1>2, <1>3
<1> HIDE DEF k
<1>8. ~Stores(d) /\ Stores(d)' /\ \A e \in Datasets \ {d} : Stores(e)' <=> Stores(e)
  BY <1>2, <1>7 DEF Stores
<1>9. /\ Inputs("present")' = Inputs("present") \cup {d}
      /\ Inputs("deleted")' = Inputs("deleted")
  BY <1>2, <1>7 DEF Inputs
<1>10. d \notin Inputs("present")
  BY <1>2 DEF Inputs
<1>11. Named' = Named \cup {k}
  BY <1>7, <1>9, <1>10 DEF Named, Inputs
<1>12. Held = Held' \cup {k}
  BY <1>3, <1>5, <1>6 DEF Held, k
<1>13. NamedAlone'
  <2>1. /\ k \in stored
        /\ \A e \in Datasets : Stores(e) => dataset[e].key # k
        /\ \A q \in Requests \ {r} : At(q, "stored") => request[q].key # k
    BY <1>3 DEF InputInv, NamedAlone, k
  <2>2. d \notin deleting
    BY <1>2 DEF InputInv, NamedAlone
  <2> QED
    BY <1>3, <1>5, <1>6, <1>7, <1>8, <2>1, <2>2 DEF InputInv, NamedAlone, Shape, TypeOK
<1>14. Abandoned' = Abandoned
  BY <1>3, <1>11, <1>12 DEF Abandoned
<1>15. IsFiniteSet(Inputs("present")')
  BY <1>9, FS_AddElement DEF InputInv, AllFinite
<1> QED
  BY <1>3, <1>9, <1>13, <1>14, <1>15 DEF InputInv, AllFinite, Balanced

(* A request that stops after its put leaves one object behind.            *)
LEMMA LoseInputs ==
  ASSUME Shape, InputInv, NEW r \in Requests, LoseInput(r)
  PROVE  InputInv'
<1>1. /\ At(r, "stored") /\ request[r] \in Request
      /\ UNCHANGED <<dataset, stored, deleting, browser>> /\ lost' = lost + 1
  BY Requested DEF LoseInput, Shape
<1> DEFINE rec == [request[r] EXCEPT !.step = "error"]
<1>2. Moved(r, rec) /\ rec.step = "error"
  BY <1>1, Handlers DEF Request
<1> HIDE DEF rec
<1>3. /\ request'[r] \in {rec, Gone}
      /\ \A q \in Requests \ {r} : request'[q] = request[q]
  BY <1>1, <1>2, Moving
<1>4. /\ ~At(r, "stored")'
      /\ \A q \in Requests \ {r} : At(q, "stored")' <=> At(q, "stored")
  BY <1>2, <1>3 DEF At
<1>5. /\ \A d : Stores(d)' <=> Stores(d)
      /\ \A st : Inputs(st)' = Inputs(st)
      /\ Named' = Named
  BY <1>1 DEF Stores, Inputs, Named
<1> DEFINE k == request[r].key
<1>6. /\ k \in stored /\ k \notin Named
      /\ \A q \in Requests \ {r} : At(q, "stored") => request[q].key # k
  BY <1>1 DEF InputInv, NamedAlone, Named, Inputs, Stores
<1> HIDE DEF k
<1>7. Held = Held' \cup {k} /\ k \notin Held'
  BY <1>1, <1>3, <1>4, <1>6 DEF Held, k
<1>8. Abandoned' = Abandoned \cup {k} /\ k \notin Abandoned
  BY <1>1, <1>5, <1>6, <1>7 DEF Abandoned
<1>9. IsFiniteSet(Abandoned)
  BY FS_Subset DEF InputInv, AllFinite, Abandoned
<1>10. Cardinality(Abandoned') = Cardinality(Abandoned) + 1
  BY <1>8, <1>9, FS_AddElement
<1>11. NamedAlone'
  BY <1>1, <1>3, <1>4, <1>5 DEF InputInv, NamedAlone
<1>12. Cardinality(Inputs("deleted")) \in Nat /\ lost \in Nat
  BY FS_CardinalityType DEF InputInv, AllFinite, Shape, TypeOK
<1> QED
  BY <1>1, <1>5, <1>10, <1>11, <1>12 DEF InputInv, AllFinite, Balanced

(* The request of a job step is not about an input any more.               *)
LEMMA AddJobInputs ==
  ASSUME Shape, NEW r \in Requests, NEW d \in Datasets, At(r, "checking"), AddJob(r, d),
         UNCHANGED browser
  PROVE  HeldAsBefore
<1>1. PICK j \in NewJob :
        request' = [request EXCEPT ![r].step = "committed", ![r].dataset = d, ![r].job = j]
  BY DEF AddJob
<1>2. j \in Jobs
  BY <1>1, FreshIn DEF NewJob
<1> DEFINE rec == [request[r] EXCEPT !.step = "committed", !.dataset = d, !.job = j]
<1>3. Moved(r, rec)
  BY <1>1, <1>2, Handlers
<1>4. rec.step = "committed"
  BY Requested DEF Request, Shape
<1> HIDE DEF rec
<1>5. request'[r] \in {rec, Gone} /\ \A q \in Requests \ {r} : request'[q] = request[q]
  BY <1>3, Moving
<1>6. ~At(r, "stored") /\ ~At(r, "stored")'
  BY <1>4, <1>5 DEF At
<1> QED
  BY <1>5, <1>6, OthersHold

(* A dbt dataset names no object.                                          *)
LEMMA DbtInputs ==
  ASSUME Shape, InputInv, NEW r \in Requests, DbtGenerate(r)
  PROVE  InputInv'
<1>1. PICK d \in NewDataset :
        /\ dataset' = [dataset EXCEPT ![d] =
             [state |-> "present", source |-> "dbt", key |-> NoKey]]
        /\ AddJob(r, d)
  BY DEF DbtGenerate
<1>2. d \in Datasets /\ dataset[d].state = "absent" /\ dataset \in [Datasets -> Row]
  BY <1>1, FreshIn DEF NewDataset, Shape, TypeOK
<1>3. At(r, "checking") /\ UNCHANGED <<deleting, stored, lost, browser>>
  BY DEF DbtGenerate
<1>4. HeldAsBefore
  BY <1>1, <1>2, <1>3, AddJobInputs
<1>5. /\ dataset'[d].source = "dbt" /\ dataset'[d].state = "present"
      /\ \A e \in Datasets \ {d} : dataset'[e] = dataset[e]
  BY <1>1, <1>2
<1>6. \A e \in Datasets : Stores(e)' <=> Stores(e)
  BY <1>2, <1>5 DEF Stores
<1>7. \A e \in Datasets : Stores(e) => dataset'[e] = dataset[e]
  BY <1>2, <1>5 DEF Stores
<1>8. Inputs("present")' = Inputs("present") /\ Inputs("deleted")' = Inputs("deleted")
  BY <1>2, <1>5 DEF Inputs
<1>9. Named' = Named
  BY <1>7, <1>8 DEF Named, Inputs, Stores
<1>10. Held' = Held
  BY <1>4 DEF HeldAsBefore, Held
<1>11. NamedAlone'
  <2>1. d \notin deleting
    BY <1>2 DEF InputInv, NamedAlone
  <2> QED
    BY <1>3, <1>4, <1>5, <1>6, <1>7, <2>1
       DEF InputInv, NamedAlone, HeldAsBefore, Shape, TypeOK
<1> QED
  BY <1>3, <1>8, <1>9, <1>10, <1>11 DEF InputInv, AllFinite, Balanced, Abandoned

(* A deleted dataset leaves its object behind, if it had one.              *)
LEMMA DeleteInputs ==
  ASSUME Shape, InputInv, NEW d \in Datasets, DeleteDataset(d)
  PROVE  InputInv'
<1>1. /\ dataset' = [dataset EXCEPT ![d].state = "deleted"] /\ deleting' = deleting \ {d}
      /\ d \in deleting /\ UNCHANGED <<stored, request, lost>>
  BY DEF DeleteDataset
<1>2. dataset \in [Datasets -> Row] /\ dataset[d].state = "present"
  BY <1>1 DEF InputInv, NamedAlone, Shape, TypeOK
<1>3. /\ dataset'[d].state = "deleted" /\ dataset'[d].source = dataset[d].source
      /\ dataset'[d].key = dataset[d].key
      /\ \A e \in Datasets \ {d} : dataset'[e] = dataset[e]
  BY <1>1, <1>2 DEF Row
<1>4. \A e \in Datasets : (Stores(e)' <=> Stores(e)) /\ dataset'[e].key = dataset[e].key
  BY <1>2, <1>3 DEF Stores
<1>5. (\A q, s : At(q, s)' <=> At(q, s)) /\ Held' = Held
  BY <1>1 DEF At, Held
<1>6. NamedAlone'
  BY <1>1, <1>3, <1>4, <1>5 DEF InputInv, NamedAlone, Shape, TypeOK
<1>7. CASE dataset[d].source = "dbt"
  <2>1. Inputs("present")' = Inputs("present") /\ Inputs("deleted")' = Inputs("deleted")
    BY <1>2, <1>3, <1>7 DEF Inputs
  <2>2. Named' = Named
    BY <1>4, <2>1 DEF Named, Inputs
  <2> QED
    BY <1>1, <1>5, <1>6, <2>1, <2>2 DEF InputInv, AllFinite, Balanced, Abandoned
<1>8. CASE dataset[d].source # "dbt"
  <2>1. /\ Inputs("present")' = Inputs("present") \ {d} /\ d \in Inputs("present")
        /\ Inputs("deleted")' = Inputs("deleted") \cup {d} /\ d \notin Inputs("deleted")
    BY <1>2, <1>3, <1>8 DEF Inputs
  <2> DEFINE k == dataset[d].key
  <2>2. /\ k \in stored /\ k \notin Held
        /\ \A e \in Inputs("present")' : dataset[e].key # k
    BY <1>2, <1>8, <2>1 DEF InputInv, NamedAlone, Stores, Inputs, Held
  <2>3. Named = Named' \cup {k} /\ k \notin Named'
    <3>1. Named' = {dataset[e].key : e \in Inputs("present")'}
      BY <1>4 DEF Named, Inputs
    <3> QED
      BY <2>1, <2>2, <3>1 DEF Named
  <2> HIDE DEF k
  <2>4. Abandoned' = Abandoned \cup {k} /\ k \notin Abandoned
    BY <1>1, <1>5, <2>2, <2>3 DEF Abandoned
  <2>5. IsFiniteSet(Abandoned)
    BY FS_Subset DEF InputInv, AllFinite, Abandoned
  <2>6. Cardinality(Abandoned') = Cardinality(Abandoned) + 1
    BY <2>4, <2>5, FS_AddElement
  <2>7. /\ IsFiniteSet(Inputs("deleted")')
        /\ Cardinality(Inputs("deleted")') = Cardinality(Inputs("deleted")) + 1
    BY <2>1, FS_AddElement DEF InputInv, AllFinite
  <2>8. IsFiniteSet(Inputs("present")')
    BY <2>1, FS_RemoveElement DEF InputInv, AllFinite
  <2>9. Cardinality(Inputs("deleted")) \in Nat /\ lost \in Nat
    BY FS_CardinalityType DEF InputInv, AllFinite, Shape, TypeOK
  <2> QED
    BY <1>1, <1>6, <2>6, <2>7, <2>8, <2>9 DEF InputInv, AllFinite, Balanced
<1> QED
  BY <1>7, <1>8

(* The steps that are not about inputs.                                    *)
LEMMA OtherInputs ==
  ASSUME Shape, InputInv,
         \/ \E r \in Requests :
              \/ ApiCall(r) \/ Refuse(r) \/ Publish(r) \/ PublishFails(r)
              \/ ChooseFile(r) \/ ClickGenerate(r) \/ StartGeneration(r)
         \/ \E d \in Datasets : BeginDelete(d)
         \/ \E j \in Jobs : Begin(j) \/ Finish(j) \/ Fail(j)
         \/ GetDataset \/ GetJob \/ GetError \/ LoseReply
         \/ Poll \/ PollRefused \/ Reload \/ StartOver
         \/ UNCHANGED vars
  PROVE  InputInv'
<1>1. ASSUME NEW r \in Requests, ApiCall(r) \/ ChooseFile(r) \/ ClickGenerate(r)
      PROVE  InputInv'
  <2>1. PICK op \in Ingestions \cup {"generate", "multi_generate"},
             d \in Datasets \cup {NoDataset} : Ask(r, op, d)
    BY <1>1, ApiAssumption DEF ApiCall, ChooseFile, ClickGenerate, Send, Shape, TypeOK, Page,
                               Ingestions
  <2>2. /\ request[r] = Idle
        /\ request'[r] = [op |-> op, step |-> "checking", dataset |-> d, key |-> NoKey,
                          job |-> NoJob]
        /\ \A q \in Requests \ {r} : request'[q] = request[q]
    BY <2>1, Asking DEF Shape
  <2>3. ~At(r, "stored") /\ ~At(r, "stored")'
    BY <2>2 DEF At
  <2> QED
    BY <1>1, <2>2, <2>3, OthersHold, InputsKept DEF ApiCall, ChooseFile, ClickGenerate, Send
<1>2. ASSUME NEW r \in Requests, Refuse(r) \/ Publish(r) \/ PublishFails(r)
      PROVE  InputInv'
  <2>1. /\ ~At(r, "stored") /\ request[r] \in Request
        /\ UNCHANGED <<dataset, stored, lost, deleting, browser>>
    BY <1>2, Requested DEF Refuse, Publish, PublishFails, At, Shape
  <2>2. PICK step \in {"ok", "error"} : Moved(r, [request[r] EXCEPT !.step = step])
    BY <1>2, Handlers
  <2> DEFINE rec == [request[r] EXCEPT !.step = step]
  <2>3. rec.step \in {"ok", "error"}
    BY <2>1 DEF Request
  <2> HIDE DEF rec
  <2>4. request'[r] \in {rec, Gone} /\ \A q \in Requests \ {r} : request'[q] = request[q]
    BY <2>1, <2>2, Moving DEF rec
  <2>5. ~At(r, "stored")'
    BY <2>3, <2>4 DEF At
  <2> QED
    BY <2>1, <2>4, <2>5, OthersHold, InputsKept
<1>3. ASSUME NEW r \in Requests, StartGeneration(r)
      PROVE  InputInv'
  <2>1. request[r].dataset \in Datasets
    BY <1>3 DEF StartGeneration, Present
  <2>2. HeldAsBefore
    BY <1>3, <2>1, AddJobInputs DEF StartGeneration
  <2> QED
    BY <1>3, <2>2, InputsKept DEF StartGeneration
<1>4. ASSUME NEW d \in Datasets, BeginDelete(d)
      PROVE  InputInv'
  <2>1. HeldAsBefore
    BY <1>4 DEF BeginDelete, HeldAsBefore, At
  <2> QED
    BY <1>4, <2>1, InputsKept DEF BeginDelete, Present
<1>5. ASSUME UNCHANGED server
      PROVE  InputInv'
  <2>1. HeldAsBefore
    BY <1>5 DEF HeldAsBefore, At, server
  <2> QED
    BY <1>5, <2>1, InputsKept DEF server
<1>6. ASSUME \/ \E j \in Jobs : Begin(j) \/ Finish(j) \/ Fail(j)
             \/ Poll \/ PollRefused \/ Reload \/ StartOver \/ UNCHANGED vars
      PROVE  InputInv'
  BY <1>5, <1>6 DEF Begin, Finish, Fail, Poll, PollRefused, Reload, StartOver, vars
<1>7. ASSUME GetDataset \/ GetJob \/ GetError \/ LoseReply
      PROVE  InputInv'
  <2> DEFINE p == page.request
  <2>1. PICK x \in {Idle, Gone, request[p]} : request' = [request EXCEPT ![p] = x]
    BY <1>7 DEF GetDataset, GetJob, GetError, LoseReply, TakeReply
  <2>2. At(p, "ok") \/ At(p, "error") \/ x = request[p]
    <3>1. CASE LoseReply
      <4>1. CASE At(p, "ok") \/ At(p, "error")
        BY <4>1
      <4>2. CASE ~(At(p, "ok") \/ At(p, "error"))
        <5>1. request' = [request EXCEPT ![p] = request[p]]
          BY <3>1, <4>2 DEF LoseReply
        <5> QED
          BY <2>1, <5>1, <3>1 DEF Shape, TypeOK, WaitsForOwn, LoseReply, Waiting
      <4> QED
        BY <4>1, <4>2
    <3>2. CASE GetDataset \/ GetJob \/ GetError
      BY <3>2 DEF GetDataset, GetJob, GetError
    <3> QED
      BY <1>7, <3>1, <3>2
  <2>3. p \in Requests => request'[p] = x
    BY <2>1 DEF Shape, TypeOK
  <2>4. \A q \in Requests \ {p} : request'[q] = request[q]
    BY <2>1 DEF Shape, TypeOK
  <2>5. HeldAsBefore
    BY <2>1, <2>2, <2>3, <2>4 DEF HeldAsBefore, At
  <2> QED
    BY <1>7, <2>5, InputsKept DEF GetDataset, GetJob, GetError, LoseReply
<1> QED
  BY <1>1, <1>2, <1>3, <1>4, <1>6, <1>7

(* Inputs are named alone and the abandoned ones are counted.              *)
LEMMA InputInvariance == Spec => []InputInv
<1>1. Shape /\ InputInv /\ [Next]_vars => InputInv'
  BY StoreInputs, CommitInputs, LoseInputs, DbtInputs, DeleteInputs, OtherInputs DEF Next
<1> QED
  BY <1>1, InitInputs, ShapeInvariance, PTL DEF Spec

(* Every dataset but a dbt one has its own stored input object, and an     *)
(* object of nobody comes from a request that stopped between              *)
(* upload_csv_bytes and the commit, or from a deleted dataset: no          *)
(* interleaving of uploads, samples, imports and deletions shares or loses *)
(* another.                                                                *)
THEOREM InputsOwned == Spec => []InputsAccounted
<1>1. InputInv => InputsAccounted
  <2> SUFFICES ASSUME InputInv PROVE InputsAccounted
    OBVIOUS
  <2> DEFINE f == [d \in Inputs("present") |-> dataset[d].key]
  <2>1. f \in Bijection(Inputs("present"), Named)
    <3>1. \A d, e \in Inputs("present") : f[d] = f[e] => d = e
      BY DEF InputInv, NamedAlone, Inputs, Stores
    <3>2. f \in [Inputs("present") -> Named]
      BY DEF Named
    <3>3. \A k \in Named : \E d \in Inputs("present") : f[d] = k
      BY DEF Named
    <3> QED
      BY <3>1, <3>2, <3>3 DEF Bijection, Injection, Surjection, IsInjective
  <2>2. Cardinality(Named) = Cardinality(Inputs("present"))
    BY <2>1, FS_Bijection DEF ExistsBijection, InputInv, AllFinite
  <2>3. Named \subseteq stored /\ Named \cap Held = {}
    BY DEF InputInv, NamedAlone, Named, Held, Inputs, Stores
  <2>4. Inputs("present") = {d \in Datasets : Present(d) /\ dataset[d].source # "dbt"}
    BY DEF Inputs, Present
  <2> QED
    BY <2>2, <2>3, <2>4 DEF InputsAccounted, InputInv, Balanced, Abandoned, Named, Held, Inputs
<1> QED
  BY <1>1, InputInvariance, PTL

-----------------------------------------------------------------------------
(* Charges: a published single-table job of which the tab was not told is  *)
(* paid for by a lost reply, or by the answer on its way; and a generation *)
(* that goes on although its tab stopped waiting, by the lost reply.       *)
Asked    == {j \in Jobs : phase[j] # "absent"}
Payable  == {j \in Asked : j \notin multi /\ dataset[origin[j]].source # "dbt"}
Untold   == {j \in Payable : j \notin told /\ j \in published}
OnItsWay == {r \in Requests : /\ AwaitedBy(r) /\ At(r, "ok") /\ request[r].op = "generate"
                              /\ request[r].job \in Untold}
Stranded == {r \in Requests : /\ At(r, "checking") \/ At(r, "committed")
                              /\ ~AwaitedBy(r) /\ request[r].op = "generate"}

JobsKnown ==
  /\ \A j \in Asked : origin[j] \in Datasets /\ dataset[origin[j]].state # "absent"
  /\ published \subseteq Asked
  /\ \A r \in Requests : At(r, "committed") =>
       /\ request[r].op \in {"generate", "multi_generate", "dbt"}
       /\ request[r].job \in Asked
       /\ request[r].op = "multi_generate" => request[r].job \in multi
       /\ request[r].op = "dbt" => dataset[origin[request[r].job]].source = "dbt"
Counted ==
  /\ IsFiniteSet(Asked) /\ usage = Cardinality(Asked)
  /\ IsFiniteSet(Stranded)
  /\ Cardinality(Untold) + Cardinality(Stranded) <= losses + Cardinality(OnItsWay)
ChargeInv == JobsKnown /\ Counted

(* At first nothing is charged.                                            *)
LEMMA InitCharges == Init => ChargeInv
<1> SUFFICES ASSUME Init PROVE ChargeInv
  OBVIOUS
<1>1. /\ \A j \in Jobs : phase[j] = "absent"
      /\ \A r \in Requests : \A s : ~At(r, s)
      /\ published = {} /\ usage = 0 /\ losses = 0
  BY DEF Init, Pipeline!Init, At
<1>2. Asked = {} /\ Untold = {} /\ OnItsWay = {} /\ Stranded = {}
  BY <1>1 DEF Asked, Payable, Untold, OnItsWay, Stranded
<1> QED
  BY <1>1, <1>2, FS_EmptySet DEF ChargeInv, JobsKnown, Counted

(* The sets that are counted are finite, and the answer on its way is one. *)
LEMMA CountedFinite ==
  ASSUME ChargeInv
  PROVE  /\ IsFiniteSet(Asked) /\ IsFiniteSet(Untold) /\ IsFiniteSet(Stranded)
         /\ IsFiniteSet(OnItsWay) /\ OnItsWay \subseteq {page.request}
         /\ Cardinality(Untold) \in Nat /\ Cardinality(Stranded) \in Nat
         /\ Cardinality(OnItsWay) \in Nat
         /\ Cardinality(OnItsWay) <= 1
<1>1. IsFiniteSet(Asked) /\ IsFiniteSet(Stranded) /\ Untold \subseteq Asked
  BY DEF ChargeInv, Counted, Untold, Payable
<1>2. OnItsWay \subseteq {page.request}
  BY DEF OnItsWay, AwaitedBy
<1>3. IsFiniteSet(Untold)
  BY <1>1, FS_Subset
<1>4. IsFiniteSet(OnItsWay) /\ Cardinality(OnItsWay) <= 1
  <2>1. IsFiniteSet({page.request}) /\ Cardinality({page.request}) = 1
    BY FS_Singleton
  <2> QED
    BY <1>2, <2>1, FS_Subset
<1> QED
  BY <1>1, <1>2, <1>3, <1>4, FS_CardinalityType

(* The tab waits for one request, so one answer at most is on its way.     *)
LEMMA OnItsWayFinite == IsFiniteSet(OnItsWay') /\ Cardinality(OnItsWay') \in Nat
<1>1. OnItsWay' \subseteq {page'.request}
  BY DEF OnItsWay, AwaitedBy
<1> QED
  BY <1>1, FS_Subset, FS_Singleton, FS_CardinalityType

(* No new jobs, no new commits: what is known of jobs and datasets stays.  *)
RowsStay ==
  \A d \in Datasets : dataset[d].state # "absent" =>
    dataset'[d].state # "absent" /\ dataset'[d].source = dataset[d].source
NoNewCommit ==
  \A r \in Requests : At(r, "committed")' => At(r, "committed") /\ request'[r] = request[r]

(* Without a new job, the same jobs are payable by the tab.                *)
LEMMA JobsStay ==
  ASSUME JobsKnown, RowsStay, Asked' = Asked, UNCHANGED <<origin, multi>>
  PROVE  /\ Payable' = Payable
         /\ NoNewCommit /\ published' \subseteq Asked => JobsKnown'
<1>1. \A j \in Asked : /\ origin[j] \in Datasets
                       /\ dataset'[origin[j]].state # "absent"
                       /\ dataset'[origin[j]].source = dataset[origin[j]].source
  BY DEF JobsKnown, RowsStay
<1> QED
  BY <1>1 DEF Payable, JobsKnown, NoNewCommit

(* A step that adds no job, publishes none and strands no request keeps    *)
(* the count, if the answer on its way is left alone.                      *)
LEMMA QuietStep ==
  ASSUME Shape, ChargeInv, RowsStay, NoNewCommit, Asked' = Asked,
         UNCHANGED <<origin, multi, published, usage, told, losses>>,
         Stranded' \subseteq Stranded,
         \A r \in OnItsWay : /\ request'[r] = request[r]
                             /\ page'.request = page.request
  PROVE  ChargeInv'
<1>1. JobsKnown' /\ Payable' = Payable
  BY JobsStay DEF ChargeInv, JobsKnown
<1>2. Untold' = Untold
  BY <1>1 DEF Untold
<1>3. OnItsWay \subseteq OnItsWay'
  BY <1>2 DEF OnItsWay, AwaitedBy, At
<1>4. /\ IsFiniteSet(Stranded') /\ Cardinality(Stranded') <= Cardinality(Stranded)
      /\ Cardinality(Stranded') \in Nat
      /\ Cardinality(OnItsWay) <= Cardinality(OnItsWay')
  BY <1>3, CountedFinite, OnItsWayFinite, FS_Subset, FS_CardinalityType
<1>5. losses \in Nat
  BY LossesAssumption DEF Shape, TypeOK
<1> QED
  BY <1>1, <1>2, <1>4, <1>5, CountedFinite, OnItsWayFinite DEF ChargeInv, Counted

(* A handler step that neither commits a job nor publishes one.            *)
LEMMA QuietHandler ==
  ASSUME Shape, ChargeInv, RowsStay, Asked' = Asked,
         UNCHANGED <<origin, multi, published, usage, browser>>,
         NEW r \in Requests, NEW rec, Moved(r, rec), ~At(r, "ok"),
         rec.step \notin {"checking", "committed"}
  PROVE  ChargeInv'
<1>1. /\ request'[r] \in {rec, Gone} /\ \A q \in Requests \ {r} : request'[q] = request[q]
      /\ UNCHANGED <<page, told, losses>>
  BY Moving DEF browser
<1>2. ~At(r, "checking")' /\ ~At(r, "committed")'
  BY <1>1 DEF At
<1>3. \A q \in Requests : \A s : q # r => (At(q, s)' <=> At(q, s))
  BY <1>1 DEF At
<1>4. NoNewCommit
  BY <1>1, <1>2, <1>3 DEF NoNewCommit
<1>5. Stranded' \subseteq Stranded
  BY <1>1, <1>2, <1>3 DEF Stranded, AwaitedBy
<1>6. \A q \in OnItsWay : request'[q] = request[q] /\ page'.request = page.request
  BY <1>1 DEF OnItsWay
<1> QED
  BY <1>1, <1>4, <1>5, <1>6, QuietStep

(* The handlers of ingestions, and a generation that is refused or is not  *)
(* published.                                                              *)
LEMMA InputCharges ==
  ASSUME Shape, ChargeInv, NEW r \in Requests,
         Refuse(r) \/ LoseInput(r) \/ PublishFails(r) \/ StoreInput(r) \/ CommitDataset(r)
  PROVE  ChargeInv'
<1>1. /\ ~At(r, "ok") /\ request[r] \in Request
      /\ UNCHANGED <<origin, multi, published, usage, browser, pipeline>>
  BY Requested DEF Refuse, LoseInput, PublishFails, StoreInput, CommitDataset, ReadyToCommit, At,
                   Shape
<1>2. Asked' = Asked
  BY <1>1 DEF Asked, pipeline
<1>3. CASE Refuse(r) \/ LoseInput(r) \/ PublishFails(r)
  <2>1. RowsStay
    BY <1>3 DEF Refuse, LoseInput, PublishFails, RowsStay
  <2>2. [request[r] EXCEPT !.step = "error"].step = "error"
    BY <1>1 DEF Request
  <2> QED
    BY <1>1, <1>2, <1>3, <2>1, <2>2, Handlers, QuietHandler
<1>4. CASE StoreInput(r)
  <2>1. PICK k \in NewKey : request' = [request EXCEPT ![r].step = "stored", ![r].key = k]
    BY <1>4 DEF StoreInput
  <2>2. k \in Keys /\ At(r, "checking") /\ request[r].op \in Ingestions \ {"dbt"} /\ RowsStay
    BY <1>4, <2>1, FreshIn DEF NewKey, StoreInput, RowsStay
  <2> DEFINE rec == [request[r] EXCEPT !.step = "stored", !.key = k]
  <2>3. Moved(r, rec) /\ rec.step = "stored"
    BY <1>1, <2>1, <2>2, Handlers DEF Request
  <2> HIDE DEF rec
  <2> QED
    BY <1>1, <1>2, <2>2, <2>3, QuietHandler
<1>5. CASE CommitDataset(r)
  <2>1. PICK d \in NewDataset :
          /\ dataset' = [dataset EXCEPT ![d] =
               [state |-> "present", source |-> request[r].op, key |-> request[r].key]]
          /\ Answer(r, [request[r] EXCEPT !.step = "ok", !.dataset = d])
    BY <1>5 DEF CommitDataset
  <2>2. d \in Datasets /\ dataset[d].state = "absent" /\ At(r, "stored")
    BY <1>5, <2>1, FreshIn DEF NewDataset, CommitDataset, ReadyToCommit
  <2>3. RowsStay
    BY <2>1, <2>2 DEF RowsStay, Shape, TypeOK
  <2> DEFINE rec == [request[r] EXCEPT !.step = "ok", !.dataset = d]
  <2>4. Moved(r, rec) /\ rec.step = "ok"
    BY <1>1, <2>1, <2>2, Handlers DEF Request
  <2> HIDE DEF rec
  <2> QED
    BY <1>1, <1>2, <2>3, <2>4, QuietHandler
<1> QED
  BY <1>3, <1>4, <1>5

(* A new job, asked for by a generation request or by the dbt endpoint.    *)
LEMMA AddJobCharges ==
  ASSUME Shape, ChargeInv, RowsStay, NEW r \in Requests, NEW d \in Datasets, At(r, "checking"),
         request[r].op \in {"generate", "multi_generate", "dbt"}, AddJob(r, d),
         dataset'[d].state # "absent", request[r].op = "dbt" => dataset'[d].source = "dbt",
         UNCHANGED <<published, browser>>
  PROVE  ChargeInv'
<1>1. PICK j \in NewJob :
        /\ Pipeline!Submit(j)
        /\ origin' = [origin EXCEPT ![j] = d]
        /\ multi' = IF request[r].op = "multi_generate" THEN multi \cup {j} ELSE multi
        /\ usage' = usage + Events(request[r].op)
        /\ request' = [request EXCEPT ![r].step = "committed", ![r].dataset = d, ![r].job = j]
  BY DEF AddJob
<1>2. j \in Jobs /\ phase[j] = "absent" /\ phase \in [Jobs -> Phases]
      /\ origin \in [Jobs -> Datasets \cup {NoDataset}]
  BY <1>1, FreshIn DEF NewJob, Shape, PipelineOK, TypeOK
<1>3. Asked' = Asked \cup {j} /\ j \notin Asked
  BY <1>1, <1>2 DEF Asked, Pipeline!Submit
<1>4. origin'[j] = d /\ \A i \in Asked : origin'[i] = origin[i] /\ (i \in multi' <=> i \in multi)
  BY <1>1, <1>2, <1>3 DEF Asked
<1>5. \A i \in Asked : /\ origin[i] \in Datasets /\ dataset[origin[i]].state # "absent"
                       /\ dataset'[origin[i]].state # "absent"
                       /\ dataset'[origin[i]].source = dataset[origin[i]].source
  BY DEF ChargeInv, JobsKnown, RowsStay
<1>6. published \subseteq Asked /\ UNCHANGED <<published, page, told, losses>>
  BY DEF ChargeInv, JobsKnown, browser
<1>7. Untold' = Untold
  BY <1>3, <1>4, <1>5, <1>6 DEF Untold, Payable
<1> DEFINE rec == [request[r] EXCEPT !.step = "committed", !.dataset = d, !.job = j]
<1>8. request[r] \in Request /\ Moved(r, rec)
  BY <1>1, <1>2, Requested, Handlers DEF Shape
<1>9. rec.step = "committed" /\ rec.op = request[r].op /\ rec.job = j
  BY <1>8 DEF Request
<1>10. /\ request' \in [Requests -> Request \cup {Idle, Gone}]
       /\ request'[r] = rec /\ \A q \in Requests \ {r} : request'[q] = request[q]
  <2> HIDE DEF rec
  <2>1. UNCHANGED browser
    OBVIOUS
  <2>2. /\ request' \in [Requests -> Request \cup {Idle, Gone}]
        /\ \A q \in Requests \ {r} : request'[q] = request[q]
    BY <1>8, <2>1, Moving
  <2>3. request'[r] = rec
    BY <1>1 DEF rec, Shape, TypeOK
  <2> QED
    BY <2>2, <2>3
<1> HIDE DEF rec
<1>11. \A q \in Requests : \A s : q # r => (At(q, s)' <=> At(q, s))
  BY <1>10 DEF At
<1>12. Stranded' \subseteq Stranded
  BY <1>6, <1>9, <1>10, <1>11 DEF Stranded, AwaitedBy
<1>13. OnItsWay' = OnItsWay
  <2>1. ~At(r, "ok") /\ ~At(r, "ok")'
    BY <1>9, <1>10 DEF At
  <2> QED
    BY <1>6, <1>7, <1>10, <1>11, <2>1 DEF OnItsWay, AwaitedBy
<1>14. JobsKnown'
  <2>1. \A i \in Asked' : origin'[i] \in Datasets /\ dataset'[origin'[i]].state # "absent"
    BY <1>3, <1>4, <1>5
  <2>2. published' \subseteq Asked'
    BY <1>3, <1>6
  <2>3. ASSUME NEW q \in Requests, At(q, "committed")'
        PROVE  /\ request'[q].op \in {"generate", "multi_generate", "dbt"}
               /\ request'[q].job \in Asked'
               /\ request'[q].op = "multi_generate" => request'[q].job \in multi'
               /\ request'[q].op = "dbt" => dataset'[origin'[request'[q].job]].source = "dbt"
    <3>1. CASE q = r
      BY <1>1, <1>3, <1>4, <1>9, <1>10, <3>1
    <3>2. CASE q # r
      BY <1>3, <1>4, <1>5, <1>10, <1>11, <2>3, <3>2 DEF ChargeInv, JobsKnown
    <3> QED
      BY <3>1, <3>2
  <2> QED
    BY <2>1, <2>2, <2>3 DEF JobsKnown
<1>15. IsFiniteSet(Asked') /\ Cardinality(Asked') = Cardinality(Asked) + 1
  BY <1>3, CountedFinite, FS_AddElement
<1>16. /\ IsFiniteSet(Stranded') /\ Cardinality(Stranded') <= Cardinality(Stranded)
       /\ Cardinality(Stranded') \in Nat
  BY <1>12, CountedFinite, FS_Subset, FS_CardinalityType
<1>17. losses \in Nat
  BY LossesAssumption DEF Shape, TypeOK
<1> QED
  BY <1>1, <1>6, <1>7, <1>13, <1>14, <1>15, <1>16, <1>17, CountedFinite
     DEF ChargeInv, Counted, Events

(* The two endpoints that add a job.                                       *)
LEMMA GenerationCharges ==
  ASSUME Shape, ChargeInv, NEW r \in Requests, DbtGenerate(r) \/ StartGeneration(r)
  PROVE  ChargeInv'
<1>1. CASE DbtGenerate(r)
  <2>1. PICK d \in NewDataset :
          /\ dataset' = [dataset EXCEPT ![d] =
               [state |-> "present", source |-> "dbt", key |-> NoKey]]
          /\ AddJob(r, d)
    BY <1>1 DEF DbtGenerate
  <2>2. d \in Datasets /\ dataset[d].state = "absent" /\ dataset \in [Datasets -> Row]
    BY <2>1, FreshIn DEF NewDataset, Shape, TypeOK
  <2>3. RowsStay /\ dataset'[d].state # "absent" /\ dataset'[d].source = "dbt"
    BY <2>1, <2>2 DEF RowsStay
  <2> QED
    BY <1>1, <2>1, <2>2, <2>3, AddJobCharges DEF DbtGenerate
<1>2. CASE StartGeneration(r)
  <2>1. /\ request[r].dataset \in Datasets /\ dataset[request[r].dataset].state # "absent"
        /\ UNCHANGED <<dataset, published, browser>>
    BY <1>2 DEF StartGeneration, Present
  <2>2. RowsStay
    BY <2>1 DEF RowsStay
  <2> QED
    BY <1>2, <2>1, <2>2, AddJobCharges DEF StartGeneration
<1> QED
  BY <1>1, <1>2

(* A publish makes its job one the tab should hear of: its answer is on    *)
(* its way, or the request was stranded, unless the job is not the tab's.  *)
LEMMA PublishCharges ==
  ASSUME Shape, ChargeInv, NEW r \in Requests, Publish(r)
  PROVE  ChargeInv'
<1>1. /\ At(r, "committed") /\ published' = published \cup {request[r].job}
      /\ UNCHANGED <<dataset, origin, multi, usage, page, told, losses, phase>>
      /\ request[r] \in Request /\ request \in [Requests -> Request \cup {Idle, Gone}]
  BY Requested DEF Publish, browser, pipeline, Shape, TypeOK
<1> DEFINE rec == [request[r] EXCEPT !.step = "ok"]
           j   == request[r].job
<1>2. rec \in Request /\ rec.step = "ok" /\ rec.op = request[r].op /\ rec.job = j
  BY <1>1 DEF Request
<1>3. Answer(r, rec)
  BY DEF Publish
<1> HIDE DEF rec
<1>4. /\ request'[r] = IF AwaitedBy(r) THEN rec ELSE Gone
      /\ \A q \in Requests \ {r} : request'[q] = request[q]
  BY <1>2, <1>3, Answering DEF Shape
<1>5. /\ \A q \in Requests : \A s : q # r => (At(q, s)' <=> At(q, s))
      /\ ~At(r, "checking")' /\ ~At(r, "committed")'
      /\ AwaitedBy(r) => At(r, "ok")'
  BY <1>2, <1>4, NullAssumption DEF At
<1>6. Asked' = Asked /\ RowsStay /\ NoNewCommit
  BY <1>1, <1>4, <1>5 DEF Asked, RowsStay, NoNewCommit
<1>7. j \in Asked /\ (j \in Payable => request[r].op = "generate")
  BY <1>1 DEF ChargeInv, JobsKnown, Payable
<1>8. Payable' = Payable /\ JobsKnown'
  BY <1>1, <1>6, <1>7, JobsStay DEF ChargeInv, JobsKnown
<1>9. Untold' = IF j \in Payable \ told THEN Untold \cup {j} ELSE Untold
  BY <1>1, <1>8 DEF Untold
<1>10. Stranded' = Stranded \ {r}
  BY <1>1, <1>4, <1>5 DEF Stranded, AwaitedBy
<1>11. OnItsWay \subseteq OnItsWay'
  <2>1. r \notin OnItsWay
    BY <1>1 DEF OnItsWay, At
  <2> QED
    BY <1>1, <1>4, <1>5, <1>9, <2>1 DEF OnItsWay, AwaitedBy
<1>12. losses \in Nat
  BY LossesAssumption DEF Shape, TypeOK
<1>13. /\ IsFiniteSet(Stranded') /\ Cardinality(Stranded') \in Nat
       /\ Cardinality(Stranded') =
            IF r \in Stranded THEN Cardinality(Stranded) - 1 ELSE Cardinality(Stranded)
  BY <1>10, CountedFinite, FS_RemoveElement, FS_CardinalityType
<1>14. /\ Cardinality(OnItsWay) <= Cardinality(OnItsWay') /\ Cardinality(OnItsWay') \in Nat
  BY <1>11, OnItsWayFinite, FS_Subset
<1>15. Cardinality(Untold') + Cardinality(Stranded') <= losses + Cardinality(OnItsWay')
  <2>0. ASSUME Untold' = Untold \cup {j}
        PROVE  Cardinality(Untold') <= Cardinality(Untold) + 1 /\ Cardinality(Untold') \in Nat
    <3>1. IsFiniteSet(Untold) /\ Cardinality(Untold) \in Nat
      BY CountedFinite
    <3>2. /\ IsFiniteSet(Untold \cup {j})
          /\ Cardinality(Untold \cup {j}) =
               IF j \in Untold THEN Cardinality(Untold) ELSE Cardinality(Untold) + 1
      BY <3>1, FS_AddElement
    <3> HIDE DEF j
    <3> QED
      BY <2>0, <3>1, <3>2
  <2>1. CASE j \notin Payable \ told
    BY <1>9, <1>12, <1>13, <1>14, <2>1, CountedFinite DEF ChargeInv, Counted
  <2>2. CASE j \in Payable \ told /\ ~AwaitedBy(r)
    <3>1. r \in Stranded
      BY <1>1, <1>7, <2>2 DEF Stranded
    <3>2. Cardinality(Untold') <= Cardinality(Untold) + 1 /\ Cardinality(Untold') \in Nat
      BY <1>9, <2>0, <2>2
    <3> QED
      BY <1>12, <1>13, <1>14, <3>1, <3>2, CountedFinite DEF ChargeInv, Counted
  <2>3. CASE j \in Payable \ told /\ AwaitedBy(r)
    <3>1. r \in OnItsWay'
      BY <1>1, <1>2, <1>4, <1>5, <1>7, <1>9, <2>3 DEF OnItsWay, AwaitedBy
    <3>2. OnItsWay = {}
      <4>1. r \notin OnItsWay
        BY <1>1 DEF OnItsWay, At
      <4> QED
        BY <2>3, <4>1, CountedFinite DEF AwaitedBy
    <3>3. Cardinality(OnItsWay) = 0
      BY <3>2, FS_EmptySet
    <3>4. Cardinality(OnItsWay') >= 1
      BY <3>1, OnItsWayFinite, FS_EmptySet
    <3>5. Cardinality(Untold') <= Cardinality(Untold) + 1 /\ Cardinality(Untold') \in Nat
      BY <1>9, <2>0, <2>3
    <3> QED
      BY <1>12, <1>13, <1>14, <3>3, <3>4, <3>5, CountedFinite DEF ChargeInv, Counted
  <2> QED
    BY <2>1, <2>2, <2>3
<1> QED
  BY <1>1, <1>6, <1>8, <1>13, <1>15 DEF ChargeInv, Counted

(* A request that is asked for: the tab waits for it, or it is not for a   *)
(* single-table generation.                                                *)
LEMMA AskCharges ==
  ASSUME Shape, ChargeInv, NEW r \in Requests,
         ApiCall(r) \/ ChooseFile(r) \/ ClickGenerate(r)
  PROVE  ChargeInv'
<1>1. PICK op \in Ingestions \cup {"generate", "multi_generate"},
           d \in Datasets \cup {NoDataset} :
        Ask(r, op, d) /\ (op = "generate" => page'.request = r)
  <2>1. CASE ApiCall(r)
    BY <2>1, ApiAssumption DEF ApiCall, Ingestions
  <2>2. CASE ChooseFile(r)
    BY <2>2 DEF ChooseFile, Send, Ingestions
  <2>3. CASE ClickGenerate(r)
    BY <2>3 DEF ClickGenerate, Send, Shape, TypeOK, Page
  <2> QED
    BY <2>1, <2>2, <2>3
<1>2. /\ request[r] = Idle
      /\ request'[r] = [op |-> op, step |-> "checking", dataset |-> d, key |-> NoKey, job |-> NoJob]
      /\ \A q \in Requests \ {r} : request'[q] = request[q]
  BY <1>1, Asking DEF Shape
<1>3. /\ UNCHANGED <<dataset, origin, multi, published, usage, told, losses, phase>>
      /\ page' = page \/ (page.request = NoRequest /\ page'.request = r)
  <2>1. page.stage \in {"idle", "schema"} => page.request = NoRequest
    BY DEF Shape, WaitsForOwn, Waiting
  <2>2. page \in Page
    BY DEF Shape, TypeOK
  <2> QED
    BY <2>1, <2>2 DEF ApiCall, ChooseFile, ClickGenerate, Send, Page, browser, pipeline
<1>4. \A q \in Requests : \A s : /\ q # r => (At(q, s)' <=> At(q, s))
                                 /\ At(r, s)' => s = "checking"
  BY <1>2 DEF At
<1>5. Asked' = Asked /\ RowsStay /\ NoNewCommit
  BY <1>2, <1>3, <1>4 DEF Asked, RowsStay, NoNewCommit
<1>6. Stranded' \subseteq Stranded
  <2> SUFFICES ASSUME NEW q \in Stranded' PROVE q \in Stranded
    OBVIOUS
  <2>1. q \in Requests /\ page'.request # q /\ request'[q].op = "generate"
    BY DEF Stranded, AwaitedBy
  <2>2. q # r
    BY <1>1, <1>2, <2>1
  <2>3. page.request # q
    BY <1>3, <2>1, NullAssumption
  <2> QED
    BY <1>2, <1>4, <2>1, <2>2, <2>3 DEF Stranded, AwaitedBy
<1>7. \A q \in OnItsWay : request'[q] = request[q] /\ page'.request = page.request
  <2> SUFFICES ASSUME NEW q \in OnItsWay
               PROVE  request'[q] = request[q] /\ page'.request = page.request
    OBVIOUS
  <2>1. q \in Requests /\ page.request = q /\ At(q, "ok")
    BY DEF OnItsWay, AwaitedBy
  <2> QED
    BY <1>2, <1>3, <2>1, NullAssumption DEF At
<1> QED
  BY <1>3, <1>5, <1>6, <1>7, QuietStep

(* The tab takes the answer it waited for.                                 *)
LEMMA AnswerCharges ==
  ASSUME Shape, ChargeInv, GetDataset \/ GetJob \/ GetError
  PROVE  ChargeInv'
<1>0. PICK p \in Requests : page.request = p
  BY DEF GetDataset, GetJob, GetError, Shape, WaitsForOwn, Waiting
<1> USE <1>0
<1>1. /\ request' = [request EXCEPT ![p] = Idle] /\ Waiting /\ p \in Requests
      /\ request \in [Requests -> Request \cup {Idle, Gone}]
      /\ UNCHANGED <<dataset, origin, multi, published, usage, losses, phase>>
      /\ ~At(p, "checking") /\ ~At(p, "committed")
  BY DEF GetDataset, GetJob, GetError, TakeReply, Waiting, At, Shape, WaitsForOwn, TypeOK, pipeline
<1>2. request'[p] = Idle /\ \A q \in Requests \ {p} : request'[q] = request[q]
  BY <1>1
<1>3. \A q \in Requests : \A s : /\ q # p => (At(q, s)' <=> At(q, s))
                                 /\ ~At(p, s)'
  BY <1>2 DEF At
<1>4. Asked' = Asked /\ RowsStay /\ NoNewCommit
  BY <1>1, <1>2, <1>3 DEF Asked, RowsStay, NoNewCommit
<1>5. Stranded' \subseteq Stranded
  BY <1>1, <1>2, <1>3 DEF Stranded, AwaitedBy
<1>6. CASE ~GetJob
  <2>1. told' = told
    BY <1>6 DEF GetDataset, GetError
  <2>2. ~(At(p, "ok") /\ request[p].op = "generate")
    BY <1>6 DEF GetDataset, GetError, Shape, WaitsForOwn, At
  <2>3. OnItsWay = {}
    BY <2>2 DEF OnItsWay, AwaitedBy
  <2> QED
    BY <1>1, <1>4, <1>5, <2>1, <2>3, QuietStep
<1>7. CASE GetJob
  <2> DEFINE j == request[p].job
  <2>1. told' = told \cup {j}
    BY <1>7 DEF GetJob, Reply
  <2>2. Payable' = Payable /\ JobsKnown'
    BY <1>1, <1>4, JobsStay DEF ChargeInv, JobsKnown
  <2>3. Untold' = Untold \ {j}
    BY <1>1, <2>1, <2>2 DEF Untold
  <2>4. OnItsWay \subseteq {p} /\ (p \in OnItsWay => j \in Untold)
    BY DEF OnItsWay, AwaitedBy
  <2>5. /\ IsFiniteSet(Untold) /\ Cardinality(Untold) \in Nat
        /\ Cardinality(OnItsWay) <= 1 /\ Cardinality(OnItsWay) \in Nat
        /\ Cardinality(Stranded) \in Nat /\ IsFiniteSet(Stranded)
    BY CountedFinite
  <2> HIDE DEF j
  <2>6. Cardinality(Untold') = IF j \in Untold THEN Cardinality(Untold) - 1 ELSE Cardinality(Untold)
    BY <2>3, <2>5, FS_RemoveElement
  <2>7. j \notin Untold => Cardinality(OnItsWay) = 0
    BY <2>4, FS_EmptySet
  <2>8. /\ IsFiniteSet(Stranded') /\ Cardinality(Stranded') <= Cardinality(Stranded)
        /\ Cardinality(Stranded') \in Nat
    BY <1>5, <2>5, FS_Subset, FS_CardinalityType
  <2>9. losses \in Nat
    BY LossesAssumption DEF Shape, TypeOK
  <2>10. Cardinality(Untold') \in Nat /\ Cardinality(Untold') + Cardinality(Stranded') <= losses
    <3>1. Cardinality(Untold) + Cardinality(Stranded) <= losses + Cardinality(OnItsWay)
      BY DEF ChargeInv, Counted
    <3>2. j \in Untold => Cardinality(Untold) > 0
      BY <2>5, FS_EmptySet
    <3> QED
      BY <2>5, <2>6, <2>7, <2>8, <2>9, <3>1, <3>2
  <2>11. Cardinality(OnItsWay') \in Nat
    BY OnItsWayFinite
  <2> QED
    BY <1>1, <1>4, <2>2, <2>8, <2>9, <2>10, <2>11 DEF ChargeInv, Counted
<1> QED
  BY <1>6, <1>7

(* The tab gives up: what it waited for is told to nobody, or stranded.    *)
LEMMA LossCharges ==
  ASSUME Shape, ChargeInv, LoseReply
  PROVE  ChargeInv'
<1>0. PICK p \in Requests : page.request = p
  BY DEF LoseReply, Shape, WaitsForOwn, Waiting
<1> USE <1>0
<1>1. /\ losses' = losses + 1 /\ losses \in Nat /\ Waiting /\ p \in Requests
      /\ UNCHANGED <<dataset, origin, multi, published, usage, told, phase>>
      /\ request' = [request EXCEPT ![p] = IF At(p, "ok") \/ At(p, "error") THEN Gone ELSE request[p]]
      /\ request \in [Requests -> Request \cup {Idle, Gone}]
  BY LossesAssumption DEF LoseReply, Waiting, Shape, WaitsForOwn, TypeOK, pipeline
<1>2. page'.request = NoRequest
  BY DEF LoseReply, Shape, TypeOK, Page
<1>3. /\ request'[p] = IF At(p, "ok") \/ At(p, "error") THEN Gone ELSE request[p]
      /\ \A q \in Requests \ {p} : request'[q] = request[q]
  BY <1>1
<1>4. \A q \in Requests : \A s : /\ q # p => (At(q, s)' <=> At(q, s))
                                 /\ At(p, s)' => At(p, s) /\ request'[p] = request[p]
                                 /\ At(p, "ok") => ~At(p, s)'
  <2>1. request'[p] = Gone \/ (request'[p] = request[p] /\ ~At(p, "ok"))
    BY <1>3
  <2> QED
    BY <1>3, <2>1 DEF At
<1>5. Asked' = Asked /\ RowsStay /\ NoNewCommit
  BY <1>1, <1>3, <1>4 DEF Asked, RowsStay, NoNewCommit
<1>6. Payable' = Payable /\ JobsKnown'
  BY <1>1, <1>5, JobsStay DEF ChargeInv, JobsKnown
<1>7. Untold' = Untold
  BY <1>1, <1>6 DEF Untold
<1>8. /\ Stranded' \subseteq Stranded \cup {p}
      /\ At(p, "ok") => Stranded' \subseteq Stranded
  BY <1>3, <1>4 DEF Stranded, AwaitedBy
<1>9. OnItsWay \subseteq {p} /\ (~At(p, "ok") => OnItsWay = {})
  BY DEF OnItsWay, AwaitedBy
<1>10. /\ IsFiniteSet(Stranded) /\ Cardinality(Stranded) \in Nat
       /\ Cardinality(OnItsWay) <= 1 /\ Cardinality(OnItsWay) \in Nat
       /\ Cardinality(Untold) \in Nat
  BY CountedFinite
<1>11. /\ IsFiniteSet(Stranded \cup {p}) /\ Cardinality(Stranded \cup {p}) <= Cardinality(Stranded) + 1
       /\ Cardinality(Stranded \cup {p}) \in Nat
  <2>1. /\ IsFiniteSet(Stranded \cup {p})
        /\ Cardinality(Stranded \cup {p}) =
             IF p \in Stranded THEN Cardinality(Stranded) ELSE Cardinality(Stranded) + 1
    BY <1>10, FS_AddElement
  <2> QED
    BY <1>10, <2>1
<1>12. IsFiniteSet(Stranded') /\ Cardinality(Stranded') \in Nat
  BY <1>8, <1>11, FS_Subset, FS_CardinalityType
<1>13. Cardinality(Stranded') + Cardinality(OnItsWay) <= Cardinality(Stranded) + 1
  <2>1. CASE At(p, "ok")
    <3>1. Cardinality(Stranded') <= Cardinality(Stranded)
      BY <1>8, <1>10, <2>1, FS_Subset
    <3> QED
      BY <1>10, <1>12, <3>1
  <2>2. CASE ~At(p, "ok")
    <3>1. Cardinality(OnItsWay) = 0
      BY <1>9, <2>2, FS_EmptySet
    <3>2. Cardinality(Stranded') <= Cardinality(Stranded \cup {p})
      BY <1>8, <1>11, FS_Subset
    <3> QED
      BY <1>10, <1>11, <1>12, <3>1, <3>2
  <2> QED
    BY <2>1, <2>2
<1>14. Cardinality(Untold) + Cardinality(Stranded) <= losses + Cardinality(OnItsWay)
  BY DEF ChargeInv, Counted
<1>15. Cardinality(OnItsWay') \in Nat
  BY OnItsWayFinite
<1>16. Cardinality(Untold') + Cardinality(Stranded') <= losses' + Cardinality(OnItsWay')
  BY <1>1, <1>7, <1>10, <1>12, <1>13, <1>14, <1>15
<1> QED
  BY <1>1, <1>5, <1>6, <1>12, <1>16 DEF ChargeInv, Counted

(* The steps that are not about requests.                                  *)
LEMMA RestCharges ==
  ASSUME Shape, ChargeInv,
         \/ \E d \in Datasets : BeginDelete(d) \/ DeleteDataset(d)
         \/ \E j \in Jobs : Begin(j) \/ Finish(j) \/ Fail(j)
         \/ Poll \/ PollRefused \/ Reload \/ StartOver
         \/ UNCHANGED vars
  PROVE  ChargeInv'
<1>1. /\ UNCHANGED <<request, origin, multi, published, usage, told, losses>>
      /\ page'.request = page.request
  <2>1. CASE Poll \/ PollRefused \/ Reload
    <3>1. page \in Page
      BY DEF Shape, TypeOK
    <3>2. page'.request = page.request
      <4>1. CASE Poll
        BY <3>1, <4>1 DEF Poll, Page
      <4>2. CASE PollRefused
        BY <3>1, <4>2 DEF PollRefused, Page
      <4>3. CASE Reload
        BY <3>1, <4>3 DEF Reload, Page
      <4> QED
        BY <2>1, <4>1, <4>2, <4>3
    <3> QED
      BY <2>1, <3>2 DEF Poll, PollRefused, Reload, server
  <2>2. CASE StartOver
    BY <2>2 DEF StartOver, server, NewPage, Shape, WaitsForOwn, Waiting
  <2>3. CASE ~(Poll \/ PollRefused \/ Reload \/ StartOver)
    BY <2>3 DEF BeginDelete, DeleteDataset, Begin, Finish, Fail, vars, server, browser
  <2> QED
    BY <2>1, <2>2, <2>3
<1>2. RowsStay
  <2>1. dataset' = dataset \/ \E d \in Datasets : dataset' = [dataset EXCEPT ![d].state = "deleted"]
    BY DEF BeginDelete, DeleteDataset, Begin, Finish, Fail, Poll, PollRefused, Reload, StartOver,
           vars, server
  <2> QED
    BY <2>1 DEF RowsStay, Shape, TypeOK, Row
<1>3. Asked' = Asked
  <2>1. ASSUME NEW d \in Datasets, DeleteDataset(d)
        PROVE  Asked' = Asked
    BY <2>1 DEF DeleteDataset, Asked, JobsOf, Pipeline!Live
  <2>2. ASSUME NEW j \in Jobs, Begin(j) \/ Finish(j) \/ Fail(j)
        PROVE  Asked' = Asked
    BY <2>2 DEF Begin, Finish, Fail, Pipeline!Start, Pipeline!Finish, Pipeline!Fail, Pipeline!Live,
                Asked, Shape, PipelineOK
  <2>3. ASSUME phase' = phase
        PROVE  Asked' = Asked
    BY <2>3 DEF Asked
  <2> QED
    BY <2>1, <2>2, <2>3 DEF BeginDelete, Poll, PollRefused, Reload, StartOver, vars, pipeline
<1>4. NoNewCommit /\ Stranded' = Stranded
  BY <1>1 DEF NoNewCommit, Stranded, AwaitedBy, At
<1> QED
  BY <1>1, <1>2, <1>3, <1>4, QuietStep

(* Jobs are known and charges are counted.                                 *)
LEMMA ChargeInvariance == Spec => []ChargeInv
<1>1. Shape /\ ChargeInv /\ [Next]_vars => ChargeInv'
  BY InputCharges, GenerationCharges, PublishCharges, AskCharges, AnswerCharges, LossCharges,
     RestCharges DEF Next
<1> QED
  BY <1>1, InitCharges, ShapeInvariance, PTL DEF Spec

(* Each generation is charged once, and a single-table generation the tab  *)
(* does not know of is one lost reply, failed publish or answer on its     *)
(* way: resending after a network error is the only way to pay unknowingly.*)
THEOREM ChargesExplained == Spec => []ChargedOnce
<1>1. Shape /\ ChargeInv => ChargedOnce
  <2> SUFFICES ASSUME Shape, ChargeInv PROVE ChargedOnce
    OBVIOUS
  <2> DEFINE unknown == {j \in Jobs : /\ phase[j] # "absent" /\ j \notin told /\ j \notin multi
                                      /\ dataset[origin[j]].source # "dbt"}
             coming  == {r \in Requests : AwaitedBy(r) /\ At(r, "ok") /\ request[r].op = "generate"}
  <2>1. unknown \subseteq Asked /\ unknown \cap published = Untold
    BY DEF Asked, Payable, Untold
  <2>2. OnItsWay \subseteq coming /\ coming \subseteq {page.request}
    BY DEF OnItsWay, AwaitedBy
  <2> HIDE DEF unknown, coming
  <2>3. IsFiniteSet(unknown) /\ IsFiniteSet(coming)
    BY <2>1, <2>2, CountedFinite, FS_Subset, FS_Singleton
  <2>4. /\ Cardinality(unknown \ published) = Cardinality(unknown) - Cardinality(Untold)
        /\ Cardinality(unknown \ published) \in Nat /\ Cardinality(unknown) \in Nat
    BY <2>1, <2>3, FS_Difference, FS_CardinalityType
  <2>5. Cardinality(OnItsWay) <= Cardinality(coming) /\ Cardinality(coming) \in Nat
    BY <2>2, <2>3, FS_Subset, FS_CardinalityType
  <2>6. losses \in Nat /\ Cardinality(Untold) + Cardinality(Stranded) <= losses + Cardinality(OnItsWay)
    BY LossesAssumption DEF Shape, TypeOK, ChargeInv, Counted
  <2>7. Cardinality(unknown) <= losses + Cardinality(unknown \ published) + Cardinality(coming)
    BY <2>4, <2>5, <2>6, CountedFinite
  <2>8. usage = Cardinality({j \in Jobs : phase[j] # "absent"})
    BY DEF ChargeInv, Counted, Asked
  <2> QED
    BY <2>7, <2>8 DEF ChargedOnce, unknown, coming
<1> QED
  BY <1>1, ShapeInvariance, ChargeInvariance, PTL

-----------------------------------------------------------------------------
(* What handlers, workers and deletions do to the jobs is what the         *)
(* contract of the pipeline allows, a deletion taking only live jobs, and  *)
(* the browser does nothing to them.  So what the contract promises (and   *)
(* JobLifecycle implements) is promised here too.                          *)
THEOREM PipelineAsPromised == Spec => Pipeline!Spec
<1>1. Init => Pipeline!Init
  BY DEF Init
<1>2. [Next]_vars => [Pipeline!Next]_(Pipeline!vars)
  <2> SUFFICES ASSUME [Next]_vars
               PROVE  Pipeline!Next \/ UNCHANGED Pipeline!vars
    OBVIOUS
  <2>1. ASSUME UNCHANGED pipeline
        PROVE  UNCHANGED Pipeline!vars
    BY <2>1 DEF pipeline, Pipeline!vars
  <2>2. ASSUME NEW r \in Requests, NEW d, AddJob(r, d)
        PROVE  Pipeline!Next
    <3>1. PICK j \in NewJob : Pipeline!Submit(j)
      BY <2>2 DEF AddJob
    <3>2. j \in Jobs
      BY FreshIn DEF NewJob
    <3> QED
      BY <3>1, <3>2 DEF Pipeline!Next
  <2>3. ASSUME NEW r \in Requests, DbtGenerate(r) \/ StartGeneration(r)
        PROVE  Pipeline!Next
    BY <2>2, <2>3 DEF DbtGenerate, StartGeneration
  <2>4. ASSUME NEW r \in Requests,
               \/ ApiCall(r) \/ Refuse(r) \/ LoseInput(r) \/ Publish(r) \/ PublishFails(r)
               \/ ChooseFile(r) \/ ClickGenerate(r) \/ StoreInput(r) \/ CommitDataset(r)
        PROVE  UNCHANGED pipeline
    BY <2>4, Zenon DEF ApiCall, Refuse, LoseInput, Publish, PublishFails, ChooseFile,
                       ClickGenerate, StoreInput, CommitDataset, Send
  <2>5. ASSUME NEW d \in Datasets, DeleteDataset(d)
        PROVE  Pipeline!Next
    <3>1. JobsOf(d) \in SUBSET Jobs /\ \A j \in JobsOf(d) : Pipeline!Live(j)
      BY DEF JobsOf
    <3>2. Pipeline!Delete
      BY <2>5, <3>1 DEF DeleteDataset, Pipeline!Delete
    <3> QED
      BY <3>2 DEF Pipeline!Next
  <2>6. ASSUME NEW d \in Datasets, BeginDelete(d)
        PROVE  UNCHANGED pipeline
    BY <2>6 DEF BeginDelete
  <2>7. ASSUME NEW j \in Jobs, Begin(j) \/ Finish(j) \/ Fail(j)
        PROVE  Pipeline!Next
    BY <2>7 DEF Begin, Finish, Fail, Pipeline!Next
  <2>8. CASE GetDataset \/ GetJob \/ GetError \/ LoseReply \/ Poll \/ PollRefused \/ Reload \/ StartOver
    BY <2>1, <2>8 DEF GetDataset, GetJob, GetError, LoseReply, Poll, PollRefused, Reload, StartOver
  <2>9. CASE UNCHANGED vars
    BY <2>1, <2>9 DEF vars
  <2> QED
    BY <2>1, <2>3, <2>4, <2>5, <2>6, <2>7, <2>8, <2>9 DEF Next
<1> QED
  BY <1>1, <1>2, PTL DEF Spec, Pipeline!Spec
=============================================================================
