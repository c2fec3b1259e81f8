# Data generator: a verification project

This directory specifies the synthetic data generator in TLA+: its generation
pipeline, the expiry of its outputs, the deletion of datasets, the limit of the
free tier and the subscriptions that lift it, accounts with their sessions and
API keys, what happens to the columns of a dataset between the file and the
model, and the web application that puts these together. Each module is
translated from the code under `src/` and checked twice: TLC explores every
behaviour of a small instance, and TLAPS proves the central safety properties
for any number of jobs, workers, requests, retries, webhooks and faults.
`PROJECT.json` maps each definition to the lines it models.

Contents: [the system](#the-system), [the modules](#the-modules),
[the runs](#the-runs), [the proofs](#the-proofs),
[where code and documents disagree](#where-code-and-documents-disagree),
[simplifications](#simplifications), [not modelled](#not-modelled).

## The system

A FastAPI service accepts CSV files, stores them in S3 and answers requests to
synthesise more rows like them. Synthesis runs in Celery workers fed through
Redis. PostgreSQL holds users, datasets, jobs, tokens, keys and subscriptions.
A Next.js client polls the job and downloads the result.

| Component | State it keeps | Operations |
|---|---|---|
| Request handlers (`app/main.py`, `app/routes/*`) | rows of `datasets`, `generation_jobs`, `usage_events` | upload, start generation, status, download |
| Task (`app/tasks.py`, `app/celery_app.py`) | job status, output key, `expires_at`; messages in Redis; objects in S3 | run, retry, fail, time out |
| Cleanup (`app/tasks.py:342`) | output keys and objects | select expired, delete objects, commit |
| Dashboard (`app/routes/dashboard.py`) | datasets and, by cascade, jobs | list, delete; the input object stays |
| Quota (`app/main.py:202`) | `usage_events`, `users.tier` | count, allow, record |
| Sessions (`app/routes/auth.py`) | refresh tokens, users | register, log in, rotate, log out, Google |
| Billing (`app/routes/billing.py`) | `subscriptions`, `users.tier`, Stripe customer | checkout, webhooks |
| API keys (`app/routes/keys.py`, `app/deps.py`) | keys, request counters | create, use, revoke |
| Ingestion (`app/main.py`, `app/routes/samples.py`, `database.py`, `dbt.py`, `multi_table.py`) | datasets and their S3 objects | validate, store, insert |
| Parsers (`app/dbt_parser.py`, `app/pii.py`) | none; their result is `datasets.schema_json` | map types, find personal data |
| Client (`frontend/`) | the stage of the page, the job shown, the tokens | upload, generate, poll, reload, start over |

How they interact. A handler commits the job row and its usage event in one
transaction and *then* publishes a message. A worker reserves the message,
loads the row, sets it running, synthesises, uploads the output and *then*
commits the row that names it. It acknowledges when the task is over, and
publishes a retry *before* that. The cleanup is another task of the same workers,
for which `celery_app.py` has an hourly schedule; what the compose file starts is
a worker without a beat, so nothing shipped with the repository publishes it.
Webhooks from Stripe change the tier that handlers have already read. Nothing
is locked: every handler reads, awaits and writes back, and everything that
keeps two stores in step (row and message, row and object) is an order of two
steps, each of which can be the last one.

Where it is hard, with the properties that make each part correct:

- *Commit, then publish.* A request can die in between. A queued or running job
  must be carried by a request, a message or a worker (`NoJobLost`), and must
  come to rest (`JobsSettle`).
- *Late acknowledgement and retries.* A message may be delivered again when a
  worker is lost. Without such a loss a job is never run by two workers at once
  (`ExclusiveExecution`) nor more often than its retries allow
  (`BoundedExecutions`), and done means done (`DoneIsFinal`).
- *Upload, then commit.* No object may be left behind without a fault
  (`NoOrphanWithoutFault`).
- *Delete objects, then forget them.* The cleanup must not take an output that
  is still promised, although a job may be run again under it
  (`DanglingOnlyExpired`), and where a beat runs it must reclaim what has expired,
  whatever became of the cleanup before (`ExpiredReclaimed`).
- *Deletion of a dataset under its jobs*, in every interleaving of the above.
- *Read the count, then add to it.* Overlapping requests may overrun the limit,
  and it matters by how much (`OverrunBounded`).
- *Webhooks* come in any order, again, and two at a time. Who has paid must have
  the paid tier (`PaidIsPro`), who has stopped must lose it (`LapsedIsFree`),
  and the table must come to agree with Stripe (`RecordMirrorsStripe`).
- *What the client sees.* All of this together must still be the simple life of
  a job that the API promises (`ImplementsContract`).
- *Look up, then insert.* Sign-ups, Google callbacks and rotations overlap. One
  account per address and subject (`OneAccountEach`), a bound on the tokens a
  session can hold (`RotationBounded`), a session that is over stays over
  (`SessionOverForGood`), a revocation survives calls that read the key before
  it (`MarksKept`), and the counter that loses updates never invents one
  (`CountSound`).
- *Store, then commit.* An upload can stop between the two, and nothing deletes
  an input object: each object is a dataset's own or accounted for
  (`InputsAccounted`).
- *Lost replies.* A job can be committed and charged although the user saw an
  error. Every charge is a job, and a job unknown to the user has one of three
  reasons (`ChargedOnce`).
- *Polling stops* at failed, although the task may be retried, and when the
  access token expires, which nothing renews. It must stop once the job has come
  to rest (`PollingEnds`), and what it leaves on the screen must be explained
  (`ShownExplained`).
- *Types detected twice and named in two vocabularies, columns kept in three
  collections.* Personal data is never fitted (`PiiNeverFitted`), a type that was
  chosen reaches the model although the worker detects afresh and skips what SDV
  refuses (`TypesAsChosen`), and what a dbt document declares twice, or without
  a name, is still consistent (`DbtConsistent`).

The full list, line by line, is `hazards` in `PROJECT.json`.

## The modules

| Module | What it is |
|---|---|
| `JobLifecycle` | requests, dataset deletion, workers, retries, faults, outputs and cleanups, one action per step another process can observe |
| `JobContract` | what the pipeline promises the client: the life of a job and of its output, without queues, workers or S3 |
| `MCJobLifecycle` | instances for TLC: two jobs of one dataset, the fault budgets, the symmetry |
| `JobLifecycle_proofs` | theorems about `JobLifecycle`, and that it implements `JobContract` |
| `Quota` | the monthly limit of the free tier under overlapping requests, tier changes and new months |
| `MCQuota`, `Quota_proofs` | its instance, and its theorems |
| `Billing` | checkouts, Stripe's webhooks, the rows of `subscriptions` and the tier derived from them |
| `MCBilling`, `Billing_proofs` | its instance, and its theorems |
| `Accounts` | sign-ups, Google sign-in, sessions of refresh tokens, API keys, under overlapping requests |
| `MCAccounts`, `Accounts_proofs` | its instance, and its theorems |
| `Columns` | the PII scan, types detected twice, overrides and dbt schemas, from ingestion to the fitted model |
| `MCColumns`, `Columns_proofs` | its files and documents, and its theorems |
| `Workspace` | the ingestion and generation endpoints and the two pages that call them, composed with `JobContract` |
| `Workspace_proofs` | its theorems, and that it changes jobs only as `JobContract` allows |

### JobLifecycle

| Variables | In the code |
|---|---|
| `status`, `outKey`, `expires` | columns of `generation_jobs`; `expires_at` as NULL, in the future or in the past |
| `executions` | how often the row was set running (kept only by the model) |
| `dataset`, `deleter` | the `datasets` row; a DELETE request between loading the jobs and its flush |
| `api` | the handler of POST `/api/generate`: dataset checked, committed, published or ended |
| `queue`, `msg` | the ready messages in Redis; the message a worker holds unacknowledged |
| `pc`, `upload` | where a worker is in the task; its local `output_key` |
| `object` | each S3 key: unused, stored or deleted |
| `todo`, `cleared` | what a cleanup has selected, and what its open transaction has cleared |
| `faults` | how many faults of each kind have happened |

A step is the code between two points another process can observe. The request
is `CheckDataset`, `CommitJob`, `Enqueue` (`RequestFails` when the foreign key
or the refresh refuses). A delete is `LoadForDelete`, `DeleteDataset`. A task
is `Take`, `Begin` (or `BeginMissing`), `UploadOutput`, `CommitDone`, `Ack`,
with `FailJob`, `Retry`, `GiveUp`, `SoftTimeout` and `CommitGone` for the
exceptions. A cleanup is `SelectExpired`, `DeleteOutput` for each row and
`CommitCleared`. `Lapse` is time passing an `expires_at`.

Faults are actions that spend a budget, one per kind: a publish that is lost,
an exception in the task, the soft limit, a pool child that dies (hard limit,
memory, a broken database session), a worker that crashes as a whole, a delete
that S3 refuses, a cleanup that is killed. Properties name the kinds they
survive. What happens to a message then follows from `app/celery_app.py`: `Take`
holds it unacknowledged (`task_acks_late`), `Crash` puts it back, and `Die`
acknowledges it, as Celery does for a lost pool child unless
`task_reject_on_worker_lost` is set.

`Kind` says what sort of dataset a job is for. Jobs of kind `multi` and `dbt` can
only fail, see [below](#where-code-and-documents-disagree).

### JobContract

The client's view: a job is absent, queued, running, done, failed or deleted;
its output is none, live, expired or removed. Until a worker has crashed the
contract is strong: attempts are bounded, a done job is never worked on again,
an output is removed only once expired. After a crash the contract still says
that a job becomes done only together with a fresh output. The refinement
mapping in `JobLifecycle` reads `output` off the key and `expires_at`, as
`get_job_status` and `get_download_url` do.

### Quota

`counted` are this month's events of requests that went through the check,
`exempt` those of requests that authenticated as paid, the multi-table and dbt
endpoints (which require a paid tier and do not check) among them. A handler
authenticates, then counts, then commits; between these a webhook may change
the tier and the month may turn. `MaxPaid` bounds only the uncounted events,
which nothing else limits.

### Billing

| Variables | In the code |
|---|---|
| `tier`, `customer` | columns of `users` |
| `row` | `subscriptions.status`, by Stripe subscription |
| `page`, `payer` | the checkout session a subscription comes from, and the customer it was opened for |
| `stripe`, `changes`, `pending` | the status at Stripe, how often it changed, and the webhooks still to be answered |
| `work` | what each webhook handler has read: event, tier, whether the user was found, status, row, whether no other subscription is active |
| `lapsed`, `overlapped`, `spent` | history for the properties, and the fault budgets |

POST `/api/billing/checkout` is `OpenCheckout` and, for a new customer,
`SaveCustomer`: two requests can do the first before either does the second.
`Pay` and `Change` are Stripe's. A webhook handler is `Receive` (dispatch and
loading the user), `Retrieve` (only after a checkout), `FindRow`, `CountOthers`
(only to downgrade) and one commit, `CommitCheckout` or `CommitUpdate`. A commit
writes the columns whose value differs from what the handler read, which is what
the ORM's unit of work emits. `RefuseInsert` is the unique subscription id,
`Fail` any exception before the commit: Stripe then calls again.

### Accounts

| Variables | In the code |
|---|---|
| `account` | `users`: address, `google_sub`, whether there is a password |
| `pro` | users whose tier passes `require_pro`; `Billing` says how they get it |
| `token` | `refresh_tokens`: unused value, live, expired or revoked; the session (its first token) and the owner |
| `key` | `api_keys`: unused, active or revoked; owner and `request_count` |
| `request` | what each overlapping handler has read and not yet committed |
| `reused`, `served`, `overlapped` | history: refreshes that committed on a revoked token, calls served, keys two calls have used at once |

A handler is two actions where what it read can be stale when it commits:
`RegisterRead` and `RegisterCommit`, `GoogleRead` and `GoogleCommit`,
`RefreshRead` and `RefreshCommit`, `UseRead` and `UseCommit`. `Login`, `Logout`,
`CreateKey` and `RevokeKey` are one step each: nothing another request does
between their read and their commit changes what they write. A commit writes only
the columns the handler assigned, and the unique indexes on address and
subject refuse it where they must; `Abandon` is that refusal, or any other end
without a commit. Two refreshes of one token do both succeed: the code revokes
without looking again. `RotationBounded` says exactly what that costs.

### Columns

| Variables | In the code |
|---|---|
| `input` | the uploaded file, column by column, or the dbt document |
| `schema` | `datasets.schema_json`: mode, columns with the types shown, PII columns, dbt metadata |
| `overrides` | `schema_overrides` in the task's message: any strings, for any columns |
| `fitted` | the types in the metadata the synthesiser is fitted with |
| `stage` | how far the dataset has come |

The module is the code's pure functions, under their own names, with the five
steps that call them. A value is the set of patterns that match it, a name the
set of heuristics that hit it, a dbt type one string per group of the type
table: that is all the functions tell apart. Order matters where the code
returns at the first hit (`FirstHit`), counts where it compares with a threshold,
and a dict keeps the last of equal keys (`LastOf`). The columns parsed of a model
stay at their places in the document, the nameless ones left out. A request asks
for one of `ModelNames`, which the document may lack (`DbtReject`). The
properties are stated over the input, in other terms than the functions use.

A column has two types from SDV: `sdtype`, detected on the frame that was in
memory at ingestion and displayed, and `reread`, detected by the worker on the
stored CSV without the personal columns. The module relates them in no way. For a
database table they can differ: a VARCHAR of `00123`s comes back from the CSV
as numbers. `Fit` goes by the second, and `update_columns` applies the overrides
as the task does, one by one: a column that is not there, or a type SDV does not
know (`SdvTypes`), raises, is logged and is skipped. `TypeNames` are the strings
a client may send: the four of the page, an sdtype, and a word that is neither.

### Workspace

| Variables | In the code |
|---|---|
| `dataset` | `datasets` rows: absent, present or deleted; source and `s3_key` |
| `deleting` | datasets whose DELETE has seen no jobs and has not flushed yet |
| `stored` | input objects in S3 |
| `request` | handlers in progress: checked, stored, committed, answered; `Gone` when nobody waits for the answer |
| `origin`, `multi`, `published`, `usage` | a job's dataset, its task, whether its message was published; the usage events |
| `page`, `told`, `losses` | the tab: stage, awaited request, dataset, job, status shown; the jobs it has heard of; replies lost |
| `phase`, `output`, `attempt`, `crashed` | the pipeline, with `JobContract`'s names |

A request to an ingestion endpoint is `StoreInput` and `CommitDataset` (or
`Refuse`, or `LoseInput` between the two), one to a generation endpoint
`StartGeneration` and `Publish` (or `PublishFails`); `DbtGenerate` commits
dataset, job and event at once. `ApiCall` is the same endpoints used without the
web client. The tab sends with `ChooseFile` and `ClickGenerate`, takes answers
with `GetDataset`, `GetJob`, `GetError`, gives up with `LoseReply`, and polls
with `Poll`. The pipeline is `INSTANCE JobContract`, which `JobLifecycle` is
proved to implement: `Workspace` takes its steps and adds what a worker needs,
a published message and an input it can read.

## The runs

| Run | Instance | Shows |
|---|---|---|
| `job_safety` | 2 jobs of 1 dataset, 2 workers, 1 cleanup, 3 keys, 1 retry, one fault of every kind and two exceptions | all safety properties, `DoneIsFinal`, and the refinement of `JobContract` |
| `job_liveness` | the same with a job of each of two kinds, 2 retries; a crash, a soft timeout and a killed cleanup | `JobsSettle`, `ExpiredReclaimed`, the first under fairness, the second if a beat runs too |
| `job_hardkill` | as `job_safety` | `InterruptedIsRequeued` is violated |
| `job_delete` | no faults | `DeleteHonoured` is violated |
| `job_broken_kinds` | no faults, a multi-table and a dbt job | `FailedOnlyByFault` is violated |
| `quota` | a user with 2 handlers and one with 1, limit 2 | `OverrunBounded` |
| `billing` | 1 user, 2 subscriptions with 2 status changes each, 2 customers, 2 handlers, one repeat, one overtaking, one failure | `PaidIsPro`, `LapsedIsFree`, `RecordMirrorsStripe` |
| `billing_recovery` | 1 handler, every webhook once and in order | `ActiveIsPro` is violated |
| `billing_overlap` | 2 handlers, every webhook once and in order | `NoOtherActiveIsFree` is violated |
| `accounts` | 2 users, 2 addresses with one Google subject, 3 tokens, 1 key, 3 overlapping requests, 3 calls | `OneAccountEach`, `RotationBounded`, `CountSound`, `SessionOverForGood`, `MarksKept` |
| `columns` | two-column files with up to 5 values in a column and a sample of 4, each type detected twice, with overrides of any columns by 6 strings; dbt documents of up to 3 models and 2 columns each, limits of 2 and 2, and requests for two model names | `PiiNeverFitted`, `TypesAsChosen`, `DbtConsistent` |
| `workspace` | 2 requests, datasets, objects and jobs; dbt and multi-table calls beside the browser; 2 attempts, 1 lost reply, 1 deletion | `InputsAccounted`, `ChargedOnce`, `ShownExplained`, `PollingEnds` |

*Why the bounds are enough.* Two workers and two jobs are what exclusion,
redelivery and the interference of a cleanup with a second run need; the
cleanup must hold two rows at once for its single commit to matter, hence two
jobs in one batch. Three keys let one job upload twice while the other uploads
once: the case where a cleanup forgets a newer key than the one it deleted. One
retry is enough for a retry to race its predecessor's acknowledgement, and a
second exception then exhausts it; the liveness run uses the code's value of
two. One crash already gives two deliveries of one job, alive at once with the
retry. For billing, two subscriptions of one user are what the count of others
needs (users share nothing but the handlers), two changes a failure and a
recovery, and each budget of one lets that trouble meet every other; symmetry
permutes subscriptions of the same user, customers and handlers. For accounts, three
requests are two that overlap and a third that commits between them, and three
tokens a rotation and its rival; one subject for both addresses is the case in
which the two unique columns disagree about whose account it is. The
constraint `KeyOrTokens` explores calls with a key beside one session only,
since keys and rotations share no state; symmetry permutes tokens, requests and
users. For columns, a sample of 4 with a fifth value puts matches inside and
outside the sample, and on both sides of three in ten; a document one larger
than each limit is refused. For the workspace, two of everything let an upload,
a generation, a deletion and a call of another client overlap, and one lost
reply is resent. The theorems below hold for any values of the constants, so the
bounds limit only the liveness properties and what the violated runs show.

*Deadlock.* The job runs have `CHECK_DEADLOCK FALSE`: when every request,
message and fault budget is spent the pipeline rests, as it should. So do
the billing runs, when all webhooks are answered; the columns run, when the
dataset is fitted or refused; and the accounts and workspace runs, when the
bounded ids and calls are used up. The quota run checks for deadlock.

*Fairness.* A request that has begun runs to its end (no lock, no wait on
another process), a worker keeps executing (`restart: unless-stopped`, Celery's
loop), a cleanup that has begun goes on, and time passes. Fairness is weak and
per process: nothing promises that a particular message is next, that a client
asks, that a cleanup begins, or that a fault happens. `JobsSettle` needs the
finite budget of crashes; a worker that crashes for ever finishes nothing.
`ExpiredReclaimed` has the beat as a premise (`BeatRuns`), since the code
configures one and nothing starts it; without the premise it is false, as no
cleanup ever begins.

In `Workspace` the only fairness is that the tab's timer fires and some poll is
answered. Nothing is assumed of the workers: a job whose publish failed stays
queued and one whose pool child was killed stays running (`job_hardkill`).
`PollingEnds` therefore speaks of jobs at rest. A page that polls a job which never
comes to rest goes on until its access token has expired, 15 minutes at most, and
the refused poll (`PollRefused`) stops it.

## The proofs

Every safety property that a passing run checks is proved, whether of states or
of steps, for all values of the constants that satisfy the named assumptions:

| Module | Theorem | Property |
|---|---|---|
| `JobLifecycle_proofs` | `TypeCorrect` | `TypeOK` |
|  | `OutputsSafe` | `DanglingOnlyExpired` |
|  | `ExecutionExclusive` | `ExclusiveExecution` |
|  | `ExecutionsBounded` | `BoundedExecutions` |
|  | `JobsCarried` | `NoJobLost` |
|  | `NoOutputOrphaned` | `NoOrphanWithoutFault` |
|  | `DoneStaysDone` | `DoneIsFinal` |
|  | `PipelineImplementsContract` | `ImplementsContract` |
| `Quota_proofs` | `TypeCorrect` | `TypeOK` |
|  | `OverrunIsBounded` | `OverrunBounded` |
| `Billing_proofs` | `TypeCorrect` | `TypeOK` |
|  | `PaidUsersKeepPro` | `PaidIsPro` |
|  | `LapsedUsersAreFree` | `LapsedIsFree` |
|  | `RecordsMirrorStripe` | `RecordMirrorsStripe` |
| `Accounts_proofs` | `TypeCorrect` | `TypeOK` |
|  | `AccountsUnique` | `OneAccountEach` |
|  | `RotationIsBounded` | `RotationBounded` |
|  | `CountsSound` | `CountSound` |
|  | `SessionsEnd` | `SessionOverForGood` |
|  | `MarksStay` | `MarksKept` |
| `Workspace_proofs` | `TypeCorrect` | `TypeOK` |
|  | `InputsOwned` | `InputsAccounted` |
|  | `ChargesExplained` | `ChargedOnce` |
|  | `PagesTruthful` | `ShownExplained` |
|  | `PipelineAsPromised` | the contract, `Pipeline!Spec` |
| `Columns_proofs` | `TypeCorrect` | `TypeOK` |
|  | `PersonalDataNotFitted` | `PiiNeverFitted` |
|  | `FittedAsChosen` | `TypesAsChosen` |
|  | `DbtReadAlike` | `DbtConsistent` |

The assumptions are the `ASSUME`s of the modules, which TLC evaluates on every
run. They say what the constants stand for: null values are none of the values
they stand in for, bounds and limits are naturals, a job has a dataset, a
handler a user, a subscription a buyer. Those of `Columns` describe the inputs:
a value is a set of patterns, and a dbt model's columns are a sequence. Of SDV
they assume that it knows the four sdtypes in the worker's table and has none
called `numeric`.

The two refinements fit together: `JobLifecycle` implements `JobContract`
(`PipelineImplementsContract`), and `Workspace`, which has the contract in place
of the pipeline, takes only steps of it (`PipelineAsPromised`). So the workspace
relies on nothing that the pipeline has not been shown to give.

None of the invariants is inductive as it stands. The strengthenings:

- *Outputs.* A key is named by at most one row or one worker's upload, a
  row that still names a key some cleanup has selected has expired, and no
  worker's upload is a selected key. Only then does an S3 delete touch nothing
  that is promised.
- *Executions.* While no worker has crashed there is at most one *delivery* of
  a job: an unpublished request, one ready message or one executing worker,
  and each excludes the others. The job's executions are at most the retry
  number of that delivery, one more once it has begun. The count of a message
  in the queue is at most one, which is what makes `Take` exclude.
- *Carrying.* A queued or running row is carried by a request, message or
  worker; `Crash` hands it from the worker back to the queue, `Retry` leaves
  the row failed.
- *Phases, for the refinement.* The status and output that a worker must find
  for each of its positions, while no crash has happened: a running job has no
  output, a row in a cleanup's open transaction has expired. The step proof
  then maps every action to a step of the contract or to a stutter.
- *Done is final.* Those phases again: only a delivery could move a done job,
  and with no crash its own is the last; what is left of it can only be failed
  by the soft limit.
- *Orphans.* `UploadPending`: a worker knows a key only between the upload and
  the end of its commit. `Reclaiming`: a row selected by a cleanup keeps its key,
  and the object of a row it is about to clear is gone already. With these,
  `AllKnown` is inductive while nothing has failed. Fault counters only grow, so
  "no fault so far" holds of every earlier state (`NoFaultBefore`).
- *Grants.* A handler that passed the check holds a grant; the events counted
  plus the grants outstanding stay below the limit plus the number of handlers.
- *Billing.* `ReadRightly`: webhooks are about paid subscriptions, a handler goes
  by a status once it has one, and a row it has read stays. `KnownPaid`:
  whatever is recorded or on its way about a subscription that never lapsed says
  active. `AloneWithUser`: without overlap a handler's tier is still the user's
  and its count of other subscriptions still true when it commits.
- *The mirror.* `InSequence`: until one has overtaken another, a webhook in flight
  is the newest of its subscription or the newest is still pending, and handlers
  hold the oldest. `RowFollows`: a row that differs from Stripe has its newest
  webhook in flight, and a handler that finds its status recorded finds it so
  until it commits.
- *The lapse.* `CheckoutInv`: who has a customer has an open checkout, and who has
  the paid tier has had a subscription. `AboutToLapse`: a user of the paid tier
  with one customer and no row on record as active has a lapse in flight, and the
  handler of one that will not lower the tier has another active row to show for
  it. Both hypotheses of the property pass to earlier states: overlap, disorder
  and a second customer are for good (`NoOverlapBefore`, `OneCustomerBefore`).
- *Accounts.* `GoogleHeld`: a Google handler holds an account that exists, one of
  its own address if it is to be linked. `TokenInv`: a session in use has a first
  token in use. `LinkedAsReported`: a linked subject is the one Google reports for
  the account's address. `AllBounded`: each commit on a revoked token adds one
  unrevoked token and one to `reused`. `AllCounted`: a counter read is at most the
  calls served, and is the present one unless calls overlapped.
- *Inputs.* `InputInv`: whoever names an object, a dataset or a request between
  put and commit, names it alone, so a commit passes ownership on and a failure
  or a deletion adds exactly one object to those nobody names.
- *Charges.* `ChargeInv`: published single-table jobs the tab was not told of,
  plus generations *stranded* on a handler whose tab stopped waiting, are at
  most the replies lost plus the one answer on its way. The stranded ones are what
  makes it inductive: their loss is counted before their job is published.
- *Pages.* `Seen`: what a page saw of a job is no later attempt than the job's,
  and a stopped page shows an end. From an end only a new attempt, the soft
  limit or a deletion leads on.
- *Columns.* `ColumnsInv` carries the scan and the types found at ingestion to
  the fit, says which overrides a fitted column's type heeds, and has a dbt
  dataset's metadata and overrides derived from the same parsed columns. The
  rest are lemmas about operators: the loop over patterns finds nothing exactly
  if none hits (`FirstHitFinds`), a sample is the first values (`SampleIs`), a
  scan flags exactly the personal columns (`Flagged`), an sdtype and its
  property agree (`ColumnParsed`), a declared name has a last declaration
  (`LastDeclared`), and the worker's table takes the page's types to ones SDV
  knows, which the other table takes back (`TablesAgree`). The first hit and the
  last declaration exist because the naturals are well-founded (`Least`,
  `Greatest`), so no induction over the loops is needed.

Only model-checked: the liveness properties `JobsSettle`, `ExpiredReclaimed` and
`PollingEnds`, because the proof system handles neither fairness nor `ENABLED`;
and the violations, which are single behaviours. `Accepted` adds up columns with
a fold, about which nothing is proved: no safety property depends on the sum.

## Where code and documents disagree

Each is a run that TLC finds violated, and a finding in `PROJECT.json`.

- *Multi-table jobs always fail* (`job_broken_kinds`): `app/tasks.py:303` calls
  `upload_csv_bytes`, which the module does not import.
- *dbt jobs always fail* (`job_broken_kinds`): their dataset has a sentinel key
  under which nothing was uploaded, and the task begins by downloading it.
- *A job whose pool child is killed, by the hard limit for one, stays queued or
  running* (`job_hardkill`):
  `plans/ADR-002-async-job-execution.md:125` expects late acknowledgement to
  queue it again.
- *A dataset with jobs cannot be deleted* (`job_delete`): the ORM nulls a
  column that is NOT NULL.
- *A recovered subscription leaves the user free* (`billing_recovery`): an
  update event never raises the tier, although
  `tests/test_billing_webhooks.py:9` says that active makes the user pro.
- *Two subscriptions that end at once leave the user pro* (`billing_overlap`):
  each handler counts the other subscription before its end is committed,
  although `plans/db-schema-phase2.md:133` gives the free tier then.

Met while modelling, without a run of its own: the free tier's limit can be
overrun by overlapping requests (`OverrunBounded` says by how much);
`CHANGELOG.md:50` says that PII is masked with Faker, while the task drops the
columns and `mask_dataframe` has no caller; the tables of a multi-table upload
are scanned by nothing; and no page calls `/api/auth/refresh`, so a page that polls
for longer than an access token lives ends with an error (`PollRefused`).
`CHANGELOG.md:120` says "24 h TTL cleanup Celery beat task removes expired
output files", and `plans/architecture-diagrams.md:374` draws the beat, but
`docker-compose.yml:115` starts only `celery worker` (no `-B`) and no other
service runs one: as shipped, the object of an expired output stays in S3 for
ever, and can be downloaded, since `get_download_url` looks at the key and not
at `expires_at`. It has no run because it is the absence of a step: the premise
of `ExpiredReclaimed` states it. And the type a page displays is not always the
one fitted: the worker detects again, on the stored CSV (`app/tasks.py:135`).

## Simplifications

What is abstracted in the modelled parts, and why no property depends on it:

- Quality scores, error texts, row counts and completion times are not kept. An
  `error_detail` left from a failed attempt stays on a job that is later done.
- What the synthesiser computes is a success or an exception.
- `expires_at` is NULL, future or past; the 24 hours are one `Lapse`.
- The 30 s countdown of a retry only delays the message: it is ready at once.
- The visibility timeout of Redis (one hour) is longer than the hard limit of a
  task (30 min), so a live task's message does not come back.
- An S3 put or delete either happens or not; one that is answered with an error
  after it took effect is left out.
- `Keys` bounds the uploads; an upload waits when none is left. No property
  depends on a later upload: the liveness run has a key for each upload it makes.
- A job that failed after its output was committed keeps its key and is never
  cleaned, since only done rows are selected: `Expired` says so, and
  `ExpiredReclaimed` promises nothing for it.
- Billing keeps no period dates or prices; "trialing" counts as "active" and
  "unpaid" as "past_due", which the code never tells apart. The autoflush before
  `CountOthers` locks the row but shows it to nobody before the commit, so the
  commit is where the model writes. A handler that fails after its commit is a
  webhook answered and delivered again, which is `MaxRepeats`.
- Accounts keeps no `is_active` (nothing clears it), no e-mail verification
  (nothing issues a token and nothing reads the flag) and no password: a wrong one
  is a request that changes nothing.
- In the workspace workers do not crash and outputs do not expire, which
  `JobLifecycle` treats; fresh ids are taken in a fixed order, since uuid4s are
  interchangeable; there is one user with one tab; usage events other than
  generations, which nothing counts, are not kept.
- What SDV detects is an input of `Columns`, once for each frame. Of its
  `update_column` only this is used: it refuses a column that is missing and a type
  it does not know, and takes any other. `FitFails` is SDV refusing the data, or the
  types it was given for them, for whatever reason.

## Not modelled

- The dashboard, login and registration pages keep nothing but one reply and
  the tokens; the paginated listing only reads. Two hazards of theirs, answers
  that overtake each other and pages that shift under inserts, are listed in
  `PROJECT.json` without a property.
- `verify-email`: see above.
- What SDV computes, the quality report and the relationships it learns.
- Configuration, request schemas and migrations: constants, validation and DDL,
  which appear as constants and guards.
