# DataLake: TLA+ models, model checking and proofs

DataLake is a multi-tenant extract-and-load platform: Django, Celery with
RabbitMQ, PostgreSQL (one schema per tenant), an S3-compatible object store for
raw payloads, and SQL Server destinations. This directory holds TLA+ models of
the parts that are hard to test, the TLC configurations that check them on
small instances, and TLAPS proofs of the properties that matter most.

`tlc -config X.cfg M` runs a configuration of MC module `M`; `tlapm M.tla`
checks the proofs of module `M`. PROJECT.json lists the runs, which source lines
each definition translates, the hazards, the findings and the theorems.

## 1. Inventory

| Component (under `apps/`) | State | Operations | What makes it correct |
|---|---|---|---|
| Run dispatch (`execution/dispatch.py`, command `run_pipeline`, `opsui.views.run_continue`) | `PipelineRun` rows by idempotency key | trigger, reuse, continue from a page-limit failure, `.delay()` | one row per key; a continuation starts exactly where the failed run stopped; a lost `.delay()` can be repeated |
| Claim and lifecycle (`execution/claims.py`, `models.py`) | status, owner task id, attempt, cursor, counters, error; `TaskExecution` rows | `claim_run`, `mark_run_succeeded`, `mark_run_failed`, `record_pending_retry` | one execution at a time; terminal states stay; a rejection loses nothing |
| Orchestration (`execution/orchestration.py`, `tasks.py`, `retry_policy.py`) | local variables between commits | fetch, store, map, load, mark, save; record outcome; retry | no page skipped; a success is complete; raw before load; bounded attempts |
| Retry backoff (`execution/retry_policy.py`) | none | `compute_backoff_seconds` | waits grow with every retry and are bounded |
| REST source (`connectors/sources/rest_api.py`) | page number, pages yielded | request, re-authenticate once, yield, stop or raise `PageLimitExceededError` | stops only where the source ends; every call ends |
| SQL Server destination (`connectors/destinations/sqlserver.py`) | rows | reflect, validate columns, append in batches within one transaction | a page is committed as a whole or not; the count is that of its rows |
| Mapping (`pipelines/mapping.py`, `core/paths.py`) | none | `get_by_path`, `map_record`, `map_records` | every row is the mapping of its record; one bad record keeps the page out |
| Raw store (`rawstore/backends/s3.py`, `service.py`, `models.py`) | objects, `RawPayloadRecord` rows | `put` (conditional or check-then-write), `get`, `store_raw_payload`, `ensure_bucket` | objects never overwritten; a record always resolves; a read returns its own bytes or an error |
| Raw migration (`rawstore/migration.py`) | `storage_uri` of the records | classify, verify, copy, save URI, batches, cancel | no record loses its payload; counts add up |
| Migration jobs (`opsui/services.py`, `tasks.py`, `models.py`, `views.py`, `audit.py`) | job rows, audit events | start, retry, supersede, cancel, run | one active job; a success is complete; an enqueued job finishes |
| Permissions (`opsui/permissions.py`) | none | role checks | only the roles named may act |
| Auth providers (`authproviders/`) | token cache of one `fetch()` call | prepare, acquire in one or several steps, invalidate | a stale token costs one re-authentication and never the run; a token is reused while it lives |
| Outbound policy (`core/outbound_http.py`, `connections/models.py`) | allow-lists of deployment and tenant | validate URL and addresses, refuse redirects and oversized bodies | nothing is contacted that the policy rules out |
| Secrets, orgs, accounts, auditing, settings | rows, configuration | CRUD | library and configuration |

**How they interact.** A command or a view calls `trigger_manual_run`, which
commits a run row and publishes a message. A Celery worker takes the message and
calls `run_pipeline`: it claims the row, and for each page that the source's
generator yields (after as many HTTP exchanges with the source and its token
endpoints as that takes, each admitted by the outbound policy) it stores the raw bytes and their record, maps, loads, marks the
record and saves the run's progress, each in a commit of its own. A retryable
error makes the task publish itself again under the same task id. Messages are
acknowledged when the task returns (`CELERY_TASK_ACKS_LATE`), so the broker
redelivers what a lost worker had. The migration task is driven the same way and
works on the same records and bucket as the pipeline workers, at the same time.

**What is hard here.** Several processes work on one run without a lease; every
page takes four commits in three systems; acknowledgements are late; an error
may be reported after its commit took effect; tokens, DNS answers, allow-lists
and destination tables change between the check and the use; operators act on
what they read a moment ago. PROJECT.json lists these hazards line by line.

## 2. Modules

| Module | Models | Variables and how they correspond |
|---|---|---|
| `RestSource` | the pagination of `fetch` as operators | constants only: a static source with `LastPage` pages of records, with or without a short last page, a retained empty page, `max_pages` |
| `PipelineExecution` | dispatch, claim, orchestration, retry, broker | `run`, `execs`, `raw`, `rawLoaded`: the tables. `loads`: commits at the destination. `trig`: the position of each `trigger_manual_run` call. `queue`, `held`: broker. `pc`, `msg`, `mem`: each worker's next statement, message and local variables. `lineage`: history, the runs a run continues |
| `PageStream` | what a run relies on when it iterates over `fetch()`: an abstract specification | `cursor`, `page`, `yielded`, `status` |
| `OutboundPolicy` | `validate_outbound_url` and its helpers as operators | constants only: the deployment's lists. An address is the set of `ipaddress` predicates that hold of it |
| `SourceFetch` (extends `RestSource`, `OutboundPolicy`) | one `fetch()` call: configuration, provider, policy, requests, answers | `pc`, `outcome`, `page`, `yielded`, `again`: the generator and `_send_with_auth_retry`. `cache`, `header`: the provider's token and the one in the request. `step`, `context`, `reply`: `_acquire`. `checked`: what the policy went by. `clock`, `epoch`, `dns`, `tenant`: the surroundings. `sent`, `acquired`, `contact`: history |
| `AtomicLoad` | what a run relies on when it loads a page: an abstract specification | `rows`, `table`, `status` |
| `PageLoad` | `map_records`, the connector's `load`, the task's retries | `records`, `pipeline`, `columns`, `table`: the page, its configuration and the destination. `rows`, `start`, `loaded`, `txn`: locals of `load` and its transaction. `waits`: countdowns so far. `lost`: history |
| `RawStore` | `put`, `get`, `store_raw_payload`, provisioning, tampering | `objects`: the bucket. `uri`: `storage_uri` of each record. `call`: each client's `put`. `versions`: history, for each existing object who wrote each version of it and at which step of `put` |
| `RawMigration` (extends `RawStore`) | the pass, its job, task, requests | `job`, `audited`: rows. `req`: each POST's progress. `queue`, `task`: broker and workers |
| `MC...` | instances for TLC | |
| `PipelineExecutionProofs`, `PipelineDeliveryProofs`, `PipelineOwnershipProofs`, `PipelineRetryProofs` | theorems about `PipelineExecution`: types, delivery, exclusive execution, retries | |
| `SourceFetchProofs`, `PageLoadProofs`, `RawStoreProofs`, `RawMigrationProofs` | theorems about the other components | |

**Granularity.** One action is one statement that another process can observe: a
database transaction, an S3 request, a destination commit, a message. Errors are
an action of their own (`StepFails`, `PutFails`, `PassFails`) that may occur
wherever the code can raise, a refused save of a record or of a job's progress
included. `claim_run` is two actions, because its transaction
holds row locks between the SELECT and the commit: the rows of every table that
`select_related` joins are locked, other claims skip them (`Refused`), and
updates and inserts that need one of them wait (`Writable`, `InsertUnblocked`).
SKIP LOCKED does not wait even for a single statement: a claim may also be
rejected while a run is being inserted whose foreign keys name a joined row
(`InsertLocks`), or while another worker writes the row or one that refers to it
(`StatementLocks`).
`mem` is the copy of the row that the task read at its claim; the terminal
transitions check that copy and so have no guard on the table.

**Composition.** `PipelineExecution` takes the source and the load in steps of
its own: a page is fetched or an error is raised, a load commits, fails, or
commits without the worker learning of it. That these steps are all there is to
see from outside is what the two refinements show: `SourceFetch` implements
`PageStream` (tokens, policy and HTTP hidden; the refinement mapping reads
`status` off `pc` and `outcome`), and `PageLoad` implements `AtomicLoad`
(mapping, batches and waiting hidden; `rows` is the page mapped by the reference
definition). Both include the termination of the detailed protocol. The two
abstract specifications name their safety part (`Safety`), which is what the
proofs show to be implemented; TLC checks the whole.

**Abstractions.** A page of `SourceFetch` is its number; a token is what its
issuer knows of it (when issued, when it dies, revoked or not); whether a
configuration or credential passes its checks is a Boolean of the connection,
which does not change during a call; the URL of a token step is any of those its
placeholders may yield, and the source gives records for a live token only, while
any other answer may be given to a dead one. A JSON object of `PageLoad` is a function
from keys to values, paths are sequences of keys, and `Documents` is the set of
values that can occur (closed under taking a member); times are in quarters of a
second and the jitter takes its two ends. In `PipelineExecution`, page contents are versions; a checksum stands for its bytes,
so a content-addressed key carries the payload it promises; an error is
retryable, fatal or the page limit. `records_extracted`, `records_loaded` and
`raw_payload_count` move with `pages_extracted`. `start_page` is 1. Delays are
arbitrary there. The source is static in its page structure, not in its contents. One
tenant is modelled. Audit events of `run_continue` and `problem_records` of a
pass are left out: nothing reads them.

**External parts**, modelled from how the code uses them: RabbitMQ and Celery
(`Deliver`, `Crash`: connection lost and message requeued; `ProcessLost`: a killed pool
process whose message its parent acknowledges; `Redeliver`: the message is
requeued while its first delivery still executes), S3 conditional writes, which
a store may honour in one call and decline in the next (`PutAnswers`), whoever
changes objects outside the code (`Tamper`), token issuers, DNS and time
(`World`), the constraints and the owner of the destination table (`Sound`,
`Alter`).

## 3. Runs

`CHECK_DEADLOCK FALSE` in the Exec and Mig configurations: the system stops when
all triggers or requests are used up, the queue is empty and every worker idle.
The store's writers never stop, and its runs check for deadlock.

Passing runs:

| Run | Instance | Shows |
|---|---|---|
| `exec_retry` | 2 runs, 3 triggers, 2 workers, 3 pages, `max_pages` 2, one retry, one lost message | with a broker that does not redeliver: `Exclusive`, `LoadedOnce`, `TerminalStable`, `ProgressMonotone`, `RetriesSpent`, `SucceededComplete` through retries, repeated keys and continuations |
| `exec_faults` | 1 run, 2 workers, 2 pages in 2 versions, an inactive pipeline, in-doubt commits, one live redelivery | `CursorSafe`, `SucceededComplete` and `RawBeforeLoad` do not need exclusivity |
| `exec_live` | 1 run, 2 triggers, one crash anywhere, 1 page and the retained empty page | `RunningHasDriver`: a RUNNING run is never orphaned by a crash whose message is requeued; `OnlyLastPageReloaded`; `EventuallyFinished` |
| `raw_store` | 2 writers, 3 payloads (2 of one length), 1 tampering, conditional puts honoured or declined call by call | `NeverOverwritten`: a conditional put only creates an object; it is written again only by the fallback, for a call whose `head_object` came before the first version, so once per client at most; `RecordBacked`, `ReadsOwnPayload` |
| `mig_pass` | 1 worker, 1 pipeline writer, 2 requests, batches of 1, every placement of 2 records | `SucceededMigrated`, `SummaryAddsUp`, `PayloadKept` with pipeline writes during the pass |
| `mig_overlap` | 2 workers, 2 jobs, 2 requests, batch of 2, a stale verdict on a live job, a lost process, check-then-write puts | `PayloadKept`, `SucceededMigrated`, `AuditedBeforeRun` with two passes at once |
| `mig_live` | 1 worker, 1 job, 1 crash | `JobFinishes` |
| `source_fetch` | 13 connections (two-step tokens whose second URL may turn out to be one that is refused, a token from the first of two steps, static, none, refused ones), 2 pages and the empty one, `max_pages` 2, 3 changes of the surroundings at any points, lifetimes below and above the margin | `StaleTokenNeverFatal`: a refusal that ends the call was of a token acquired for this page after its first refusal; `OneReauthentication`; `CachedTokenIsLive`: the safety margin does its work; `TokenReused`; `OnlyAllowedContacts`; `ImplementsPageStream` |
| `page_load` | pages of 0 to 3 records in batches of 2, 7 pipelines, 4 retries, 2 crashes, 1 change of the table, a cap that the fourth wait reaches | `WholePages`, `DuplicatesExplained`, `BadRecordBlocksPage`, `CountIsHonest`, `BackoffGrows`, `ImplementsAtomicLoad` |

**Why the bounds are enough.** Two workers are what a race needs, and a third
page with `max_pages` 2 makes a continuation finish the source. One retry has
a first, a last and an exceeded attempt; one fault of each kind can fall between
any two statements. Two payloads of one length separate a size check from a
checksum; two records and batches of one or two separate a cancel poll inside
the pass from the last one. Three changes of the surroundings are enough for a
token to be acquired, expire or be revoked and its successor too, or for DNS to
change once for each host with a list edit; two pages let a token be reused. In
batches of two, a page of three records has a full and a short batch and a page of
two is an exact multiple; five attempts are those of the deployment. One tampering
can fall between any two requests to the store. `exec_live` has one run, so no
claim of it meets the locks of another; with two, the message may be dropped
(`exec_claim_locks_join`), and the run with it, until it is triggered again.

**Symmetry.** `raw_store` identifies instances that differ by an exchange of
writers or of the two payloads of one length, `exec_retry`,
`exec_faults`, `mig_pass` and `mig_overlap` those that differ by a permutation of
runs, workers, tasks and versions, or of workers, jobs, requests and payloads.
The modules use these values for equality only, and no run with symmetry checks
liveness.

**Fairness.** A worker goes on with the task it holds, the broker delivers a
queued message to a free worker, a trigger call that has committed goes on to
publish. Celery's prefetch loop and RabbitMQ's queue give exactly this. Nothing
obliges users, operators or faults to act. Faults are bounded, so that a
worker crashes finitely often; `ProcessLost` is excluded from the liveness runs
(`MaxLost = 0`), because ADR 0005 accepts that a run whose process was killed stays RUNNING.
In `SourceFetch` and `PageLoad` the fair action is the worker's: HTTP requests and
database statements have timeouts, so each returns with an answer or an error, the
caller resumes the generator, and the broker delivers a retry and redelivers what
a dead worker held. Time, DNS, issuers and the table's owner owe nothing.

Runs that expect a violation state what a comment or document of the repository says,
and TLC shows how the code departs from it:

| Run | Says | Trace |
|---|---|---|
| `exec_terminal_overwritten` | terminal states are terminal (ADR 0005) | the broker redelivers to a second worker while the first executes; both hold a RUNNING copy; the second outcome overwrites the first |
| `exec_claim_locks_join` | a claim is rejected only when the run is finished or has another execution (`claims.py`) | a run is created and published; while another run of its pipeline is being inserted (`dispatch.py:101`), whose foreign-key check holds the pipeline row, the worker's claim skips the row; the message is acknowledged, and the run stays PENDING. Two claims at once of runs that share a pipeline or a connection end the same way |
| `exec_two_continuations` | one continuation per failed run (README) | two POSTs pass the check before either creates |

Several statements of the documents differ from the code, and the
model follows the code; no run is spent on refuting them:

* `orchestration.py:121` says a retry "re-extracts nothing that already
  succeeded". The cursor saved for the last page is that page, so a crash between
  its progress save and the terminal status loads it again. `OnlyLastPageReloaded`
  states what does hold.
* ADR 0007 says `loaded_successfully` records which version of a page counted. A
  crash between the flag and the progress save, and a page that changed, leave
  two versions of one (run, sequence) with the flag set.
* ADR 0007 says the size check on reuse is there to catch corruption. An object
  altered to bytes of the same length passes it; `ReadsOwnPayload` shows that a
  later read still refuses it.
* `opsui/services.py` says that a job still RUNNING cannot be retried. The retry
  view enqueues whatever `start_migration_job` returns, so the retry of an older
  job while a newer one is RUNNING enqueues the newer one a second time.
  `PayloadKept` shows that this costs work and no data.
* The docstring of `AllowedOutboundHost` (`connections/models.py:79`) says that a
  row lifts the block of private, loopback and link-local addresses;
  `outbound_http.py:234` lets it lift that of private ones only, as that module's
  own docstring and `OnlyAllowedContacts` say.
* `OutboundRequestBlockedError` (`core/exceptions.py:118`) says that "retrying the
  same request hits the same policy decision". A host that does not resolve is
  reported by the same error (`outbound_http.py:197`), so a passing DNS failure
  ends a run for good.
* `AuthenticationError` (`core/exceptions.py:44`) says that "if a refresh could have
  fixed it, that was already tried". A token endpoint that times out or answers 5xx
  raises it at once; the acquisition is not tried again.
* ADR 0005:38-43 and `claims.py:51-53` say that a killed worker leaves its run
  RUNNING "with no automatic recovery". This holds of a pool process that is killed
  while its parent lives and acknowledges the message (`ProcessLost`). A worker
  that goes down as a whole loses its connection, the broker requeues the message under the
  same task id, and `claim_run` admits it (`Crash`): `RunningHasDriver` and
  `EventuallyFinished` show that such a run recovers by itself.
* ADR 0005 names one window for duplicates, a crash between the destination's
  commit and the saved progress. A commit whose confirmation is lost is another;
  `DuplicatesExplained` has both and shows that within the attempts at one page
  there is no third. On a table
  with a unique column the second load fails instead, and the run with it.

Each property of a passing run has a mutant: a plausible bug in one mapped
definition (defined just before it, marked "Mutant") under which TLC finds the
property violated.

## 4. Proofs

All theorems hold for every value of the constants that satisfies the
assumptions of their modules (`SourceAssumption`, `ExecutionAssumption`,
`FetchAssumption`, `RawStoreAssumption`, `MigrationAssumption`,
`LoadAssumption`): any number of runs, triggers, workers, pages, versions,
connections, tokens, hosts, payloads, records, jobs and faults.

**Hypotheses about faults.** Some theorems about `PipelineExecution` hold only of
behaviours without a certain fault. The fault is then named as an action that
never occurs, and every other fault stays possible, as often as the constants
allow:

| Hypothesis | Excludes | Needed because |
|---|---|---|
| `[][~Duplicates]_vars` | `Redeliver`, and a worker lost between `self.retry()` and the acknowledgement: the two ways in which the broker makes two messages out of one | `claim_run` admits every message that carries the owner's task id; `exec_terminal_overwritten` is the counterexample |
| `[][~AttemptLost]_vars` | a worker lost in the middle of an attempt, its message requeued | the redelivered message has the retry count of the lost attempt while the row counts a new one, and the page in hand is loaded again |
| `InDoubtCommit = FALSE` | a commit whose confirmation is lost | the retry loads the page again, as ADR 0005 accepts |
| `[][~MessageLost]_vars` | a killed pool process whose message is acknowledged | nothing drives the run any more; ADR 0005 accepts it |
| `[][~Starved]_vars` | a claim refused because a joined row is locked for *another* run, by its claim or by its INSERT | the message of a redelivered attempt is dropped; `exec_claim_locks_join` is the counterexample |

`NothingDuplicated` shows that the first one holds of every instance without
redeliveries and crashes, in particular of the run `exec_retry`.

**The execution of a run.**

* `PipelineExecutionProofs`: `TypeCorrect`, `Spec => []TypeOK`. `TypeOK` alone is
  not inductive: a step uses the worker's message, which `NoMessage` would make
  ill-typed, its page, and `retries <= MaxRetries`. `TypeInv` adds
  what a worker's step says of its local variables (`LocalOK`: a busy worker has a
  message, one in the page loop a page and its next cursor, one about to retry a
  retry left) and what a trigger call's progress says of its arguments (`CallsOK`).
  The second half states once which steps write which row, message and local
  variables; the other three modules rest on it.
* `PipelineDeliveryProofs`, for every fault of the model: `NoPageSkipped`,
  `Spec => []CursorSafe`, and `SuccessIsComplete`, `Spec => []SucceededComplete`.
  The inductive invariant
  `DeliveryInv` says where each *copy* of a position may be: the pages before a
  run's cursor, before the seed a trigger call holds (`SeedSafe`), before the page
  a worker is at and, from its load on, that page too (`WorkersSafe`), are all
  delivered for the run's lineage (`RunsSafe` is the part about the runs); and a
  run is in its own lineage, which is all of it until the run exists (`LineageOK`). The argument: `loads` only grows, so what was
  delivered stays so (`DeliveredGrows`), and no step of one worker moves another's
  position (`OthersKeepPosition`). Neither redelivery, crashes, in-doubt commits nor
  overlapping executions occur in it as special cases, which is why the result
  does not depend on exclusivity. `RawIsRecordedFirst`, `Spec => []RawBeforeLoad`:
  `RawInv` adds that a worker past its store step has the record of its page.
  `ReloadsAreOfTheLastPage`, `Spec => OnlyLastPageReloaded`: `TrackInv` says that
  for each run the page and the sequence number of every copy (row, worker, loaded
  payload) differ by a constant of that run, which its seed fixes, unless the page
  is the source's last: the resume point of that one is itself, so its sequence
  number may grow. This holds for overlapping executions too, since all of them start from
  the same row.
* `PipelineOwnershipProofs`, without `Duplicates`: `OneWorkerPerRun`,
  `[]Exclusive`. `OwnInv` says that a task id is in one place only, its trigger
  call, one message or one worker (`OneCarrier`), that no two claim transactions
  are open on one run (`LocksOK`), and that the row of a run being executed names the
  task of its worker (`OwnerOK`). So a second worker on a run would have to carry
  the owner's task id. `OutcomesAreFinal`, `TerminalStable`: a worker that can still
  write an outcome owns a row that is RUNNING, so its copy is not stale.
  `ProgressIsMonotone`, `ProgressMonotone`: `ProgressInv` adds that the worker's
  local cursor and counters are those of its row (`InStep`).
* `PipelineRetryProofs`: `RetriesAreSpent`, `[]RetriesSpent`, without `Duplicates`
  and `AttemptLost`. Only the task that owns a RUNNING run can be admitted again (the run's
  *ticket*); `TicketInv` says that a task id not yet published owns nothing and that
  an attempt is closed only after its outcome; `RetryInv` that the retry count of that message or worker and the attempt of the
  row count the same thing (`Budget`, `Counted`, `RowCounted`). `PagesLoadedOnce`,
  `[]LoadedOnce`, without in-doubt commits as well: `LoadInv` says that the pages from
  the position of a ticket on (`Unread`), and from that of a worker that has not
  loaded yet, are not at the destination for any run of the lineage; what a
  trigger call read of the run it continues is still so when it creates the
  continuation (`FreshCall`). `RunningRunsAreDriven`, `[]RunningHasDriver`, with any number of
  crashes, without `Duplicates`, `MessageLost` and `Starved`: `DriverInv` adds that
  the broker holds the message of every busy worker, so a crash puts it back.

**The source.** `SourceFetchProofs`, each theorem with an inductive invariant of its own.

* `ContactsAreAllowed`, `Spec => []OnlyAllowedContacts`: `ContactInv` says that
  the URL about to be contacted was admitted by what the check went by
  (`Admitted`), so a change of DNS or of the allow-list in between cannot matter;
  that the admitted addresses are harmless or listed follows from
  `Classification`: the private category is given only to an address with no
  more dangerous one.
* `ReauthenticatesOnce`, `Spec => []OneReauthentication`:
  `ReauthInv` bounds the requests and acquisitions by where the call is and
  whether this is the second attempt.
* `StaleTokensAreReplaced`,
  `Spec => []StaleTokenNeverFatal`: `FreshInv` follows a token from the answer
  through the context of `_acquire` and the cache into the request; `invalidate`
  empties the cache between the attempts, and no value outlives its acquisition.
* `FetchTypeCorrect`, `CachedTokensAreLive` and `TokensAreReused`
  (`Spec => []CachedTokenIsLive`, `Spec => TokenReused`): `TokenInv` has the types and
  the dates of a token: issued no later than it was received, received no later than
  now, its deadline computed from the lifetime that came with it.
* `FetchIsAStream`, `Spec => Stream!Safety`: every step of the detailed call is a
  step of `PageStream` or leaves its variables alone.

**The load.** `PageLoadProofs`.

* `GetByPathIsReference`: for every document and every path, the loop of
  `get_by_path` (a fold) returns what the reference definition, the set of
  members at each depth, says. The library's induction theorems take an operator
  as a parameter, which the provers cannot instantiate; here the induction is over
  a *set* of numbers (`Counting`, from the least-number principle `LeastNumber`,
  from the well-foundedness of the naturals), and the fold is reasoned about
  through the function that defines it.
* `LoadTypeCorrect`, `PagesAreWhole`, `DuplicatesAreExplained`,
  `BadRecordsBlockPages`, `CountsAreHonest`. The invariant `LoadInv` says what each
  step has: the mapped page once mapping is done (`Staged`), in the transaction
  exactly the rows before the batch loop's position (`InTransaction`), in the table
  a whole number of copies of the page, at most one more than unnoticed commits so
  far and at least one once the commit is known (`InTable`). That is why a batch
  that fails leaves no part of the page behind.
* `LoadIsAtomic`, `Spec => Atomic!Safety`: the batches' steps are stutters, the
  commit, noticed or not, appends the whole page at once.
* `BackoffIsBounded`, `Spec => []BackoffGrows`: the i-th wait is one of
  `BackoffSeconds(i - 1)` (`WaitInv`); doubling outgrows a quarter of jitter. The
  provers know nothing of `^`, so `PowersOfTwo`, the equations `2^0 = 1` and
  `2^(n+1) = 2 * 2^n`, is a hypothesis of the theorem.

**Raw payloads.**

* `RawStoreProofs`: `StoreTypeCorrect`, `RecordsAreBacked`, `ReadsAreSound`,
  `ObjectsAreImmutable` and `WrittenOnce`. `StoreInv` says that a call writes the payload its key
  names and that, without tampering, every object under a tenant's key holds the
  bytes of that key; a
  record's key names the record's own checksum. `ObjectsAreImmutable`,
  `StoreSpec => []NeverOverwritten`, is about the history of each key: `VersionInv`
  adds that a call between its `head_object` and its `put_object` has written none
  of the versions there are (`FreshWriters`). It rests on the condition of the
  conditional put and on the check of the fallback; without either it is
  false, as the two mutants show. `WrittenOnce`: if the store never
  declines a condition, no call is ever in the fallback (`NoFallback`), and an
  object that exists has exactly one version.
* `RawMigrationProofs`, with any number of passes, writers, crashes, lost
  processes and stale verdicts at once. `BaseInv` extends `StoreInv` to the pass
  (`RequestsOK`, `QueueOK`, `TasksOK`: what each step has in hand) and gives
  `MigrationTypeCorrect` and `PayloadsAreKept`: a URI is replaced only after a `put`
  that left the same payload under the new key. `AuditComesFirst`: `AuditInv`
  follows a job from the request that audits it to the message. `SummariesAddUp`:
  `CountInv` accounts for the record that a task has inspected and not yet
  counted (`TaskSums`). `SuccessMeansMigrated`: `PassInv` says that every record under
  an old key is on the list of each real pass that has met no problem, or in its
  hands (`Ahead`); what pipelines store meanwhile is under the new key, and another
  pass only takes records away from the old ones.

**Only model-checked**: `EventuallyFinished`, `JobFinishes` and the termination
parts of `ImplementsPageStream` and `ImplementsAtomicLoad`. Liveness under
fairness is beyond the prover.

## 5. Plan

Done, in this order: `RestSource` and `PipelineExecution`; type correctness and
delivery proofs; `RawStore` with its proofs; `RawMigration`; `OutboundPolicy`,
`SourceFetch` and the refinement of `PageStream`; `PageLoad` and the refinement
of `AtomicLoad`; theorems about `SourceFetch`; theorems for every remaining
safety property: ownership, retries and progress of a run, the migration, tokens,
the page load, and the safety part of both refinements.

Next:
1. `RunLifecycle`: an abstract specification of a run (pending, running with a
   position, finished) that `PipelineExecution` implements when the broker does not
   redeliver; `OwnInv` and `ProgressInv` are what its proof needs.
2. The `migrate_raw_payload_storage` command as a second caller of the pass.

Not modelled and why: secrets (encryption by a library), accounts and tenancy
(django-tenants isolates schemas inside PostgreSQL), settings parsing, templates
and read-only views, `test_connection` (the same requests, no state), logging and
redaction (no state, wording only), operator permissions (a stateless role check in
front of each view). The tenant UUID that `s3.py` caches cannot go stale: nothing
deletes an organization.
