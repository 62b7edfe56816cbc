---------------------------- MODULE RawMigration ----------------------------
(***************************************************************************)
(* Migration of one organization's raw payloads to tenant-UUID keys: the   *)
(* pass over the records (rawstore/migration.py), the job that tracks it   *)
(* (opsui/models.py, services.py), the Celery task (opsui/tasks.py) and    *)
(* the operator's requests (opsui/views.py), on top of the object store    *)
(* that pipeline workers keep writing to.                                  *)
(***************************************************************************)
EXTENDS RawStore, FiniteSets

CONSTANTS
  Jobs,        \* RawPayloadMigrationJob rows
  Requests,    \* POSTs of the operator UI; each may enqueue one task
  Workers,     \* Celery worker processes, clients of the store
  BatchSize,   \* DEFAULT_BATCH_SIZE
  MaxCrashes,  \* bound: worker losses after which the broker redelivers
  MaxLost,     \* bound: messages lost with a killed process
  MaxStale,    \* bound: retries that find a RUNNING job without recent progress
  NoJob, NoRow

ASSUME MigrationAssumption ==
  /\ Workers \subseteq Clients /\ Workers \cap Writers = {}
  /\ BatchSize \in Nat \ {0}
  /\ MaxCrashes \in Nat /\ MaxLost \in Nat /\ MaxStale \in Nat
  /\ NoJob \notin Jobs /\ NoRow \notin Rows

VARIABLES
  job,      \* the job table
  audited,  \* jobs with an audit event
  req,      \* each request's progress
  queue,    \* messages ready for delivery
  task,     \* each worker's task: its step and local variables
  faults    \* faults spent so far

jobVars == <<job, audited, req, queue, task, faults>>
vars == <<storeVars, jobVars>>

-----------------------------------------------------------------------------
ACTIVE == {"PENDING", "RUNNING"}
TERMINAL_STATUSES == {"SUCCEEDED", "PARTIALLY_FAILED", "FAILED", "CANCELLED"}

Counters ==
  {"inspected", "already", "unprefixed", "schema", "missing", "conflicts",
   "ready", "migrated", "skipped"}

NoCount == [f \in Counters |-> 0]

NewJob(dry) ==
  [status |-> "PENDING", dry_run |-> dry, cancel_requested |-> FALSE, count |-> NoCount]

NoJobRow ==
  [status |-> "NONE", dry_run |-> TRUE, cancel_requested |-> FALSE, count |-> NoCount]

active(j) == job[j].status \in ACTIVE

\* one_active_raw_payload_migration_job_per_org
ConstraintAllows(j) == \A i \in Jobs \ {j} : ~active(i)

NoTask ==
  [step |-> "idle", job |-> NoJob, req |-> NoJob, todo |-> {}, rec |-> NoRow,
   from |-> NoUri, count |-> NoCount, since |-> 0, verdict |-> "NONE"]

Goes(w, step) == task' = [task EXCEPT ![w] = [@ EXCEPT !.step = step]]

-----------------------------------------------------------------------------
(* Requests of the operator UI.                                            *)

Request(step, j) == [step |-> step, job |-> j]

\* start_migration_job: the INSERT succeeds, or an active job is returned.
\* Two submissions at once are decided by the constraint.
CreateJob(j, dry) ==
  /\ job[j].status = "NONE"
  /\ \A i \in Jobs : ~active(i)
  /\ job' = [job EXCEPT ![j] = NewJob(dry)]

\* migration_start: only a job that was created is audited and enqueued.
Start(q, dry) ==
  /\ req[q].step = "new"
  /\ \/ \E j \in Jobs : CreateJob(j, dry) /\ req' = [req EXCEPT ![q] = Request("audit", j)]
     \/ /\ \E i \in Jobs : active(i)
        /\ req' = [req EXCEPT ![q] = Request("done", NoJob)]
        /\ UNCHANGED job
  /\ UNCHANGED <<storeVars, audited, queue, task, faults>>

\* migration_job_retry reads the row of the job to retry.  Its updated_at may
\* be older than STALE_JOB_THRESHOLD although its worker is alive.
RetryRead(q, j, stale) ==
  /\ req[q].step = "new"
  /\ job[j].status # "NONE"
  /\ stale => job[j].status = "RUNNING" /\ faults.stale < MaxStale
  /\ faults' = IF stale THEN [faults EXCEPT !.stale = @ + 1] ELSE faults
  /\ req' = [req EXCEPT ![q] =
       Request(IF job[j].status # "RUNNING" THEN "restart"
               ELSE IF stale THEN "supersede" ELSE "done", j)]
  /\ UNCHANGED <<storeVars, job, audited, queue, task>>

\* The stalled job is marked CANCELLED, whatever has become of it meanwhile.
Supersede(q) ==
  /\ req[q].step = "supersede"
  /\ job' = [job EXCEPT ![req[q].job] = [@ EXCEPT !.status = "CANCELLED"]]
  /\ req' = [req EXCEPT ![q] = [@ EXCEPT !.step = "restart"]]
  /\ UNCHANGED <<storeVars, audited, queue, task, faults>>

\* Mutant: only a job that this request created is audited.
RestartAuditsCreated(q) ==
  LET dry == job[req[q].job].dry_run IN
  /\ req[q].step = "restart"
  /\ \/ \E j \in Jobs : CreateJob(j, dry) /\ req' = [req EXCEPT ![q] = Request("audit", j)]
     \/ \E i \in Jobs : /\ active(i)
                        /\ req' = [req EXCEPT ![q] = Request("enqueue", i)]
                        /\ UNCHANGED job
  /\ UNCHANGED <<storeVars, audited, queue, task, faults>>

\* start_migration_job again, in the mode of the old job.  The view ignores
\* whether a job was created: an active one is enqueued once more.
Restart(q) ==
  LET dry == job[req[q].job].dry_run IN
  /\ req[q].step = "restart"
  /\ \/ \E j \in Jobs : CreateJob(j, dry) /\ req' = [req EXCEPT ![q] = Request("audit", j)]
     \/ \E i \in Jobs : /\ active(i)
                        /\ req' = [req EXCEPT ![q] = Request("audit", i)]
                        /\ UNCHANGED job
  /\ UNCHANGED <<storeVars, audited, queue, task, faults>>

\* record_migration_audit_event
Audit(q) ==
  /\ req[q].step = "audit"
  /\ audited' = audited \cup {req[q].job}
  /\ req' = [req EXCEPT ![q] = [@ EXCEPT !.step = "enqueue"]]
  /\ UNCHANGED <<storeVars, job, queue, task, faults>>

\* run_raw_payload_migration_task.delay()
Enqueue(q) ==
  /\ req[q].step = "enqueue"
  /\ queue' = queue \cup {[job |-> req[q].job, req |-> q]}
  /\ req' = [req EXCEPT ![q] = [@ EXCEPT !.step = "done"]]
  /\ UNCHANGED <<storeVars, job, audited, task, faults>>

\* The web process dies before the job it created is enqueued.
RequestDies(q) ==
  /\ req[q].step \in {"audit", "enqueue", "restart"}
  /\ faults.lost < MaxLost
  /\ faults' = [faults EXCEPT !.lost = @ + 1]
  /\ req' = [req EXCEPT ![q] = [@ EXCEPT !.step = "done"]]
  /\ UNCHANGED <<storeVars, job, audited, queue, task>>

\* migration_job_cancel: the status is read, and the flag is saved later.
CancelRead(q, j) ==
  /\ req[q].step = "new"
  /\ active(j)
  /\ req' = [req EXCEPT ![q] = Request("cancel", j)]
  /\ UNCHANGED <<storeVars, job, audited, queue, task, faults>>

CancelSave(q) ==
  /\ req[q].step = "cancel"
  /\ job' = [job EXCEPT ![req[q].job] = [@ EXCEPT !.cancel_requested = TRUE]]
  /\ req' = [req EXCEPT ![q] = [@ EXCEPT !.step = "done"]]
  /\ UNCHANGED <<storeVars, audited, queue, task, faults>>

RequestStep(q) ==
  \/ \E dry \in BOOLEAN : Start(q, dry)
  \/ \E j \in Jobs, stale \in BOOLEAN : RetryRead(q, j, stale)
  \/ Supersede(q) \/ Restart(q) \/ Audit(q) \/ Enqueue(q) \/ RequestDies(q)
  \/ \E j \in Jobs : CancelRead(q, j)
  \/ CancelSave(q)

-----------------------------------------------------------------------------
(* The task.                                                               *)

Deliver(w, m) ==
  /\ task[w].step = "idle"
  /\ m \in queue
  /\ queue' = queue \ {m}
  /\ task' = [task EXCEPT ![w] = [NoTask EXCEPT !.step = "begin", !.job = m.job, !.req = m.req]]
  /\ UNCHANGED <<storeVars, job, audited, req, faults>>

\* The worker forgets its task, and its put call with it.
Idle(w) ==
  /\ task' = [task EXCEPT ![w] = NoTask]
  /\ call' = [call EXCEPT ![w] = NoPut]

\* acks_late: the broker requeues the message of a worker it lost.
Crash(w) ==
  /\ task[w].step # "idle"
  /\ faults.crashes < MaxCrashes
  /\ faults' = [faults EXCEPT !.crashes = @ + 1]
  /\ queue' = queue \cup {[job |-> task[w].job, req |-> task[w].req]}
  /\ Idle(w)
  /\ UNCHANGED <<objects, versions, bucket, uri, tampered, job, audited, req>>

\* A killed pool process, whose message the parent acknowledges, or a database
\* error while the task saves its job row.
ProcessLost(w) ==
  /\ task[w].step # "idle"
  /\ faults.lost < MaxLost
  /\ faults' = [faults EXCEPT !.lost = @ + 1]
  /\ Idle(w)
  /\ UNCHANGED <<objects, versions, bucket, uri, tampered, job, audited, req, queue>>

\* Mutant: only a job that has not been started is taken up.
BeginOnlyPending(w) ==
  LET j == task[w].job IN
  /\ task[w].step = "begin"
  /\ \/ /\ job[j].status = "PENDING"
        /\ job' = [job EXCEPT ![j] = [@ EXCEPT !.status = "RUNNING"]]
        /\ Goes(w, "query")
     \/ /\ job[j].status # "PENDING"
        /\ Goes(w, "ack")
        /\ UNCHANGED job
  /\ UNCHANGED <<storeVars, audited, req, queue, faults>>

\* The job becomes RUNNING whatever its status was, unless another job of the
\* organization is active: then the save fails and the task with it.
Begin(w) ==
  LET j == task[w].job IN
  /\ task[w].step = "begin"
  /\ \/ /\ ConstraintAllows(j)
        /\ job' = [job EXCEPT ![j] = [@ EXCEPT !.status = "RUNNING"]]
        /\ Goes(w, "query")
     \/ /\ ~ConstraintAllows(j)
        /\ Goes(w, "ack")
        /\ UNCHANGED job
  /\ UNCHANGED <<storeVars, audited, req, queue, faults>>

\* The query: its cursor holds the rows as they are now for the whole pass.
Query(w) ==
  /\ task[w].step = "query"
  /\ task' = [task EXCEPT ![w] =
       [@ EXCEPT !.step = "next",
                 !.todo = {[row |-> row, uri |-> uri[row]] :
                             row \in {x \in Rows : uri[x] # NoUri}}]]
  /\ UNCHANGED <<storeVars, job, audited, req, queue, faults>>

\* Mutant: a schema prefix is taken for the tenant's.
ClassifyAnyPrefix(row, u) ==
  IF u \in Keys /\ u.slot = row.slot /\ u.sum = row.sum
    THEN IF u.gen = "unprefixed" THEN "unprefixed" ELSE "already"
    ELSE "conflicts"

\* _classify, on the key that the record's own columns determine.
Classify(row, u) ==
  IF u \in Keys /\ u.slot = row.slot /\ u.sum = row.sum
    THEN IF u.gen = "uuid" THEN "already" ELSE u.gen
    ELSE "conflicts"

\* A record is inspected: its class, and for a legacy key whether the object is
\* there.
Category(x) ==
  LET class == Classify(x.row, x.uri) IN
  IF class \in {"unprefixed", "schema"} /\ objects[x.uri] = Absent THEN "missing" ELSE class

\* The counters fs go up by one.
Counted(count, fs) == [f \in Counters |-> IF f \in fs THEN count[f] + 1 ELSE count[f]]

\* The task t is done with a record.
Tallied(t, fs) ==
  [t EXCEPT !.step = "batch", !.rec = NoRow, !.from = NoUri,
            !.count = Counted(t.count, fs), !.since = t.since + 1]

Tally(w, fs) == task' = [task EXCEPT ![w] = Tallied(task[w], fs)]

\* The next record of the pass.
Inspect(w, x) ==
  LET t == [task[w] EXCEPT !.todo = task[w].todo \ {x}] IN
  /\ task[w].step = "next"
  /\ x \in task[w].todo
  /\ task' = [task EXCEPT ![w] =
       IF Category(x) \in {"unprefixed", "schema"}
         THEN [t EXCEPT !.step = "download", !.rec = x.row, !.from = x.uri,
                        !.count = Counted(t.count, {"inspected", Category(x)})]
         ELSE Tallied(t, {"inspected", Category(x)})]
  /\ UNCHANGED <<storeVars, job, audited, req, queue, faults>>

\* Mutant: the record is counted as ready before its checksum is compared.
DownloadCountsFirst(w) ==
  LET t == task[w] IN
  /\ t.step = "download"
  /\ objects[t.from] # Absent
  /\ \/ /\ objects[t.from] # t.rec.sum
        /\ Tally(w, {"ready", "conflicts"})
        /\ UNCHANGED call
     \/ /\ objects[t.from] = t.rec.sum
        /\ job[t.job].dry_run
        /\ Tally(w, {"ready"})
        /\ UNCHANGED call
     \/ /\ objects[t.from] = t.rec.sum
        /\ ~job[t.job].dry_run
        /\ call' = [call EXCEPT ![w] = PutCall(t.rec.slot, objects[t.from])]
        /\ Goes(w, "putting")
  /\ UNCHANGED <<objects, versions, bucket, uri, tampered, job, audited, req, queue, faults>>

\* get_raw_by_key and the checksum: a mismatch is a conflict, a dry run counts,
\* and otherwise the bytes are put under the tenant's key.
Download(w) ==
  LET t == task[w] IN
  /\ t.step = "download"
  /\ objects[t.from] # Absent
  /\ \/ /\ objects[t.from] # t.rec.sum
        /\ Tally(w, {"conflicts"})
        /\ UNCHANGED call
     \/ /\ objects[t.from] = t.rec.sum
        /\ job[t.job].dry_run
        /\ Tally(w, {"ready"})
        /\ UNCHANGED call
     \/ /\ objects[t.from] = t.rec.sum
        /\ ~job[t.job].dry_run
        /\ call' = [call EXCEPT ![w] = PutCall(t.rec.slot, objects[t.from])]
        /\ Goes(w, "putting")
  /\ UNCHANGED <<objects, versions, bucket, uri, tampered, job, audited, req, queue, faults>>

\* Mutant: the URI is saved while the copy is still under way.
SaveUriEarly(w) ==
  /\ task[w].step = "putting"
  /\ uri' = [uri EXCEPT ![task[w].rec] = call[w].key]
  /\ call' = [call EXCEPT ![w] = NoPut]
  /\ Tally(w, {"ready", "migrated"})
  /\ UNCHANGED <<objects, versions, bucket, tampered, job, audited, req, queue, faults>>

\* put() returned the new URI, which is saved to the record.
SaveUri(w) ==
  /\ task[w].step = "putting"
  /\ call[w].step = "stored"
  /\ uri' = [uri EXCEPT ![task[w].rec] = call[w].key]
  /\ call' = [call EXCEPT ![w] = NoPut]
  /\ Tally(w, {"ready", "migrated"})
  /\ UNCHANGED <<objects, versions, bucket, tampered, job, audited, req, queue, faults>>

\* Anything raised by the pass ends it: a query or a request to the store failed,
\* put() refused an existing object, the legacy object vanished, or the database
\* refused to save the new URI or the progress of the job.
PassFails(w) ==
  /\ \/ task[w].step \in {"query", "next", "download", "finish"}
     \/ task[w].step = "batch" /\ task[w].since >= BatchSize
     \/ task[w].step = "putting" /\ call[w].step \in {"error", "stored"}
  /\ Goes(w, "fail")
  /\ call' = [call EXCEPT ![w] = NoPut]
  /\ UNCHANGED <<objects, versions, bucket, uri, tampered, job, audited, req, queue, faults>>

\* progress_callback and cancel_check, once per full batch.
BatchEnds(w) ==
  LET t == task[w] IN
  LET j == t.job IN
  /\ t.step = "batch"
  /\ \/ /\ t.since < BatchSize
        /\ Goes(w, "next")
        /\ UNCHANGED job
     \/ /\ t.since >= BatchSize
        /\ job' = [job EXCEPT ![j] = [@ EXCEPT !.count = t.count]]
        /\ task' = [task EXCEPT ![w] =
             [@ EXCEPT !.since = 0,
                       !.step = IF job[j].cancel_requested THEN "finish" ELSE "next"]]
  /\ UNCHANGED <<storeVars, audited, req, queue, faults>>

\* The cursor is exhausted.
PassEnds(w) ==
  /\ task[w].step = "next"
  /\ task[w].todo = {}
  /\ Goes(w, "finish")
  /\ UNCHANGED <<storeVars, job, audited, req, queue, faults>>

\* Mutant: a request to cancel is forgotten once the pass is over.
VerdictIgnoresCancel(j, count) ==
  IF job[j].dry_run \/ count["missing"] + count["conflicts"] = 0
    THEN "SUCCEEDED" ELSE "PARTIALLY_FAILED"

\* The status the task decides on.
Verdict(j, count) ==
  IF job[j].cancel_requested THEN "CANCELLED"
  ELSE IF job[j].dry_run \/ count["missing"] + count["conflicts"] = 0
         THEN "SUCCEEDED" ELSE "PARTIALLY_FAILED"

\* Mutant: the rest, from which what was migrated is subtracted twice: right in a
\* dry run only.
SkippedByDifference(count) ==
  [count EXCEPT !["skipped"] = count["inspected"] - count["ready"] - count["migrated"]]

\* records_skipped
Skipped(count) ==
  [count EXCEPT !["skipped"] = count["already"] + count["missing"] + count["conflicts"]]

\* The totals are saved, and the request to cancel is looked at once more.
Finish(w) ==
  LET j == task[w].job IN
  LET total == Skipped(task[w].count) IN
  /\ task[w].step = "finish"
  /\ job' = [job EXCEPT ![j] = [@ EXCEPT !.count = total]]
  /\ task' = [task EXCEPT ![w] =
       [@ EXCEPT !.step = "close", !.count = total, !.verdict = Verdict(j, total)]]
  /\ UNCHANGED <<storeVars, audited, req, queue, faults>>

\* job.save(status), which overwrites whatever status the row has now.
Close(w) ==
  /\ task[w].step \in {"close", "fail"}
  /\ job' = [job EXCEPT ![task[w].job] =
       [@ EXCEPT !.status = IF task[w].step = "fail" THEN "FAILED" ELSE task[w].verdict]]
  /\ Goes(w, "ack")
  /\ UNCHANGED <<storeVars, audited, req, queue, faults>>

Ack(w) ==
  /\ task[w].step = "ack"
  /\ Idle(w)
  /\ UNCHANGED <<objects, versions, bucket, uri, tampered, job, audited, req, queue, faults>>

\* The put call of a worker in its migration.
Putting(w) == task[w].step = "putting" /\ PutStep(w) /\ UNCHANGED jobVars

TaskStep(w) ==
  \/ Begin(w) \/ Query(w) \/ (\E x \in task[w].todo : Inspect(w, x)) \/ Download(w)
  \/ Putting(w) \/ SaveUri(w) \/ PassFails(w) \/ BatchEnds(w) \/ PassEnds(w)
  \/ Finish(w) \/ Close(w) \/ Ack(w)

-----------------------------------------------------------------------------
\* Records as the generations of the code have left them: each under one of
\* the three keys, or under a key of no known shape.  A legacy object may be
\* missing or corrupt.
InitialUris(row) ==
  {NoUri, ForeignUri} \cup {[gen |-> g, slot |-> row.slot, sum |-> row.sum] : g \in Generations}

Init ==
  /\ uri \in [Rows -> UNION {InitialUris(row) : row \in Rows}]
  /\ \A row \in Rows : uri[row] \in InitialUris(row)
  /\ objects \in [Keys -> Data \cup {Absent}]
  /\ \A k \in Keys :
       LET row == [slot |-> k.slot, sum |-> k.sum] IN
       /\ uri[row] # k => objects[k] = Absent
       /\ uri[row] = k /\ k.gen = "uuid" => objects[k] = k.sum
  /\ versions = [k \in Keys |-> << >>]
  /\ bucket = TRUE
  /\ call = [c \in Clients |-> NoPut]
  /\ tampered = 0
  /\ job = [j \in Jobs |-> NoJobRow]
  /\ audited = {} /\ queue = {}
  /\ req = [q \in Requests |-> Request("new", NoJob)]
  /\ task = [w \in Workers |-> NoTask]
  /\ faults = [crashes |-> 0, lost |-> 0, stale |-> 0]

Next ==
  \/ \E q \in Requests : RequestStep(q)
  \/ \E w \in Workers, m \in queue : Deliver(w, m)
  \/ \E w \in Workers : TaskStep(w) \/ Crash(w) \/ ProcessLost(w)
  \/ \E c \in Writers : WriterStep(c) /\ UNCHANGED jobVars

Spec == Init /\ [][Next]_vars

\* A worker goes on with its task and the broker delivers what is queued.
Fairness ==
  /\ \A w \in Workers : WF_vars(TaskStep(w))
  /\ WF_vars(\E w \in Workers, m \in queue : Deliver(w, m))

FairSpec == Spec /\ Fairness

-----------------------------------------------------------------------------
(* Properties.                                                             *)

Messages == [job : Jobs, req : Requests]

Counts == [Counters -> Nat]

Tasks ==
  [step : {"idle", "begin", "query", "next", "download", "putting", "batch",
           "finish", "close", "fail", "ack"},
   job : Jobs \cup {NoJob}, req : Requests \cup {NoJob},
   todo : SUBSET [row : Rows, uri : Keys \cup {ForeignUri}],
   rec : Rows \cup {NoRow}, from : Keys \cup {NoUri}, count : Counts, since : Nat,
   verdict : TERMINAL_STATUSES \cup {"NONE"}]

JobRows ==
  [status : ACTIVE \cup TERMINAL_STATUSES \cup {"NONE"}, dry_run : BOOLEAN,
   cancel_requested : BOOLEAN, count : Counts]

\* The job table, the requests and the task's local variables have their types.
TypeOK ==
  /\ StoreTypeOK
  /\ job \in [Jobs -> JobRows]
  /\ audited \subseteq Jobs
  /\ req \in [Requests ->
       [step : {"new", "supersede", "restart", "audit", "enqueue", "cancel", "done"},
        job : Jobs \cup {NoJob}]]
  /\ queue \subseteq Messages
  /\ task \in [Workers -> Tasks]
  /\ faults \in [crashes : Nat, lost : Nat, stale : Nat]

\* The record's URI leads to its payload.
Resolves(row) == uri[row] \in Keys /\ objects[uri[row]] = row.sum

\* No record loses its payload: whatever passes run at once, crash, are
\* cancelled or fail half-way, a URI is only ever replaced by one that leads to
\* the same bytes (ADR 0008: a pass "can never duplicate or corrupt work").
PayloadKept == [][\A row \in Rows : Resolves(row) => Resolves(row)']_vars

\* A real migration that SUCCEEDED has left no record behind: every one is
\* under the tenant's key, the ones stored meanwhile included.
SucceededMigrated ==
  \A j \in Jobs : job[j].status = "SUCCEEDED" /\ ~job[j].dry_run =>
    \A row \in Rows : uri[row] # NoUri => uri[row] \in Keys /\ uri[row].gen = "uuid"

\* The summary an operator reads adds up at every moment: each inspected record
\* is in exactly one class, and only what was ready was migrated.
SummaryAddsUp ==
  \A j \in Jobs :
    LET n == job[j].count IN
    /\ n["inspected"] = n["already"] + n["missing"] + n["conflicts"] + n["ready"]
    /\ n["ready"] <= n["unprefixed"] + n["schema"]
    /\ n["migrated"] = IF job[j].dry_run THEN 0 ELSE n["ready"]

\* No migration task exists for a job that the organization's audit log does
\* not show (migration_start and migration_job_retry audit, then enqueue).
AuditedBeforeRun ==
  /\ \A m \in queue : m.job \in audited
  /\ \A w \in Workers : task[w].step # "idle" => task[w].job \in audited

\* A job whose task reached the broker is eventually finished: a redelivered
\* task starts its pass over, although the job is already RUNNING.
JobFinishes ==
  \A j \in Jobs : (\E m \in queue : m.job = j) ~> job[j].status \in TERMINAL_STATUSES
=============================================================================
