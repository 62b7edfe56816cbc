------------------------- MODULE RawMigrationProofs -------------------------
(***************************************************************************)
(* Proofs about RawMigration, for any number of jobs, requests, workers,   *)
(* writers and records, any batch size and any number of faults: whatever  *)
(* passes overlap, are cancelled, fail or start over.                      *)
(***************************************************************************)
EXTENDS RawMigration, RawStoreProofs

-----------------------------------------------------------------------------
(* Types, and what a request, a message and a task know of their job.      *)

\* Job j has a row.
Created(j) == j \in Jobs /\ job[j].status # "NONE"

RequestsOK == \A q \in Requests : req[q].step \notin {"new", "done"} => Created(req[q].job)

QueueOK == \A m \in queue : Created(m.job)

\* A task under way has a created job, a record in hand has its row and its
\* legacy key, and a copy under way is of that record's payload.
TaskOK(w) ==
  LET t == task[w] IN
  /\ t.step # "idle" => Created(t.job) /\ t.req \in Requests
  /\ t.step \in {"download", "putting"} => t.rec \in Rows /\ t.from \in Keys
  /\ t.step = "putting" =>
       /\ call[w].step # "idle"
       /\ call[w].slot = t.rec.slot /\ call[w].data = t.rec.sum
       /\ ~job[t.job].dry_run
  /\ t.step = "close" => t.verdict # "NONE"

TasksOK == \A w \in Workers : TaskOK(w)

BaseInv ==
  /\ TypeOK /\ StoreInv /\ tampered = 0
  /\ RequestsOK /\ QueueOK /\ TasksOK

-----------------------------------------------------------------------------
(* The audit log.                                                          *)

AuditInv ==
  /\ AuditedBeforeRun
  /\ \A q \in Requests : req[q].step = "enqueue" => req[q].job \in audited

-----------------------------------------------------------------------------
(* The counters.                                                           *)

\* The summary n of a pass adds up, except for the records in hand.
Sums(n, dry, inHand) ==
  /\ n["inspected"] = n["already"] + n["missing"] + n["conflicts"] + n["ready"] + inHand
  /\ n["ready"] + inHand <= n["unprefixed"] + n["schema"]
  /\ n["migrated"] = IF dry THEN 0 ELSE n["ready"]

\* Steps of a pass between two records, and those with one in hand.
Between == {"begin", "query", "next", "batch", "finish", "close"}
InHand == {"download", "putting"}

TaskSums(t, dry) ==
  /\ t.step \in Between => Sums(t.count, dry, 0)
  /\ t.step \in InHand => Sums(t.count, dry, 1)

CountInv ==
  /\ \A j \in Jobs : Sums(job[j].count, job[j].dry_run, 0)
  /\ \A w \in Workers :
       task[w].step # "idle" => TaskSums(task[w], job[task[w].job].dry_run)

-----------------------------------------------------------------------------
(* What a pass leaves behind.                                              *)

\* The record is not under the tenant's key.
Legacy(row) == uri[row] # NoUri /\ ~(uri[row] \in Keys /\ uri[row].gen = "uuid")

\* Every record that still has to be migrated is ahead of the task, or in hand.
Ahead(t) ==
  \A row \in Rows : Legacy(row) =>
    \/ \E x \in t.todo : x.row = row
    \/ t.step \in InHand /\ t.rec = row

NoFault(n) == n["missing"] + n["conflicts"] = 0

AllMoved == \A row \in Rows : ~Legacy(row)

\* A task that lists only what it has to, and a verdict that is true.
PassOK(t) ==
  /\ \A x \in t.todo : x.uri \in Keys /\ x.uri.gen = "uuid" => ~Legacy(x.row)
  /\ t.step \in {"next", "batch"} \cup InHand /\ ~job[t.job].dry_run /\ NoFault(t.count)
       => Ahead(t)
  /\ t.step = "finish" /\ ~job[t.job].dry_run /\ NoFault(t.count)
       => job[t.job].cancel_requested \/ AllMoved
  /\ t.step = "close" /\ ~job[t.job].dry_run /\ t.verdict = "SUCCEEDED" => AllMoved

PassInv == SucceededMigrated /\ \A w \in Workers : PassOK(task[w])

-----------------------------------------------------------------------------
(* Records of the model.                                                   *)

Steps ==
  {"idle", "begin", "query", "next", "download", "putting", "batch",
   "finish", "close", "fail", "ack"}

\* No counter of a new row or task has moved.
LEMMA NoCountType == NoCount \in Counts /\ \A f \in Counters : NoCount[f] = 0
BY DEF NoCount, Counts

\* The rows that start_migration_job inserts.
LEMMA JobRowTypes ==
  /\ NoJobRow \in JobRows /\ NoJobRow.status = "NONE" /\ NoJobRow.count = NoCount
  /\ \A dry \in BOOLEAN : /\ NewJob(dry) \in JobRows /\ NewJob(dry).status = "PENDING"
                          /\ NewJob(dry).count = NoCount
BY NoCountType DEF NoJobRow, NewJob, JobRows, ACTIVE

\* A job row after one of its columns is saved.
LEMMA JobSaved ==
  ASSUME NEW x \in JobRows
  PROVE  /\ \A s \in ACTIVE \cup TERMINAL_STATUSES :
              /\ [x EXCEPT !.status = s] \in JobRows
              /\ [x EXCEPT !.status = s].status = s
              /\ [x EXCEPT !.status = s].dry_run = x.dry_run
              /\ [x EXCEPT !.status = s].cancel_requested = x.cancel_requested
              /\ [x EXCEPT !.status = s].count = x.count
         /\ /\ [x EXCEPT !.cancel_requested = TRUE] \in JobRows
            /\ [x EXCEPT !.cancel_requested = TRUE].status = x.status
            /\ [x EXCEPT !.cancel_requested = TRUE].dry_run = x.dry_run
            /\ [x EXCEPT !.cancel_requested = TRUE].cancel_requested
            /\ [x EXCEPT !.cancel_requested = TRUE].count = x.count
         /\ \A n \in Counts :
              /\ [x EXCEPT !.count = n] \in JobRows
              /\ [x EXCEPT !.count = n].status = x.status
              /\ [x EXCEPT !.count = n].dry_run = x.dry_run
              /\ [x EXCEPT !.count = n].cancel_requested = x.cancel_requested
              /\ [x EXCEPT !.count = n].count = n
BY DEF JobRows

\* A task that only moves to another step.
LEMMA TaskMoves ==
  ASSUME NEW t \in Tasks, NEW s \in Steps
  PROVE  LET u == [t EXCEPT !.step = s] IN
         /\ u \in Tasks /\ u.step = s /\ u.job = t.job /\ u.req = t.req /\ u.todo = t.todo
         /\ u.rec = t.rec /\ u.from = t.from /\ u.count = t.count /\ u.verdict = t.verdict
BY DEF Tasks, Steps

\* An idle worker has no task, and a delivered message makes it begin one.
LEMMA NoTaskType ==
  /\ NoTask \in Tasks /\ NoTask.step = "idle" /\ NoTask.todo = {}
  /\ \A m \in Messages :
       LET t == [NoTask EXCEPT !.step = "begin", !.job = m.job, !.req = m.req] IN
       /\ t \in Tasks /\ t.step = "begin" /\ t.job = m.job /\ t.req = m.req
       /\ t.count = NoCount /\ t.todo = {}
BY NoCountType DEF NoTask, Tasks, Messages

\* Counting keeps the type of the counters, and moves those it names.
LEMMA CountedFacts ==
  ASSUME NEW n \in Counts, NEW fs
  PROVE  /\ Counted(n, fs) \in Counts
         /\ \A f \in Counters : Counted(n, fs)[f] = IF f \in fs THEN n[f] + 1 ELSE n[f]
         /\ \A f \in Counters : n[f] \in Nat
BY DEF Counted, Counts

\* A task that is done with a record.
LEMMA TalliedFacts ==
  ASSUME NEW t \in Tasks, NEW fs
  PROVE  LET u == Tallied(t, fs) IN
         /\ u \in Tasks /\ u.step = "batch" /\ u.job = t.job /\ u.req = t.req /\ u.todo = t.todo
         /\ u.count = Counted(t.count, fs)
<1>1. t.count \in Counts
  BY DEF Tasks
<1>2. Counted(t.count, fs) \in Counts
  BY <1>1, CountedFacts
<1> DEFINE n == Counted(t.count, fs)
<1>3. n \in Counts
  BY <1>2
<1> DEFINE k == t.since + 1
<1>4. k \in Nat
  BY DEF Tasks
<1> HIDE DEF n, k
<1>5. [t EXCEPT !.step = "batch", !.rec = NoRow, !.from = NoUri] \in Tasks
  BY DEF Tasks
<1> DEFINE u == [t EXCEPT !.step = "batch", !.rec = NoRow, !.from = NoUri,
                          !.count = n, !.since = k]
<1>6. u \in Tasks
  BY <1>3, <1>4, <1>5 DEF Tasks
<1>7. u.step = "batch" /\ u.job = t.job /\ u.req = t.req /\ u.todo = t.todo /\ u.count = n
  BY DEF Tasks
<1> QED
  BY <1>6, <1>7 DEF Tallied, n, k

\* The other changes of a task's local variables: the query's rows,
LEMMA TaskLists ==
  ASSUME NEW t \in Tasks, NEW todo \in SUBSET [row : Rows, uri : Keys \cup {ForeignUri}]
  PROVE  LET u == [t EXCEPT !.step = "next", !.todo = todo] IN
         /\ u \in Tasks /\ u.step = "next" /\ u.job = t.job /\ u.req = t.req
         /\ u.todo = todo /\ u.count = t.count
BY DEF Tasks

\* a row that is taken from them,
LEMMA TaskTakes ==
  ASSUME NEW t \in Tasks, NEW x \in t.todo
  PROVE  LET u == [t EXCEPT !.todo = t.todo \ {x}] IN
         /\ u \in Tasks /\ u.job = t.job /\ u.req = t.req
         /\ u.todo = t.todo \ {x} /\ u.count = t.count
BY DEF Tasks

\* the record in hand,
LEMMA TaskHolds ==
  ASSUME NEW t \in Tasks, NEW row \in Rows, NEW k \in Keys, NEW n \in Counts
  PROVE  LET u == [t EXCEPT !.step = "download", !.rec = row, !.from = k, !.count = n] IN
         /\ u \in Tasks /\ u.step = "download" /\ u.job = t.job /\ u.req = t.req
         /\ u.todo = t.todo /\ u.rec = row /\ u.from = k /\ u.count = n
<1> DEFINE u == [t EXCEPT !.step = "download", !.rec = row, !.from = k, !.count = n]
<1>1. [t EXCEPT !.step = "download", !.rec = row, !.from = k] \in Tasks
  BY DEF Tasks
<1>2. u \in Tasks
  BY <1>1 DEF Tasks
<1>3. /\ u.step = "download" /\ u.job = t.job /\ u.req = t.req
      /\ u.todo = t.todo /\ u.rec = row /\ u.from = k /\ u.count = n
  BY DEF Tasks
<1> QED
  BY <1>2, <1>3

\* the end of a batch,
LEMMA TaskBatch ==
  ASSUME NEW t \in Tasks, NEW s \in {"finish", "next"}
  PROVE  LET u == [t EXCEPT !.since = 0, !.step = s] IN
         /\ u \in Tasks /\ u.step = s /\ u.job = t.job /\ u.req = t.req
         /\ u.todo = t.todo /\ u.count = t.count
BY DEF Tasks

\* and the verdict.
LEMMA TaskDecides ==
  ASSUME NEW t \in Tasks, NEW n \in Counts, NEW v \in TERMINAL_STATUSES
  PROVE  LET u == [t EXCEPT !.step = "close", !.count = n, !.verdict = v] IN
         /\ u \in Tasks /\ u.step = "close" /\ u.job = t.job /\ u.req = t.req
         /\ u.todo = t.todo /\ u.count = n /\ u.verdict = v
BY DEF Tasks

\* The totals of a finished pass.
LEMMA SkippedFacts ==
  ASSUME NEW n \in Counts
  PROVE  /\ Skipped(n) \in Counts
         /\ \A f \in Counters \ {"skipped"} : Skipped(n)[f] = n[f]
BY DEF Skipped, Counts, Counters

\* The verdict of a pass is one of the terminal statuses.
LEMMA VerdictType ==
  ASSUME NEW j, NEW n PROVE Verdict(j, n) \in TERMINAL_STATUSES
BY DEF Verdict, TERMINAL_STATUSES

\* A record is in one of the classes, and one that is read has a legacy key.
LEMMA CategoryFacts ==
  ASSUME NEW x
  PROVE  /\ Category(x) \in {"already", "unprefixed", "schema", "missing", "conflicts"}
         /\ Category(x) \in {"unprefixed", "schema"} => x.uri \in Keys
         /\ Category(x) = "already" => x.uri \in Keys /\ x.uri.gen = "uuid"
BY DEF Category, Classify, Keys, Generations

-----------------------------------------------------------------------------
(* The base invariant.                                                     *)

\* A job's row stays, in the mode it was created in, and a request to cancel
\* it is not taken back.
JobsGrow ==
  /\ job' \in [Jobs -> JobRows]
  /\ \A j \in Jobs : job[j].status # "NONE" =>
       /\ job'[j].status # "NONE" /\ job'[j].dry_run = job[j].dry_run
       /\ job[j].cancel_requested => job'[j].cancel_requested

\* One row changes.
LEMMA JobReplaced ==
  ASSUME BaseInv, NEW j \in Jobs, NEW x \in JobRows, job' = [job EXCEPT ![j] = x],
         job[j].status # "NONE" =>
           /\ x.status # "NONE" /\ x.dry_run = job[j].dry_run
           /\ job[j].cancel_requested => x.cancel_requested
  PROVE  JobsGrow
BY DEF JobsGrow, BaseInv, TypeOK

\* The row of a created job is saved.
LEMMA JobSaveGrows ==
  ASSUME BaseInv, NEW j \in Jobs, job[j].status # "NONE",
         \/ \E s \in ACTIVE \cup TERMINAL_STATUSES :
              job' = [job EXCEPT ![j] = [job[j] EXCEPT !.status = s]]
         \/ \E n \in Counts : job' = [job EXCEPT ![j] = [job[j] EXCEPT !.count = n]]
         \/ job' = [job EXCEPT ![j] = [job[j] EXCEPT !.cancel_requested = TRUE]]
  PROVE  JobsGrow
<1>0. job[j] \in JobRows
  BY DEF BaseInv, TypeOK
<1>1. ASSUME NEW s \in ACTIVE \cup TERMINAL_STATUSES,
             job' = [job EXCEPT ![j] = [job[j] EXCEPT !.status = s]]
      PROVE  JobsGrow
  <2>1. PICK x \in JobRows : x = [job[j] EXCEPT !.status = s]
    BY <1>0, JobSaved
  <2>2. x.status = s /\ x.dry_run = job[j].dry_run /\ x.cancel_requested = job[j].cancel_requested
    BY <1>0, <2>1, JobSaved
  <2>3. s # "NONE"
    BY DEF ACTIVE, TERMINAL_STATUSES
  <2> QED
    BY <1>1, <2>1, <2>2, <2>3, JobReplaced
<1>2. ASSUME NEW n \in Counts, job' = [job EXCEPT ![j] = [job[j] EXCEPT !.count = n]]
      PROVE  JobsGrow
  <2>1. PICK x \in JobRows : x = [job[j] EXCEPT !.count = n]
    BY <1>0, JobSaved
  <2>2. /\ x.status = job[j].status /\ x.dry_run = job[j].dry_run
        /\ x.cancel_requested = job[j].cancel_requested
    BY <1>0, <2>1, JobSaved
  <2> QED
    BY <1>2, <2>1, <2>2, JobReplaced
<1>3. CASE job' = [job EXCEPT ![j] = [job[j] EXCEPT !.cancel_requested = TRUE]]
  <2>1. PICK x \in JobRows : x = [job[j] EXCEPT !.cancel_requested = TRUE]
    BY <1>0, JobSaved
  <2>2. x.status = job[j].status /\ x.dry_run = job[j].dry_run /\ x.cancel_requested
    BY <1>0, <2>1, JobSaved
  <2> QED
    BY <1>3, <2>1, <2>2, JobReplaced
<1> QED
  BY <1>1, <1>2, <1>3

\* start_migration_job inserts a row that was not there.
LEMMA CreateGrows ==
  ASSUME BaseInv, NEW j \in Jobs, NEW dry \in BOOLEAN, CreateJob(j, dry)
  PROVE  JobsGrow /\ Created(j)' /\ job' = [job EXCEPT ![j] = NewJob(dry)]
<1>1. job' = [job EXCEPT ![j] = NewJob(dry)] /\ job[j].status = "NONE"
  BY DEF CreateJob
<1>2. JobsGrow
  BY <1>1, JobRowTypes, JobReplaced
<1> QED
  BY <1>1, <1>2, JobRowTypes DEF Created, BaseInv, TypeOK

\* Every step leaves the job table grown.
LEMMA RequestGrows ==
  ASSUME BaseInv, NEW q \in Requests, RequestStep(q)
  PROVE  JobsGrow
<1>0. job \in [Jobs -> JobRows] /\ req[q].job \in Jobs \cup {NoJob}
  BY DEF BaseInv, TypeOK
<1>1. CASE UNCHANGED job
  BY <1>0, <1>1 DEF JobsGrow
<1>2. ASSUME NEW dry \in BOOLEAN, Start(q, dry) PROVE JobsGrow
  BY <1>1, <1>2, CreateGrows DEF Start
<1>3. CASE Supersede(q)
  <2>1. Created(req[q].job)
    BY <1>3 DEF Supersede, BaseInv, RequestsOK
  <2>2. PICK j \in Jobs : j = req[q].job
    BY <2>1 DEF Created
  <2>3. job[j] \in JobRows /\ job[j].status # "NONE"
    BY <1>0, <2>1, <2>2 DEF Created
  <2>4. job' = [job EXCEPT ![j] = [job[j] EXCEPT !.status = "CANCELLED"]]
    BY <1>3, <2>2 DEF Supersede
  <2> QED
    BY <2>3, <2>4, JobSaveGrows DEF TERMINAL_STATUSES
<1>4. CASE Restart(q)
  <2>1. Created(req[q].job)
    BY <1>4 DEF Restart, BaseInv, RequestsOK
  <2>2. job[req[q].job].dry_run \in BOOLEAN
    BY <1>0, <2>1 DEF Created, JobRows
  <2> QED
    BY <1>1, <1>4, <2>2, CreateGrows DEF Restart
<1>5. CASE CancelSave(q)
  <2>1. Created(req[q].job)
    BY <1>5 DEF CancelSave, BaseInv, RequestsOK
  <2>2. PICK j \in Jobs : j = req[q].job
    BY <2>1 DEF Created
  <2>3. job[j] \in JobRows /\ job[j].status # "NONE"
    BY <1>0, <2>1, <2>2 DEF Created
  <2>4. job' = [job EXCEPT ![j] = [job[j] EXCEPT !.cancel_requested = TRUE]]
    BY <1>5, <2>2 DEF CancelSave
  <2> QED
    BY <2>3, <2>4, JobSaveGrows
<1> QED
  BY <1>1, <1>2, <1>3, <1>4, <1>5
     DEF RequestStep, RetryRead, Audit, Enqueue, RequestDies, CancelRead

\* The rows a task saves: status, totals or both counters of a batch.
LEMMA TaskGrows ==
  ASSUME BaseInv, NEW w \in Workers, TaskStep(w)
  PROVE  JobsGrow
<1>0. job \in [Jobs -> JobRows] /\ task[w] \in Tasks /\ TaskOK(w)
  BY DEF BaseInv, TypeOK, TasksOK
<1>1. CASE UNCHANGED job
  BY <1>0, <1>1 DEF JobsGrow
<1>2. CASE Begin(w) \/ BatchEnds(w) \/ Finish(w) \/ Close(w)
  <2>1. Created(task[w].job)
    BY <1>0, <1>2 DEF Begin, BatchEnds, Finish, Close, TaskOK
  <2>2. PICK j \in Jobs : j = task[w].job
    BY <2>1 DEF Created
  <2>3. job[j] \in JobRows /\ job[j].status # "NONE"
    BY <1>0, <2>1, <2>2 DEF Created
  <2>4. CASE Begin(w)
    BY <1>1, <2>2, <2>3, <2>4, JobSaveGrows DEF Begin, ACTIVE
  <2>5. CASE BatchEnds(w)
    <3>1. task[w].count \in Counts
      BY <1>0 DEF Tasks
    <3> QED
      BY <1>1, <2>2, <2>3, <2>5, <3>1, JobSaveGrows DEF BatchEnds
  <2>6. CASE Finish(w)
    <3>1. PICK n \in Counts : n = Skipped(task[w].count)
      BY <1>0, SkippedFacts DEF Tasks
    <3>2. job' = [job EXCEPT ![j] = [job[j] EXCEPT !.count = n]]
      BY <2>2, <2>6, <3>1 DEF Finish
    <3> QED
      BY <2>3, <3>2, JobSaveGrows
  <2>7. CASE Close(w)
    <3>1. PICK s \in TERMINAL_STATUSES : s = IF task[w].step = "fail" THEN "FAILED" ELSE task[w].verdict
      BY <1>0, <2>7 DEF Close, TaskOK, Tasks, TERMINAL_STATUSES
    <3>2. job' = [job EXCEPT ![j] = [job[j] EXCEPT !.status = s]]
      BY <2>2, <2>7, <3>1 DEF Close
    <3> QED
      BY <2>3, <3>2, JobSaveGrows
  <2> QED
    BY <1>2, <2>4, <2>5, <2>6, <2>7
<1> QED
  BY <1>1, <1>2 DEF TaskStep, Query, Inspect, Download, Putting, SaveUri, PassFails, PassEnds, Ack, jobVars

\* What was created stays created.
LEMMA CreatedStays ==
  ASSUME BaseInv, JobsGrow, NEW j, Created(j)
  PROVE  Created(j)'
BY DEF JobsGrow, Created

\* Requests, messages and tasks that a step does not touch stay in order.
LEMMA OthersKept ==
  ASSUME BaseInv, JobsGrow
  PROVE  /\ \A q \in Requests : req'[q] = req[q] /\ req[q].step \notin {"new", "done"}
              => Created(req[q].job)'
         /\ \A m \in queue : Created(m.job)'
         /\ \A w \in Workers : task'[w] = task[w] /\ call'[w] = call[w] => TaskOK(w)'
<1>1. \A q \in Requests : req'[q] = req[q] /\ req[q].step \notin {"new", "done"}
        => Created(req[q].job)'
  BY DEF BaseInv, RequestsOK, Created, JobsGrow
<1>2. \A m \in queue : Created(m.job)'
  BY DEF BaseInv, QueueOK, Created, JobsGrow
<1>3. ASSUME NEW w \in Workers, task'[w] = task[w], call'[w] = call[w]
      PROVE  TaskOK(w)'
  BY <1>3 DEF BaseInv, TasksOK, TaskOK, Created, JobsGrow
<1> QED
  BY <1>1, <1>2, <1>3

\* The object store is as it was.
LEMMA StoreKept ==
  ASSUME BaseInv, UNCHANGED storeVars
  PROVE  StoreInv' /\ tampered' = 0 /\ \A w \in Workers : call'[w] = call[w]
BY StoreInvStep DEF BaseInv, storeVars

\* A request's progress, and the job it is about.
RequestTypes ==
  [step : {"new", "supersede", "restart", "audit", "enqueue", "cancel", "done"},
   job : Jobs \cup {NoJob}]

\* A request that moves on, about a job that exists, leaves the others alone.
LEMMA RequestMoves ==
  ASSUME BaseInv, NEW q \in Requests, NEW r \in RequestTypes, req' = [req EXCEPT ![q] = r],
         JobsGrow, r.step \notin {"new", "done"} => Created(r.job)'
  PROVE  req' \in [Requests -> RequestTypes] /\ RequestsOK'
<1>1. /\ req' \in [Requests -> RequestTypes] /\ req'[q] = r
      /\ \A p \in Requests \ {q} : req'[p] = req[p]
  BY DEF BaseInv, TypeOK, RequestTypes
<1> QED
  BY <1>1, OthersKept DEF RequestsOK

\* A request moves on about the job it has.
LEMMA RequestGoesOn ==
  ASSUME BaseInv, NEW q \in Requests, req[q].step \notin {"new", "done"}, JobsGrow,
         NEW s \in {"restart", "enqueue", "done"},
         req' = [req EXCEPT ![q] = [req[q] EXCEPT !.step = s]]
  PROVE  req' \in [Requests -> RequestTypes] /\ RequestsOK'
<1>1. req[q] \in RequestTypes
  BY DEF BaseInv, TypeOK, RequestTypes
<1>2. PICK r \in RequestTypes : r = [req[q] EXCEPT !.step = s]
  BY <1>1 DEF RequestTypes
<1>3. r.job = req[q].job
  BY <1>1, <1>2 DEF RequestTypes
<1>4. Created(r.job)'
  BY <1>3, CreatedStays DEF BaseInv, RequestsOK
<1> QED
  BY <1>2, <1>4, RequestMoves

\* A request turns to job j.
LEMMA RequestTurns ==
  ASSUME BaseInv, NEW q \in Requests, JobsGrow, NEW j \in Jobs \cup {NoJob},
         NEW s \in {"supersede", "restart", "audit", "cancel", "done"},
         s = "done" \/ Created(j)', req' = [req EXCEPT ![q] = Request(s, j)]
  PROVE  req' \in [Requests -> RequestTypes] /\ RequestsOK'
<1>1. Request(s, j) \in RequestTypes /\ Request(s, j).step = s /\ Request(s, j).job = j
  BY DEF Request, RequestTypes
<1>2. PICK r \in RequestTypes : r = Request(s, j)
  BY <1>1
<1> QED
  BY <1>1, <1>2, RequestMoves

\* The steps of a request keep the invariant.
LEMMA RequestBase ==
  ASSUME BaseInv, NEW q \in Requests, RequestStep(q)
  PROVE  BaseInv'
<1>1. JobsGrow
  BY RequestGrows
<1>2. StoreInv' /\ tampered' = 0 /\ (\A w \in Workers : call'[w] = call[w]) /\ task' = task
  BY StoreKept DEF RequestStep, Start, RetryRead, Supersede, Restart, Audit, Enqueue,
     RequestDies, CancelRead, CancelSave
<1>3. req' \in [Requests -> RequestTypes] /\ RequestsOK'
  <2>1. ASSUME NEW dry \in BOOLEAN, Start(q, dry)
        PROVE  req' \in [Requests -> RequestTypes] /\ RequestsOK'
    BY <1>1, <2>1, CreateGrows, RequestTurns DEF Start
  <2>2. ASSUME NEW j \in Jobs, NEW stale \in BOOLEAN, RetryRead(q, j, stale)
        PROVE  req' \in [Requests -> RequestTypes] /\ RequestsOK'
    <3>1. Created(j)'
      BY <1>1, <2>2, CreatedStays DEF RetryRead, Created
    <3> QED
      BY <1>1, <2>2, <3>1, RequestTurns DEF RetryRead
  <2>3. CASE Supersede(q) \/ Audit(q) \/ Enqueue(q) \/ RequestDies(q) \/ CancelSave(q)
    BY <1>1, <2>3, RequestGoesOn DEF Supersede, Audit, Enqueue, RequestDies, CancelSave
  <2>4. CASE Restart(q)
    <3>1. Created(req[q].job)
      BY <2>4 DEF Restart, BaseInv, RequestsOK
    <3>2. job[req[q].job].dry_run \in BOOLEAN
      BY <3>1 DEF Created, JobRows, BaseInv, TypeOK
    <3>3. ASSUME NEW i \in Jobs, active(i), UNCHANGED job PROVE Created(i)'
      BY <3>3 DEF active, ACTIVE, Created
    <3> QED
      BY <1>1, <2>4, <3>2, <3>3, CreateGrows, RequestTurns DEF Restart
  <2>5. ASSUME NEW j \in Jobs, CancelRead(q, j)
        PROVE  req' \in [Requests -> RequestTypes] /\ RequestsOK'
    <3>1. Created(j)'
      BY <2>5 DEF CancelRead, active, ACTIVE, Created
    <3> QED
      BY <1>1, <2>5, <3>1, RequestTurns DEF CancelRead
  <2> QED
    BY <2>1, <2>2, <2>3, <2>4, <2>5 DEF RequestStep
<1>4. queue' \subseteq Messages /\ QueueOK'
  <2>1. CASE Enqueue(q)
    <3>1. Created(req[q].job)
      BY <2>1 DEF Enqueue, BaseInv, RequestsOK
    <3>2. PICK j \in Jobs : j = req[q].job
      BY <3>1 DEF Created
    <3>3. Created(j)'
      BY <1>1, <3>1, <3>2, CreatedStays
    <3> QED
      BY <1>1, <2>1, <3>2, <3>3, OthersKept DEF Enqueue, QueueOK, Messages, BaseInv, TypeOK
  <2>2. CASE UNCHANGED queue
    BY <1>1, <2>2, OthersKept DEF QueueOK, BaseInv, TypeOK
  <2> QED
    BY <2>1, <2>2 DEF RequestStep, Start, RetryRead, Supersede, Restart, Audit,
       RequestDies, CancelRead, CancelSave
<1>5. audited' \subseteq Jobs
  <2>1. CASE Audit(q)
    BY <2>1 DEF Audit, BaseInv, RequestsOK, Created, TypeOK
  <2>2. CASE UNCHANGED audited
    BY <2>2 DEF BaseInv, TypeOK
  <2> QED
    BY <2>1, <2>2 DEF RequestStep, Start, RetryRead, Supersede, Restart, Enqueue,
       RequestDies, CancelRead, CancelSave
<1>6. faults' \in [crashes : Nat, lost : Nat, stale : Nat]
  <2>1. faults \in [crashes : Nat, lost : Nat, stale : Nat]
    BY DEF BaseInv, TypeOK
  <2> QED
    BY <2>1 DEF RequestStep, Start, RetryRead, Supersede, Restart, Audit, Enqueue,
       RequestDies, CancelRead, CancelSave
<1>7. TasksOK'
  BY <1>1, <1>2, OthersKept DEF TasksOK
<1> QED
  BY <1>1, <1>2, <1>3, <1>4, <1>5, <1>6, <1>7
     DEF BaseInv, TypeOK, StoreInv, RequestTypes, JobsGrow

\* A step of a put call moves that call on, and touches no record and no call of
\* another client.
LEMMA PutFrame ==
  ASSUME StoreInv, NEW c \in Clients, PutStep(c)
  PROVE  /\ UNCHANGED <<bucket, uri, tampered>>
         /\ \A b \in Clients \ {c} : call'[b] = call[b]
         /\ call'[c].step # "idle" /\ call'[c].key = call[c].key
         /\ call'[c].data = call[c].data /\ call'[c].slot = call[c].slot
<1>1. PICK s \in PutSteps \ {"idle"} : Goto(c, s)
  BY DEF PutStep, PutCreateOnly, PutCheck, PutWrite, PutVerify, PutFails, PutSteps
<1>2. call[c].step # "idle" /\ UNCHANGED <<bucket, uri, tampered>>
  BY DEF PutStep, PutCreateOnly, PutCheck, PutWrite, PutVerify, PutFails
<1> QED
  BY <1>1, <1>2, GotoFacts

\* A pipeline worker that stores a payload leaves the calls of the migration's
\* workers alone, and records a payload only where there is no row.
LEMMA WriterFrame ==
  ASSUME StoreInv, NEW c \in Clients, WriterStep(c)
  PROVE  /\ \A b \in Clients \ {c} : call'[b] = call[b]
         /\ UNCHANGED tampered
         /\ \A row \in Rows : \/ uri'[row] = uri[row]
                              \/ uri[row] = NoUri /\ uri'[row] = call[c].key
         /\ UNCHANGED uri \/ RecordPayload(c)
<1>0. call \in [Clients -> PutCalls] /\ uri \in [Rows -> Keys \cup {NoUri, ForeignUri}]
  BY DEF StoreInv, StoreTypeOK
<1>1. ASSUME NEW slot \in Slots, NEW d \in Data, StoreRawPayload(c, slot, d)
      PROVE  (\A b \in Clients \ {c} : call'[b] = call[b]) /\ UNCHANGED <<uri, tampered>>
  BY <1>0, <1>1 DEF StoreRawPayload
<1>2. CASE PutStep(c)
  BY <1>2, PutFrame
<1>3. CASE RecordPayload(c)
  BY <1>0, <1>3 DEF RecordPayload
<1>4. CASE StoreAborted(c)
  BY <1>0, <1>4 DEF StoreAborted
<1> QED
  BY <1>1, <1>2, <1>3, <1>4 DEF WriterStep

\* A worker's put call is dropped.
LEMMA CallDropped ==
  ASSUME BaseInv, NEW w \in Workers, call' = [call EXCEPT ![w] = NoPut],
         UNCHANGED <<objects, versions, bucket, uri, tampered>>
  PROVE  StoreInv' /\ tampered' = 0 /\ \A v \in Workers \ {w} : call'[v] = call[v]
<1>1. w \in Clients /\ Workers \subseteq Clients
  BY MigrationAssumption
<1>2. \A v \in Workers \ {w} : call'[v] = call[v]
  BY <1>1 DEF BaseInv, StoreInv, StoreTypeOK
<1> QED
  BY <1>1, <1>2, NoPutType, CallReplaced DEF BaseInv

\* The new URI of a migrated record: its payload's key under the tenant's UUID,
\* where put() has stored or found it.
LEMMA SavedKey ==
  ASSUME BaseInv, NEW w \in Workers, SaveUri(w)
  PROVE  /\ task[w].rec \in Rows /\ call[w].key \in Keys /\ call[w].key.gen = "uuid"
         /\ call[w].key.sum = task[w].rec.sum /\ objects[call[w].key] = task[w].rec.sum
         /\ uri' = [uri EXCEPT ![task[w].rec] = call[w].key]
         /\ UNCHANGED <<objects, tampered>>
<1>1. w \in Clients /\ task[w].step = "putting" /\ call[w].step = "stored"
  BY MigrationAssumption DEF SaveUri
<1>2. task[w].rec \in Rows /\ call[w].data = task[w].rec.sum
  BY <1>1 DEF BaseInv, TasksOK, TaskOK
<1>3. /\ call[w].slot \in Slots /\ call[w].data \in Data
      /\ call[w].key = TenantKey(call[w].slot, call[w].data)
  BY <1>1 DEF BaseInv, StoreInv, CallsOK
<1>4. call[w].key \in Keys /\ call[w].key.gen = "uuid" /\ call[w].key.sum = task[w].rec.sum
  BY <1>2, <1>3, KeyFacts
<1>5. objects[call[w].key] # Absent /\ objects[call[w].key] \in {call[w].key.sum, Absent}
  BY <1>1, <1>4 DEF BaseInv, StoreInv, Clean
<1> QED
  BY <1>2, <1>4, <1>5 DEF SaveUri

\* Repointing a record leaves the store in order: its new key holds its
\* payload.
LEMMA SaveUriStore ==
  ASSUME BaseInv, NEW w \in Workers, SaveUri(w)
  PROVE  StoreInv' /\ tampered' = 0 /\ \A v \in Workers \ {w} : call'[v] = call[v]
<1>1. w \in Clients /\ Workers \subseteq Clients
  BY MigrationAssumption
<1>2. PICK row \in Rows : row = task[w].rec
  BY SavedKey
<1>3. PICK k \in Keys : k = call[w].key
  BY SavedKey
<1>4. /\ k.gen = "uuid" /\ k.sum = row.sum /\ objects[k] = row.sum
      /\ uri' = [uri EXCEPT ![row] = k] /\ UNCHANGED <<objects, versions, bucket, tampered>>
  BY <1>2, <1>3, SavedKey DEF SaveUri
<1>5. /\ call' \in [Clients -> PutCalls] /\ call'[w].step = "idle"
      /\ \A c \in Clients \ {w} : call'[c] = call[c]
  BY <1>1, NoPutType DEF SaveUri, BaseInv, StoreInv, StoreTypeOK
<1>6. /\ uri' \in [Rows -> Keys \cup {NoUri, ForeignUri}] /\ uri'[row] = k
      /\ \A r \in Rows \ {row} : uri'[r] = uri[r]
  BY <1>4 DEF BaseInv, StoreInv, StoreTypeOK
<1>7. row.sum # Absent
  BY RawStoreAssumption DEF Rows
<1>8. StoreTypeOK'
  BY <1>4, <1>5, <1>6 DEF BaseInv, StoreInv, StoreTypeOK
<1>9. CallsOK'
  BY <1>5 DEF BaseInv, StoreInv, CallsOK
<1>10. UrisOK'
  BY <1>4, <1>6 DEF BaseInv, StoreInv, UrisOK
<1>11. Clean'
  BY <1>4, <1>5, <1>6, <1>7 DEF BaseInv, StoreInv, Clean
<1> QED
  BY <1>1, <1>4, <1>5, <1>8, <1>9, <1>10, <1>11 DEF BaseInv, StoreInv

\* A worker's steps keep the store in order and leave other workers' calls alone.
LEMMA TaskStore ==
  ASSUME BaseInv, NEW w \in Workers, TaskStep(w)
  PROVE  StoreInv' /\ tampered' = 0 /\ \A v \in Workers \ {w} : call'[v] = call[v]
<1>0. w \in Clients /\ Workers \subseteq Clients
  BY MigrationAssumption
<1>1. CASE UNCHANGED storeVars
  BY <1>1, StoreKept
<1>2. CASE Download(w)
  <2>1. CASE UNCHANGED call
    BY <1>1, <1>2, <2>1 DEF Download, storeVars
  <2>2. CASE call' = [call EXCEPT ![w] = PutCall(task[w].rec.slot, objects[task[w].from])]
               /\ objects[task[w].from] = task[w].rec.sum
    <3>1. task[w].rec \in Rows
      BY <1>2 DEF Download, BaseInv, TasksOK, TaskOK
    <3>2. PICK slot \in Slots, d \in Data : slot = task[w].rec.slot /\ d = task[w].rec.sum
      BY <3>1 DEF Rows
    <3>3. PutCall(slot, d) \in PutCalls
      BY KeyFacts DEF PutCall, PutCalls, PutSteps
    <3>4. PICK x \in PutCalls : x = PutCall(slot, d)
      BY <3>3
    <3>5. x.step = "put" /\ x.slot = slot /\ x.data = d /\ x.key = TenantKey(slot, d)
      BY <3>4 DEF PutCall
    <3>6. call' = [call EXCEPT ![w] = x] /\ UNCHANGED <<objects, versions, bucket, uri, tampered>>
      BY <1>2, <2>2, <3>2, <3>4 DEF Download
    <3>7. StoreInv'
      BY <1>0, <3>2, <3>5, <3>6, CallReplaced DEF BaseInv
    <3> QED
      BY <1>0, <3>6, <3>7 DEF BaseInv, StoreInv, StoreTypeOK
  <2> QED
    BY <1>2, <2>1, <2>2 DEF Download
<1>3. CASE Putting(w)
  BY <1>0, <1>3, PutPreserves, PutFrame DEF Putting, BaseInv
<1>4. CASE SaveUri(w)
  BY <1>4, SaveUriStore
<1>5. CASE PassFails(w)
  BY <1>5, CallDropped DEF PassFails
<1>6. CASE Ack(w)
  BY <1>6, CallDropped DEF Ack, Idle
<1> QED
  BY <1>1, <1>2, <1>3, <1>4, <1>5, <1>6
     DEF TaskStep, Begin, Query, Inspect, BatchEnds, PassEnds, Finish, Close

\* A task keeps its job and its request until its worker is idle again.
Follows(t, u) ==
  u.step # "idle" => t.step # "idle" /\ u.job = t.job /\ u.req = t.req

\* A worker's task is replaced by one that is in order.
LEMMA TaskReplaced ==
  ASSUME BaseInv, JobsGrow, NEW w \in Workers, NEW t \in Tasks, task' = [task EXCEPT ![w] = t],
         \A v \in Workers \ {w} : call'[v] = call[v],
         Follows(task[w], t) \/ (Created(t.job)' /\ t.req \in Requests),
         t.step \in InHand => t.rec \in Rows /\ t.from \in Keys,
         t.step = "putting" =>
           /\ call'[w].step # "idle" /\ call'[w].slot = t.rec.slot /\ call'[w].data = t.rec.sum
           /\ task[w].step # "idle" /\ t.job = task[w].job /\ ~job[task[w].job].dry_run,
         t.step = "close" => t.verdict # "NONE"
  PROVE  /\ task' \in [Workers -> Tasks] /\ TasksOK'
         /\ task'[w] = t /\ \A v \in Workers \ {w} : task'[v] = task[v]
<1>1. /\ task' \in [Workers -> Tasks] /\ task'[w] = t
      /\ \A v \in Workers \ {w} : task'[v] = task[v]
  BY DEF BaseInv, TypeOK
<1>2. \A v \in Workers \ {w} : TaskOK(v)'
  BY <1>1, OthersKept
<1>3. t.step # "idle" => Created(t.job)' /\ t.req \in Requests
  <2>1. CASE Created(t.job)' /\ t.req \in Requests
    BY <2>1
  <2>2. CASE Follows(task[w], t)
    <3> SUFFICES ASSUME t.step # "idle" PROVE Created(t.job)' /\ t.req \in Requests
      OBVIOUS
    <3>1. TaskOK(w) /\ task[w].step # "idle" /\ t.job = task[w].job /\ t.req = task[w].req
      BY <2>2 DEF Follows, BaseInv, TasksOK
    <3>2. Created(t.job) /\ t.req \in Requests
      BY <3>1 DEF TaskOK
    <3> QED
      BY <3>2, CreatedStays
  <2> QED
    BY <2>1, <2>2
<1>4. t.step = "putting" => ~job'[t.job].dry_run
  <2>1. task[w].step # "idle" => Created(task[w].job)
    BY DEF BaseInv, TasksOK, TaskOK
  <2> QED
    BY <2>1 DEF Created, JobsGrow
<1>5. TaskOK(w)'
  BY <1>1, <1>3, <1>4 DEF TaskOK, InHand
<1> QED
  BY <1>1, <1>2, <1>5 DEF TasksOK

\* The task after each step of its worker.
LEMMA TaskBecomes ==
  ASSUME BaseInv, NEW w \in Workers, TaskStep(w)
  PROVE  \E t \in Tasks :
           /\ task' = [task EXCEPT ![w] = t]
           /\ Follows(task[w], t)
           /\ t.step \in InHand => t.rec \in Rows /\ t.from \in Keys
           /\ t.step = "putting" =>
                /\ call'[w].step # "idle" /\ call'[w].slot = t.rec.slot
                /\ call'[w].data = t.rec.sum
                /\ task[w].step # "idle" /\ t.job = task[w].job /\ ~job[task[w].job].dry_run
           /\ t.step = "close" => t.verdict # "NONE"
<1> DEFINE Fine(t) ==
             /\ task' = [task EXCEPT ![w] = t]
             /\ Follows(task[w], t)
             /\ t.step \in InHand => t.rec \in Rows /\ t.from \in Keys
             /\ t.step = "putting" =>
                  /\ call'[w].step # "idle" /\ call'[w].slot = t.rec.slot
                  /\ call'[w].data = t.rec.sum
                  /\ task[w].step # "idle" /\ t.job = task[w].job /\ ~job[task[w].job].dry_run
             /\ t.step = "close" => t.verdict # "NONE"
<1>0. task \in [Workers -> Tasks] /\ task[w] \in Tasks /\ TaskOK(w) /\ w \in Clients
  BY MigrationAssumption DEF BaseInv, TypeOK, TasksOK
<1>1. ASSUME NEW s \in Steps \ (InHand \cup {"close"}), Goes(w, s), task[w].step # "idle"
      PROVE  \E t \in Tasks : Fine(t)
  <2>1. PICK t \in Tasks : t = [task[w] EXCEPT !.step = s]
    BY <1>0, TaskMoves
  <2>2. t.step = s /\ t.job = task[w].job /\ t.req = task[w].req
    BY <1>0, <2>1, TaskMoves
  <2>3. task' = [task EXCEPT ![w] = t]
    BY <1>1, <2>1 DEF Goes
  <2>4. Fine(t)
    BY <1>1, <2>2, <2>3 DEF Follows, InHand
  <2> QED
    BY <2>4
<1>2. ASSUME NEW fs, Tally(w, fs), task[w].step # "idle"
      PROVE  \E t \in Tasks : Fine(t)
  <2>1. PICK t \in Tasks : t = Tallied(task[w], fs)
    BY <1>0, TalliedFacts
  <2>2. t.step = "batch" /\ t.job = task[w].job /\ t.req = task[w].req
    BY <1>0, <2>1, TalliedFacts
  <2>3. Fine(t)
    BY <1>2, <2>1, <2>2 DEF Tally, Follows, InHand
  <2> QED
    BY <2>3
<1>3. CASE Begin(w) \/ PassFails(w) \/ PassEnds(w) \/ Close(w)
  BY <1>1, <1>3 DEF Begin, PassFails, PassEnds, Close, Steps, InHand
<1>4. CASE Query(w)
  <2> DEFINE todo == {[row |-> row, uri |-> uri[row]] : row \in {x \in Rows : uri[x] # NoUri}}
  <2>1. todo \in SUBSET [row : Rows, uri : Keys \cup {ForeignUri}]
    BY DEF BaseInv, StoreInv, StoreTypeOK
  <2> HIDE DEF todo
  <2>2. PICK t \in Tasks : t = [task[w] EXCEPT !.step = "next", !.todo = todo]
    BY <1>0, <2>1, TaskLists
  <2>3. t.step = "next" /\ t.job = task[w].job /\ t.req = task[w].req
    BY <1>0, <2>1, <2>2, TaskLists
  <2>4. task[w].step # "idle" /\ task' = [task EXCEPT ![w] = t]
    BY <1>4, <2>2 DEF Query, todo
  <2>5. Fine(t)
    BY <2>3, <2>4 DEF Follows, InHand
  <2> QED
    BY <2>5
<1>5. ASSUME NEW x \in task[w].todo, Inspect(w, x)
      PROVE  \E t \in Tasks : Fine(t)
  <2>1. PICK t0 \in Tasks : t0 = [task[w] EXCEPT !.todo = task[w].todo \ {x}]
    BY <1>0, TaskTakes
  <2>2. t0.job = task[w].job /\ t0.req = task[w].req /\ t0.count \in Counts
    BY <1>0, <2>1, TaskTakes DEF Tasks
  <2>3. x.row \in Rows /\ task[w].step # "idle"
    BY <1>0, <1>5 DEF Tasks, Inspect
  <2>4. CASE Category(x) \in {"unprefixed", "schema"}
    <3>1. PICK n \in Counts : n = Counted(t0.count, {"inspected", Category(x)})
      BY <2>2, CountedFacts
    <3>2. x.uri \in Keys
      BY <2>4, CategoryFacts
    <3>3. PICK t \in Tasks :
            t = [t0 EXCEPT !.step = "download", !.rec = x.row, !.from = x.uri, !.count = n]
      BY <2>3, <3>2, TaskHolds
    <3>4. /\ t.step = "download" /\ t.job = task[w].job /\ t.req = task[w].req
          /\ t.rec = x.row /\ t.from = x.uri
      <4>1. /\ t.step = "download" /\ t.job = t0.job /\ t.req = t0.req
            /\ t.rec = x.row /\ t.from = x.uri
        BY <3>3 DEF Tasks
      <4> QED
        BY <2>2, <4>1
    <3>5. task' = [task EXCEPT ![w] = t]
      BY <1>5, <2>1, <2>4, <3>1, <3>3 DEF Inspect
    <3>6. Fine(t)
      BY <2>3, <3>2, <3>4, <3>5 DEF Follows
    <3> QED
      BY <3>6
  <2>5. CASE Category(x) \notin {"unprefixed", "schema"}
    <3>1. PICK t \in Tasks : t = Tallied(t0, {"inspected", Category(x)})
      BY TalliedFacts
    <3>2. t.step = "batch" /\ t.job = task[w].job /\ t.req = task[w].req
      BY <2>2, <3>1, TalliedFacts
    <3>3. task' = [task EXCEPT ![w] = t]
      BY <1>5, <2>1, <2>5, <3>1 DEF Inspect
    <3>4. Fine(t)
      BY <2>3, <3>2, <3>3 DEF Follows, InHand
    <3> QED
      BY <3>4
  <2> QED
    BY <2>4, <2>5
<1>6. CASE Download(w)
  <2>1. task[w].step = "download" /\ task[w].rec \in Rows /\ task[w].from \in Keys
    BY <1>0, <1>6 DEF Download, TaskOK
  <2>2. CASE Tally(w, {"conflicts"}) \/ Tally(w, {"ready"})
    BY <1>2, <2>1, <2>2
  <2>3. CASE /\ objects[task[w].from] = task[w].rec.sum
             /\ ~job[task[w].job].dry_run
             /\ call' = [call EXCEPT ![w] = PutCall(task[w].rec.slot, objects[task[w].from])]
             /\ Goes(w, "putting")
    <3>1. PICK t \in Tasks : t = [task[w] EXCEPT !.step = "putting"]
      BY <1>0, TaskMoves DEF Steps
    <3>2. /\ t.step = "putting" /\ t.job = task[w].job /\ t.req = task[w].req
          /\ t.rec = task[w].rec /\ t.from = task[w].from
      BY <1>0, <3>1, TaskMoves DEF Steps
    <3>3. /\ call'[w].step # "idle" /\ call'[w].slot = task[w].rec.slot
          /\ call'[w].data = task[w].rec.sum
      BY <1>0, <2>3 DEF PutCall, BaseInv, StoreInv, StoreTypeOK
    <3>4. Fine(t)
      BY <2>1, <2>3, <3>1, <3>2, <3>3 DEF Goes, Follows
    <3> QED
      BY <3>4
  <2> QED
    BY <1>6, <2>2, <2>3 DEF Download
<1>7. CASE Putting(w)
  <2>1. /\ call'[w].step # "idle" /\ call'[w].slot = call[w].slot /\ call'[w].data = call[w].data
    BY <1>0, <1>7, PutFrame DEF Putting, BaseInv
  <2>2. Fine(task[w])
    BY <1>0, <1>7, <2>1 DEF Putting, jobVars, TaskOK, Follows, InHand
  <2> QED
    BY <1>0, <2>2
<1>8. CASE SaveUri(w)
  BY <1>2, <1>8 DEF SaveUri
<1>9. CASE BatchEnds(w)
  <2>1. CASE Goes(w, "next")
    BY <1>1, <1>9, <2>1 DEF BatchEnds, Steps, InHand
  <2>2. CASE \E s \in {"finish", "next"} :
               task' = [task EXCEPT ![w] = [task[w] EXCEPT !.since = 0, !.step = s]]
    <3>1. PICK s \in {"finish", "next"} :
            task' = [task EXCEPT ![w] = [task[w] EXCEPT !.since = 0, !.step = s]]
      BY <2>2
    <3>2. PICK t \in Tasks : t = [task[w] EXCEPT !.since = 0, !.step = s]
      BY <1>0, TaskBatch
    <3>3. t.step = s /\ t.job = task[w].job /\ t.req = task[w].req
      BY <1>0, <3>2, TaskBatch
    <3>4. Fine(t)
      BY <1>9, <3>1, <3>2, <3>3 DEF BatchEnds, Follows, InHand
    <3> QED
      BY <3>4
  <2> QED
    BY <1>9, <2>1, <2>2 DEF BatchEnds
<1>10. CASE Finish(w)
  <2>1. PICK n \in Counts : n = Skipped(task[w].count)
    BY <1>0, SkippedFacts DEF Tasks
  <2>2. PICK v \in TERMINAL_STATUSES : v = Verdict(task[w].job, n)
    BY VerdictType
  <2>3. PICK t \in Tasks : t = [task[w] EXCEPT !.step = "close", !.count = n, !.verdict = v]
    BY <1>0, TaskDecides
  <2>4. t.step = "close" /\ t.job = task[w].job /\ t.req = task[w].req /\ t.verdict = v
    <3>1. PICK t0 \in Tasks : t0 = task[w]
      BY <1>0
    <3>2. t.step = "close" /\ t.job = t0.job /\ t.req = t0.req /\ t.verdict = v
      BY <2>3, <3>1 DEF Tasks
    <3> QED
      BY <3>1, <3>2
  <2>5. v # "NONE"
    BY DEF TERMINAL_STATUSES
  <2>6. task' = [task EXCEPT ![w] = t]
    BY <1>10, <2>1, <2>2, <2>3 DEF Finish
  <2>7. Fine(t)
    BY <1>10, <2>4, <2>5, <2>6 DEF Finish, Follows, InHand
  <2> QED
    BY <2>7
<1>11. CASE Ack(w)
  <2>1. Fine(NoTask)
    BY <1>11, NoTaskType DEF Ack, Idle, Follows, InHand
  <2> QED
    BY <2>1, NoTaskType
<1> QED
  BY <1>3, <1>4, <1>5, <1>6, <1>7, <1>8, <1>9, <1>10, <1>11 DEF TaskStep

\* The initial states, whatever the placement of the records.
LEMMA BaseInit == Init => BaseInv
<1> SUFFICES ASSUME Init PROVE BaseInv
  OBVIOUS
<1>1. /\ \A c \in Clients : call[c].step = "idle"
      /\ call \in [Clients -> PutCalls]
  BY NoPutType DEF Init
<1>2. /\ \A row \in Rows : uri[row] \in InitialUris(row)
      /\ uri \in [Rows -> UNION {InitialUris(row) : row \in Rows}]
  BY DEF Init
<1>3. ASSUME NEW row \in Rows, NEW u \in InitialUris(row)
      PROVE  /\ u \in Keys \cup {NoUri, ForeignUri}
             /\ u \in Keys => u.sum = row.sum /\ u.slot = row.slot
  BY <1>3, RawStoreAssumption DEF InitialUris, Keys, Rows
<1>4. uri \in [Rows -> Keys \cup {NoUri, ForeignUri}] /\ UrisOK
  BY <1>2, <1>3 DEF UrisOK
<1>5. StoreTypeOK /\ CallsOK
  BY <1>1, <1>4, NoVersions DEF Init, StoreTypeOK, CallsOK
<1>6. Clean
  <2>1. ASSUME NEW k \in Keys, k.gen = "uuid"
        PROVE  objects[k] \in {k.sum, Absent}
    BY <2>1 DEF Init
  <2>2. ASSUME NEW row \in Rows, uri[row] \in Keys, uri[row].gen = "uuid"
        PROVE  objects[uri[row]] # Absent
    <3>1. PICK k \in Keys : k = uri[row]
      BY <2>2
    <3>2. row = [slot |-> k.slot, sum |-> k.sum]
      BY <1>2, <1>3, <3>1 DEF Rows
    <3>3. objects[k] = k.sum /\ k.sum \in Data
      BY <2>2, <3>1, <3>2 DEF Init, Keys
    <3> QED
      BY <3>1, <3>3, RawStoreAssumption
  <2> QED
    BY <1>1, <2>1, <2>2 DEF Clean
<1>7. StoreInv /\ tampered = 0
  BY <1>4, <1>5, <1>6, RawStoreAssumption DEF Init, StoreInv
<1>8. TypeOK
  <2>1. job \in [Jobs -> JobRows] /\ task \in [Workers -> Tasks]
    BY JobRowTypes, NoTaskType DEF Init
  <2> QED
    BY <1>5, <2>1 DEF Init, TypeOK, Request
<1>9. RequestsOK /\ QueueOK
  BY DEF Init, RequestsOK, QueueOK, Request
<1>10. TasksOK
  BY NoTaskType DEF Init, TasksOK, TaskOK
<1> QED
  BY <1>7, <1>8, <1>9, <1>10 DEF BaseInv

\* A job table that nobody writes to.
LEMMA JobsStay ==
  ASSUME BaseInv, UNCHANGED job PROVE JobsGrow
BY DEF BaseInv, TypeOK, JobsGrow

\* The steps of a migration task keep the invariant,
LEMMA TaskBase ==
  ASSUME BaseInv, NEW w \in Workers, TaskStep(w)
  PROVE  BaseInv'
<1>1. JobsGrow
  BY TaskGrows
<1>2. StoreInv' /\ tampered' = 0 /\ \A v \in Workers \ {w} : call'[v] = call[v]
  BY TaskStore
<1>3. UNCHANGED <<audited, req, queue, faults>>
  BY DEF TaskStep, Begin, Query, Inspect, Download, Putting, SaveUri, PassFails, BatchEnds,
     PassEnds, Finish, Close, Ack, jobVars
<1>4. task' \in [Workers -> Tasks] /\ TasksOK'
  BY <1>1, <1>2, TaskBecomes, TaskReplaced
<1>5. RequestsOK' /\ QueueOK'
  BY <1>1, <1>3, OthersKept DEF RequestsOK, QueueOK
<1> QED
  BY <1>1, <1>2, <1>3, <1>4, <1>5 DEF BaseInv, TypeOK, StoreInv, JobsGrow

\* A lost worker, its message redelivered or not.
LEMMA LostBase ==
  ASSUME BaseInv, NEW w \in Workers, Crash(w) \/ ProcessLost(w)
  PROVE  BaseInv'
<1>1. JobsGrow
  BY JobsStay DEF Crash, ProcessLost
<1>2. StoreInv' /\ tampered' = 0 /\ \A v \in Workers \ {w} : call'[v] = call[v]
  BY CallDropped DEF Crash, ProcessLost, Idle
<1>3. task' \in [Workers -> Tasks] /\ TasksOK'
  <2>1. task' = [task EXCEPT ![w] = NoTask]
    BY DEF Crash, ProcessLost, Idle
  <2>2. PICK t \in Tasks : t = NoTask /\ t.step = "idle"
    BY NoTaskType
  <2> QED
    BY <1>1, <1>2, <2>1, <2>2, TaskReplaced DEF Follows, InHand
<1>4. queue' \subseteq Messages /\ QueueOK'
  <2>1. Created(task[w].job) /\ task[w].req \in Requests
    BY DEF Crash, ProcessLost, BaseInv, TasksOK, TaskOK
  <2>2. PICK m : m = [job |-> task[w].job, req |-> task[w].req]
    OBVIOUS
  <2>3. m \in Messages /\ Created(m.job)
    BY <2>1, <2>2 DEF Messages, Created
  <2>4. Created(m.job)'
    BY <1>1, <2>3, CreatedStays
  <2>5. queue' \subseteq queue \cup {m}
    BY <2>2 DEF Crash, ProcessLost
  <2> QED
    BY <1>1, <2>3, <2>4, <2>5, OthersKept DEF QueueOK, BaseInv, TypeOK
<1>5. RequestsOK'
  BY <1>1, OthersKept DEF Crash, ProcessLost, RequestsOK
<1>6. faults' \in [crashes : Nat, lost : Nat, stale : Nat]
  BY DEF Crash, ProcessLost, BaseInv, TypeOK
<1> QED
  BY <1>1, <1>2, <1>3, <1>4, <1>5, <1>6
     DEF Crash, ProcessLost, BaseInv, TypeOK, StoreInv, JobsGrow

\* as does a delivery,
LEMMA DeliverBase ==
  ASSUME BaseInv, NEW w \in Workers, NEW m \in queue, Deliver(w, m)
  PROVE  BaseInv'
<1>1. JobsGrow
  BY JobsStay DEF Deliver
<1>2. StoreInv' /\ tampered' = 0 /\ \A v \in Workers : call'[v] = call[v]
  BY StoreKept DEF Deliver
<1>3. m \in Messages /\ Created(m.job)'
  BY <1>1, OthersKept DEF BaseInv, TypeOK
<1>4. task' \in [Workers -> Tasks] /\ TasksOK'
  <2>1. PICK t \in Tasks : t = [NoTask EXCEPT !.step = "begin", !.job = m.job, !.req = m.req]
    BY <1>3, NoTaskType
  <2>2. t.step = "begin" /\ t.job = m.job /\ t.req = m.req /\ m.req \in Requests
    BY <1>3, <2>1, NoTaskType DEF Messages
  <2> QED
    BY <1>1, <1>2, <1>3, <2>1, <2>2, TaskReplaced DEF Deliver, InHand
<1>5. RequestsOK' /\ QueueOK'
  BY <1>1, OthersKept DEF Deliver, RequestsOK, QueueOK
<1> QED
  BY <1>1, <1>2, <1>4, <1>5 DEF Deliver, BaseInv, TypeOK, StoreInv, JobsGrow

\* as do the pipeline's own writes.
LEMMA WriterBase ==
  ASSUME BaseInv, NEW c \in Writers, WriterStep(c), UNCHANGED jobVars
  PROVE  BaseInv'
<1>1. c \in Clients /\ c \notin Workers /\ Workers \subseteq Clients
  BY RawStoreAssumption, MigrationAssumption
<1>2. StoreInv' /\ tampered' = 0 /\ \A w \in Workers : call'[w] = call[w]
  BY <1>1, WriterPreserves, WriterFrame DEF BaseInv
<1>3. JobsGrow
  BY JobsStay DEF jobVars
<1>4. TasksOK' /\ RequestsOK' /\ QueueOK'
  BY <1>2, <1>3, OthersKept DEF jobVars, TasksOK, RequestsOK, QueueOK
<1> QED
  BY <1>2, <1>4 DEF jobVars, BaseInv, TypeOK, StoreInv

\* Together: every step keeps the invariant.
LEMMA BaseStep == BaseInv /\ [Next]_vars => BaseInv'
<1> SUFFICES ASSUME BaseInv, [Next]_vars PROVE BaseInv'
  OBVIOUS
<1>1. CASE UNCHANGED vars
  <2>1. StoreInv' /\ tampered' = 0 /\ (\A w \in Workers : call'[w] = call[w]) /\ UNCHANGED jobVars
    BY <1>1, StoreKept DEF vars
  <2>2. JobsGrow
    BY <2>1, JobsStay DEF jobVars
  <2>3. TasksOK' /\ RequestsOK' /\ QueueOK'
    BY <2>1, <2>2, OthersKept DEF jobVars, TasksOK, RequestsOK, QueueOK
  <2> QED
    BY <2>1, <2>3 DEF jobVars, BaseInv, TypeOK, StoreInv
<1>2. CASE Next
  BY <1>2, RequestBase, DeliverBase, TaskBase, LostBase, WriterBase DEF Next
<1> QED
  BY <1>1, <1>2

\* The invariant holds in every reachable state.
LEMMA BaseInvariant == Spec => []BaseInv
BY BaseInit, BaseStep, PTL DEF Spec

\* The job table, the requests, the messages and the tasks have their types,
\* whatever fails, overlaps or is delivered again.
THEOREM MigrationTypeCorrect == Spec => []TypeOK
<1>1. BaseInv => TypeOK
  BY DEF BaseInv
<1> QED
  BY <1>1, BaseInvariant, PTL

-----------------------------------------------------------------------------
(* No record loses its payload.                                            *)

\* What a put call writes is what its key promises.
LEMMA PutKeepsPromise ==
  ASSUME StoreInv, NEW c \in Clients, PutStep(c)
  PROVE  \A k \in Keys : objects'[k] \in {objects[k], k.sum}
<1>1. CASE UNCHANGED objects
  BY <1>1
<1>2. CASE Wrote(c) /\ call[c].step # "idle"
  <2>1. call[c].key \in Keys /\ call[c].key.sum = call[c].data
    BY <1>2, CallKey
  <2> QED
    BY <1>2, <2>1 DEF Wrote, StoreInv, StoreTypeOK
<1> QED
  BY <1>1, <1>2 DEF PutStep, PutCreateOnly, PutCheck, PutWrite, PutVerify, PutFails

\* No step of the migration or of a pipeline worker puts anything else under a
\* key than what the key promises.
LEMMA ObjectsMove ==
  ASSUME BaseInv, Next
  PROVE  \A k \in Keys : objects'[k] \in {objects[k], k.sum}
<1>1. CASE UNCHANGED objects
  BY <1>1
<1>2. ASSUME NEW c \in Clients, PutStep(c)
      PROVE  \A k \in Keys : objects'[k] \in {objects[k], k.sum}
  BY <1>2, PutKeepsPromise DEF BaseInv
<1>3. ASSUME NEW q \in Requests, RequestStep(q) PROVE UNCHANGED objects
  BY <1>3 DEF RequestStep, Start, RetryRead, Supersede, Restart, Audit, Enqueue, RequestDies,
     CancelRead, CancelSave, storeVars
<1>4. ASSUME NEW w \in Workers, TaskStep(w) PROVE UNCHANGED objects \/ PutStep(w)
  BY <1>4 DEF TaskStep, Begin, Query, Inspect, Download, Putting, SaveUri, PassFails, BatchEnds,
     PassEnds, Finish, Close, Ack, storeVars
<1>5. ASSUME NEW c \in Writers, WriterStep(c) PROVE UNCHANGED objects \/ PutStep(c)
  BY <1>5 DEF WriterStep, StoreRawPayload, RecordPayload, StoreAborted
<1>6. ASSUME NEW w \in Workers, NEW m \in queue, Deliver(w, m) PROVE UNCHANGED objects
  BY <1>6 DEF Deliver, storeVars
<1>7. ASSUME NEW w \in Workers, Crash(w) \/ ProcessLost(w) PROVE UNCHANGED objects
  BY <1>7 DEF Crash, ProcessLost
<1>8. Workers \subseteq Clients /\ Writers \subseteq Clients
  BY RawStoreAssumption, MigrationAssumption
<1> QED
  BY <1>1, <1>2, <1>3, <1>4, <1>5, <1>6, <1>7, <1>8 DEF Next

\* A record's URI changes only to the key under the tenant's UUID that holds
\* the record's payload.
LEMMA UrisMove ==
  ASSUME BaseInv, Next, NEW row \in Rows
  PROVE  \/ uri'[row] = uri[row]
         \/ /\ uri'[row] \in Keys /\ uri'[row].gen = "uuid"
            /\ objects'[uri'[row]] = row.sum
<1> DEFINE Goal == \/ uri'[row] = uri[row]
                   \/ /\ uri'[row] \in Keys /\ uri'[row].gen = "uuid"
                      /\ objects'[uri'[row]] = row.sum
<1>1. CASE UNCHANGED uri
  BY <1>1
<1>2. ASSUME NEW w \in Workers, SaveUri(w) PROVE Goal
  <2>1. uri \in [Rows -> Keys \cup {NoUri, ForeignUri}]
    BY DEF BaseInv, StoreInv, StoreTypeOK
  <2> QED
    BY <1>2, <2>1, SavedKey
<1>3. ASSUME NEW c \in Writers, RecordPayload(c) PROVE Goal
  <2>1. c \in Clients /\ call[c].step = "stored"
    BY <1>3, RawStoreAssumption DEF RecordPayload
  <2>2. PICK slot \in Slots, d \in Data :
          slot = call[c].slot /\ d = call[c].data /\ call[c].key = TenantKey(slot, d)
    BY <2>1 DEF BaseInv, StoreInv, CallsOK
  <2>3. TenantKey(slot, d) \in Keys /\ TenantKey(slot, d).sum = d /\ TenantKey(slot, d).gen = "uuid"
    BY KeyFacts
  <2>4. PICK k \in Keys : k = TenantKey(slot, d)
    BY <2>3
  <2>5. objects[k] = d
    BY <2>1, <2>2, <2>3, <2>4 DEF BaseInv, StoreInv, Clean
  <2>6. CASE row = [slot |-> slot, sum |-> d] /\ uri[row] = NoUri
    <3>1. uri' = [uri EXCEPT ![row] = k] /\ row.sum = d /\ UNCHANGED objects
      BY <1>3, <2>2, <2>4, <2>6 DEF RecordPayload
    <3>2. uri'[row] = k
      BY <3>1 DEF BaseInv, StoreInv, StoreTypeOK
    <3> QED
      BY <2>3, <2>4, <2>5, <3>1, <3>2
  <2>7. CASE ~(row = [slot |-> slot, sum |-> d] /\ uri[row] = NoUri)
    BY <1>3, <2>2, <2>7 DEF RecordPayload, BaseInv, StoreInv, StoreTypeOK
  <2> QED
    BY <2>6, <2>7
<1>4. ASSUME NEW q \in Requests, RequestStep(q) PROVE UNCHANGED uri
  BY <1>4 DEF RequestStep, Start, RetryRead, Supersede, Restart, Audit, Enqueue, RequestDies,
     CancelRead, CancelSave, storeVars
<1>5. ASSUME NEW w \in Workers, TaskStep(w) PROVE UNCHANGED uri \/ SaveUri(w)
  BY <1>5 DEF TaskStep, Begin, Query, Inspect, Download, Putting, PassFails, BatchEnds,
     PassEnds, Finish, Close, Ack, storeVars, PutStep, PutCreateOnly, PutCheck, PutWrite,
     PutVerify, PutFails
<1>6. ASSUME NEW c \in Writers, WriterStep(c) PROVE UNCHANGED uri \/ RecordPayload(c)
  BY <1>6, WriterFrame, RawStoreAssumption DEF BaseInv
<1>7. ASSUME NEW w \in Workers, NEW m \in queue, Deliver(w, m) PROVE UNCHANGED uri
  BY <1>7 DEF Deliver, storeVars
<1>8. ASSUME NEW w \in Workers, Crash(w) \/ ProcessLost(w) PROVE UNCHANGED uri
  BY <1>8 DEF Crash, ProcessLost
<1> QED
  BY <1>1, <1>2, <1>3, <1>4, <1>5, <1>6, <1>7, <1>8 DEF Next

\* No step of any pass, request or pipeline worker takes a record's payload
\* away: a URI is replaced only by one that leads to the same bytes.
THEOREM PayloadsAreKept == Spec => PayloadKept
<1>1. BaseInv /\ Next => \A row \in Rows : Resolves(row) => Resolves(row)'
  <2> SUFFICES ASSUME BaseInv, Next, NEW row \in Rows, Resolves(row) PROVE Resolves(row)'
    OBVIOUS
  <2>1. CASE uri'[row] = uri[row]
    <3>1. PICK k \in Keys : k = uri[row] /\ objects[k] = row.sum
      BY DEF Resolves
    <3>2. k.sum = row.sum
      BY <3>1 DEF BaseInv, StoreInv, UrisOK
    <3>3. objects'[k] = row.sum
      BY <3>1, <3>2, ObjectsMove
    <3> QED
      BY <2>1, <3>1, <3>3 DEF Resolves
  <2>2. CASE uri'[row] \in Keys /\ objects'[uri'[row]] = row.sum
    BY <2>2 DEF Resolves
  <2> QED
    BY <2>1, <2>2, UrisMove
<1>2. BaseInv /\ [Next]_vars => [\A row \in Rows : Resolves(row) => Resolves(row)']_vars
  BY <1>1
<1> QED
  BY <1>2, BaseInvariant, PTL DEF Spec, PayloadKept

-----------------------------------------------------------------------------
(* The audit log shows every job that has a task.                          *)

\* No step executes or enqueues a job before its event is written.
LEMMA AuditStep == BaseInv /\ AuditInv /\ [Next]_vars => AuditInv'
<1> SUFFICES ASSUME BaseInv, AuditInv, [Next]_vars PROVE AuditInv'
  OBVIOUS
<1>0. task \in [Workers -> Tasks] /\ req \in [Requests -> RequestTypes]
  BY DEF BaseInv, TypeOK, RequestTypes
<1>1. CASE UNCHANGED vars
  BY <1>1 DEF vars, jobVars, AuditInv, AuditedBeforeRun
<1>2. ASSUME NEW q \in Requests, RequestStep(q) PROVE AuditInv'
  <2>1. CASE Audit(q)
    <3>1. req'[q].job = req[q].job /\ \A p \in Requests \ {q} : req'[p] = req[p]
      BY <1>0, <2>1 DEF Audit, RequestTypes
    <3> QED
      BY <2>1, <3>1 DEF Audit, AuditInv, AuditedBeforeRun
  <2>2. CASE Enqueue(q)
    <3>1. req'[q].step = "done" /\ \A p \in Requests \ {q} : req'[p] = req[p]
      BY <1>0, <2>2 DEF Enqueue, RequestTypes
    <3> QED
      BY <2>2, <3>1 DEF Enqueue, AuditInv, AuditedBeforeRun
  <2>3. CASE UNCHANGED <<audited, queue, task>> /\ req'[q].step # "enqueue"
               /\ \A p \in Requests \ {q} : req'[p] = req[p]
    BY <2>3 DEF AuditInv, AuditedBeforeRun
  <2> QED
    BY <1>0, <1>2, <2>1, <2>2, <2>3
       DEF RequestStep, Start, RetryRead, Supersede, Restart, RequestDies, CancelRead,
           CancelSave, Request, RequestTypes
<1>3. ASSUME NEW w \in Workers, TaskStep(w) PROVE AuditInv'
  <2>1. UNCHANGED <<audited, req, queue>>
    BY <1>3 DEF TaskStep, Begin, Query, Inspect, Download, Putting, SaveUri, PassFails,
       BatchEnds, PassEnds, Finish, Close, Ack, jobVars
  <2>2. PICK t \in Tasks : task' = [task EXCEPT ![w] = t] /\ Follows(task[w], t)
    BY <1>3, TaskBecomes
  <2> QED
    BY <1>0, <2>1, <2>2 DEF AuditInv, AuditedBeforeRun, Follows
<1>4. ASSUME NEW w \in Workers, NEW m \in queue, Deliver(w, m) PROVE AuditInv'
  <2>1. m \in Messages
    BY DEF BaseInv, TypeOK
  <2>2. task'[w].job = m.job /\ \A v \in Workers \ {w} : task'[v] = task[v]
    BY <1>0, <1>4, <2>1, NoTaskType DEF Deliver
  <2> QED
    BY <1>4, <2>2 DEF Deliver, AuditInv, AuditedBeforeRun
<1>5. ASSUME NEW w \in Workers, Crash(w) \/ ProcessLost(w) PROVE AuditInv'
  <2>1. task'[w].step = "idle" /\ \A v \in Workers \ {w} : task'[v] = task[v]
    BY <1>0, <1>5, NoTaskType DEF Crash, ProcessLost, Idle
  <2>2. task[w].job \in audited
    BY <1>5 DEF Crash, ProcessLost, AuditInv, AuditedBeforeRun
  <2> QED
    BY <1>5, <2>1, <2>2 DEF Crash, ProcessLost, AuditInv, AuditedBeforeRun
<1>6. ASSUME NEW c \in Writers, UNCHANGED jobVars PROVE AuditInv'
  BY <1>6 DEF jobVars, AuditInv, AuditedBeforeRun
<1> QED
  BY <1>1, <1>2, <1>3, <1>4, <1>5, <1>6 DEF Next

\* No task exists for a job that the audit log does not show: the event is
\* written before the task is enqueued, and a redelivered task is of a job that
\* had been enqueued.
THEOREM AuditComesFirst == Spec => []AuditedBeforeRun
<1>1. Init => AuditInv
  <2> SUFFICES ASSUME Init PROVE AuditInv
    OBVIOUS
  <2>1. queue = {} /\ \A w \in Workers : task[w].step = "idle"
    BY NoTaskType DEF Init
  <2>2. \A q \in Requests : req[q].step = "new"
    BY DEF Init, Request
  <2> QED
    BY <2>1, <2>2 DEF AuditInv, AuditedBeforeRun
<1>2. AuditInv => AuditedBeforeRun
  BY DEF AuditInv
<1> QED
  BY <1>1, <1>2, AuditStep, BaseInvariant, PTL DEF Spec

-----------------------------------------------------------------------------
(* The summary adds up.                                                    *)

\* Each way of counting a record keeps the sums.
LEMMA CountingAddsUp ==
  ASSUME NEW n \in Counts, NEW dry \in BOOLEAN
  PROVE  /\ Sums(n, dry, 1) => Sums(Counted(n, {"conflicts"}), dry, 0)
         /\ Sums(n, dry, 1) /\ dry => Sums(Counted(n, {"ready"}), dry, 0)
         /\ Sums(n, dry, 1) /\ ~dry => Sums(Counted(n, {"ready", "migrated"}), dry, 0)
         /\ \A c \in {"already", "missing", "conflicts"} :
              Sums(n, dry, 0) => Sums(Counted(n, {"inspected", c}), dry, 0)
         /\ \A c \in {"unprefixed", "schema"} :
              Sums(n, dry, 0) => Sums(Counted(n, {"inspected", c}), dry, 1)
         /\ Sums(n, dry, 0) => Sums(Skipped(n), dry, 0)
         /\ Sums(NoCount, dry, 0)
<1> USE DEF Counters
<1>1. \A f \in Counters : n[f] \in Nat
  BY CountedFacts
<1>2. Sums(n, dry, 1) => Sums(Counted(n, {"conflicts"}), dry, 0)
  BY <1>1, CountedFacts DEF Sums
<1>3. Sums(n, dry, 1) /\ dry => Sums(Counted(n, {"ready"}), dry, 0)
  BY <1>1, CountedFacts DEF Sums
<1>4. Sums(n, dry, 1) /\ ~dry => Sums(Counted(n, {"ready", "migrated"}), dry, 0)
  BY <1>1, CountedFacts DEF Sums
<1>5. \A c \in {"already", "missing", "conflicts"} :
        Sums(n, dry, 0) => Sums(Counted(n, {"inspected", c}), dry, 0)
  BY <1>1, CountedFacts DEF Sums
<1>6. \A c \in {"unprefixed", "schema"} :
        Sums(n, dry, 0) => Sums(Counted(n, {"inspected", c}), dry, 1)
  BY <1>1, CountedFacts DEF Sums
<1>7. Sums(n, dry, 0) => Sums(Skipped(n), dry, 0)
  BY <1>1, SkippedFacts DEF Sums
<1>8. Sums(NoCount, dry, 0)
  BY NoCountType DEF Sums
<1> QED
  BY <1>2, <1>3, <1>4, <1>5, <1>6, <1>7, <1>8

\* A worker at work has a created job, whose mode stays what it is.
LEMMA ModeStays ==
  ASSUME BaseInv, JobsGrow, NEW w \in Workers, task[w].step # "idle"
  PROVE  /\ task[w].job \in Jobs /\ job[task[w].job] \in JobRows
         /\ job[task[w].job].dry_run \in BOOLEAN
         /\ job'[task[w].job].dry_run = job[task[w].job].dry_run
         /\ job[task[w].job].cancel_requested => job'[task[w].job].cancel_requested
<1>1. Created(task[w].job)
  BY DEF BaseInv, TasksOK, TaskOK
<1> QED
  BY <1>1 DEF Created, JobsGrow, BaseInv, TypeOK, JobRows

\* What a task counts in one step.
LEMMA TaskCounts ==
  ASSUME BaseInv, CountInv, NEW w \in Workers, TaskStep(w), task[w].step # "idle",
         NEW dry \in BOOLEAN, dry = job[task[w].job].dry_run
  PROVE  TaskSums(task'[w], dry)
<1>0. task \in [Workers -> Tasks] /\ task[w] \in Tasks /\ TaskOK(w) /\ TaskSums(task[w], dry)
  BY DEF BaseInv, TypeOK, TasksOK, CountInv
<1>1. task[w].count \in Counts
  BY <1>0 DEF Tasks
<1>2. ASSUME NEW s \in Steps, Goes(w, s),
             \/ s \in Between /\ task[w].step \in Between
             \/ s \in InHand /\ task[w].step \in InHand
             \/ s \in {"fail", "ack"}
      PROVE  TaskSums(task'[w], dry)
  <2>1. task'[w].step = s /\ task'[w].count = task[w].count
    BY <1>0, <1>2, TaskMoves DEF Goes
  <2> QED
    BY <1>0, <1>2, <2>1 DEF TaskSums, Between, InHand
<1>3. ASSUME NEW fs, Tally(w, fs), Sums(Counted(task[w].count, fs), dry, 0)
      PROVE  TaskSums(task'[w], dry)
  <2>1. task'[w].step = "batch" /\ task'[w].count = Counted(task[w].count, fs)
    BY <1>0, <1>3, TalliedFacts DEF Tally
  <2> QED
    BY <1>3, <2>1 DEF TaskSums, InHand
<1>4. CASE Begin(w) \/ PassFails(w) \/ PassEnds(w) \/ Close(w)
  BY <1>2, <1>4 DEF Begin, PassFails, PassEnds, Close, Steps, Between, InHand
<1>5. CASE Query(w)
  <2> DEFINE todo == {[row |-> row, uri |-> uri[row]] : row \in {x \in Rows : uri[x] # NoUri}}
  <2>1. todo \in SUBSET [row : Rows, uri : Keys \cup {ForeignUri}]
    BY DEF BaseInv, StoreInv, StoreTypeOK
  <2>2. task'[w] = [task[w] EXCEPT !.step = "next", !.todo = todo] /\ task[w].step = "query"
    BY <1>0, <1>5 DEF Query
  <2> HIDE DEF todo
  <2>3. task'[w].step = "next" /\ task'[w].count = task[w].count
    BY <1>0, <2>2 DEF Tasks
  <2> QED
    BY <1>0, <2>2, <2>3 DEF TaskSums, Between, InHand
<1>6. ASSUME NEW x \in task[w].todo, Inspect(w, x)
      PROVE  TaskSums(task'[w], dry)
  <2>1. PICK t0 \in Tasks : t0 = [task[w] EXCEPT !.todo = task[w].todo \ {x}]
    BY <1>0, TaskTakes
  <2>2. t0.count = task[w].count /\ x.row \in Rows
    BY <1>0, <2>1, TaskTakes DEF Tasks
  <2>3. Sums(t0.count, dry, 0)
    BY <1>0, <1>6, <2>2 DEF Inspect, TaskSums, Between
  <2>4. CASE Category(x) \in {"unprefixed", "schema"}
    <3>1. PICK n \in Counts : n = Counted(t0.count, {"inspected", Category(x)})
      BY <1>1, <2>2, CountedFacts
    <3>2. task'[w] = [t0 EXCEPT !.step = "download", !.rec = x.row, !.from = x.uri, !.count = n]
      BY <1>0, <1>6, <2>1, <2>4, <3>1 DEF Inspect
    <3>3. task'[w].step = "download" /\ task'[w].count = n
      BY <3>2 DEF Tasks
    <3>4. Sums(n, dry, 1)
      BY <1>1, <2>2, <2>3, <2>4, <3>1, CountingAddsUp
    <3> QED
      BY <3>3, <3>4 DEF TaskSums, Between
  <2>5. CASE Category(x) \notin {"unprefixed", "schema"}
    <3>1. task'[w] = Tallied(t0, {"inspected", Category(x)})
      BY <1>0, <1>6, <2>1, <2>5 DEF Inspect
    <3>2. task'[w].step = "batch" /\ task'[w].count = Counted(t0.count, {"inspected", Category(x)})
      BY <3>1, TalliedFacts
    <3>3. Sums(task'[w].count, dry, 0)
      BY <1>1, <2>2, <2>3, <2>5, <3>2, CategoryFacts, CountingAddsUp
    <3> QED
      BY <3>2, <3>3 DEF TaskSums, InHand
  <2> QED
    BY <2>4, <2>5
<1>7. CASE Download(w)
  <2>1. Sums(task[w].count, dry, 1) /\ task[w].step = "download"
    BY <1>0, <1>7 DEF Download, TaskSums, InHand
  <2>2. CASE Tally(w, {"conflicts"})
    BY <1>1, <1>3, <2>1, <2>2, CountingAddsUp
  <2>3. CASE Tally(w, {"ready"}) /\ dry
    BY <1>1, <1>3, <2>1, <2>3, CountingAddsUp
  <2>4. CASE Goes(w, "putting")
    BY <1>2, <2>1, <2>4 DEF Steps, InHand
  <2> QED
    BY <1>7, <2>2, <2>3, <2>4 DEF Download
<1>8. CASE Putting(w)
  BY <1>0, <1>8 DEF Putting, jobVars
<1>9. CASE SaveUri(w)
  <2>1. Sums(task[w].count, dry, 1) /\ ~dry
    BY <1>0, <1>9 DEF SaveUri, TaskSums, InHand, TaskOK
  <2> QED
    BY <1>1, <1>3, <1>9, <2>1, CountingAddsUp DEF SaveUri
<1>10. CASE BatchEnds(w)
  <2>1. CASE Goes(w, "next")
    BY <1>2, <1>10, <2>1 DEF BatchEnds, Steps, Between
  <2>2. CASE \E s \in {"finish", "next"} :
               task' = [task EXCEPT ![w] = [task[w] EXCEPT !.since = 0, !.step = s]]
    <3>1. PICK s \in {"finish", "next"} : task'[w] = [task[w] EXCEPT !.since = 0, !.step = s]
      BY <1>0, <2>2
    <3>2. task'[w].step = s /\ task'[w].count = task[w].count
      BY <1>0, <3>1 DEF Tasks
    <3> QED
      BY <1>0, <1>10, <3>2 DEF BatchEnds, TaskSums, Between, InHand
  <2> QED
    BY <1>10, <2>1, <2>2 DEF BatchEnds
<1>11. CASE Finish(w)
  <2>1. PICK n \in Counts : n = Skipped(task[w].count)
    BY <1>1, SkippedFacts
  <2>2. PICK v : v = Verdict(task[w].job, n)
    OBVIOUS
  <2>3. task'[w] = [task[w] EXCEPT !.step = "close", !.count = n, !.verdict = v]
    BY <1>0, <1>11, <2>1, <2>2 DEF Finish
  <2>4. task'[w].step = "close" /\ task'[w].count = n
    BY <1>0, <2>3 DEF Tasks
  <2>5. Sums(n, dry, 0)
    BY <1>0, <1>1, <1>11, <2>1, CountingAddsUp DEF Finish, TaskSums, Between
  <2> QED
    BY <2>4, <2>5 DEF TaskSums, InHand
<1>12. CASE Ack(w)
  <2>1. task'[w].step = "idle"
    BY <1>0, <1>12, NoTaskType DEF Ack, Idle
  <2> QED
    BY <2>1 DEF TaskSums, Between, InHand
<1> QED
  BY <1>4, <1>5, <1>6, <1>7, <1>8, <1>9, <1>10, <1>11, <1>12 DEF TaskStep

\* The counters of a job row are those of a new job, or of a task between two
\* records.
LEMMA JobCounts ==
  ASSUME BaseInv, CountInv, NEW w \in Workers, TaskStep(w), NEW j \in Jobs
  PROVE  Sums(job'[j].count, job'[j].dry_run, 0)
<1>0. /\ job \in [Jobs -> JobRows] /\ task[w] \in Tasks /\ TaskOK(w)
      /\ Sums(job[j].count, job[j].dry_run, 0)
  BY DEF BaseInv, TypeOK, TasksOK, CountInv
<1>1. CASE UNCHANGED job
  BY <1>0, <1>1
<1>2. CASE Begin(w) \/ BatchEnds(w) \/ Finish(w) \/ Close(w)
  <2>1. Created(task[w].job) /\ TaskSums(task[w], job[task[w].job].dry_run)
    BY <1>0, <1>2 DEF Begin, BatchEnds, Finish, Close, TaskOK, CountInv
  <2>2. PICK i \in Jobs : i = task[w].job
    BY <2>1 DEF Created
  <2>3. job[i] \in JobRows /\ job[i].dry_run \in BOOLEAN /\ task[w].count \in Counts
    BY <1>0 DEF JobRows, Tasks
  <2>4. ASSUME NEW s, job' = [job EXCEPT ![i] = [job[i] EXCEPT !.status = s]]
        PROVE  Sums(job'[j].count, job'[j].dry_run, 0)
    <3>1. job'[j].count = job[j].count /\ job'[j].dry_run = job[j].dry_run
      BY <1>0, <2>3, <2>4 DEF JobRows
    <3> QED
      BY <1>0, <3>1
  <2>5. ASSUME NEW n \in Counts, job' = [job EXCEPT ![i] = [job[i] EXCEPT !.count = n]],
               Sums(n, job[i].dry_run, 0)
        PROVE  Sums(job'[j].count, job'[j].dry_run, 0)
    <3>1. CASE j = i
      <4>1. job'[j].count = n /\ job'[j].dry_run = job[i].dry_run
        BY <1>0, <2>3, <2>5, <3>1 DEF JobRows
      <4> QED
        BY <2>5, <4>1
    <3>2. CASE j # i
      BY <1>0, <2>5, <3>2
    <3> QED
      BY <3>1, <3>2
  <2>6. CASE Begin(w) \/ Close(w)
    BY <1>1, <2>2, <2>4, <2>6 DEF Begin, Close
  <2>7. CASE BatchEnds(w)
    <3>1. Sums(task[w].count, job[i].dry_run, 0)
      BY <2>1, <2>2, <2>7 DEF BatchEnds, TaskSums, Between
    <3> QED
      BY <1>1, <2>2, <2>3, <2>5, <2>7, <3>1 DEF BatchEnds
  <2>8. CASE Finish(w)
    <3>1. PICK n \in Counts : n = Skipped(task[w].count)
      BY <2>3, SkippedFacts
    <3>2. Sums(n, job[i].dry_run, 0)
      BY <2>1, <2>2, <2>3, <2>8, <3>1, CountingAddsUp DEF Finish, TaskSums, Between
    <3>3. job' = [job EXCEPT ![i] = [job[i] EXCEPT !.count = n]]
      BY <2>2, <2>8, <3>1 DEF Finish
    <3> QED
      BY <2>5, <3>2, <3>3
  <2> QED
    BY <1>2, <2>6, <2>7, <2>8
<1> QED
  BY <1>1, <1>2 DEF TaskStep, Query, Inspect, Download, Putting, SaveUri, PassFails, PassEnds, Ack, jobVars

\* A request saves a status or a flag, or inserts a row without counts.
LEMMA RequestCounts ==
  ASSUME BaseInv, CountInv, NEW q \in Requests, RequestStep(q), NEW j \in Jobs
  PROVE  Sums(job'[j].count, job'[j].dry_run, 0)
<1>0. /\ job \in [Jobs -> JobRows] /\ job[j] \in JobRows
      /\ Sums(job[j].count, job[j].dry_run, 0)
  BY DEF BaseInv, TypeOK, CountInv
<1>1. CASE job'[j].count = job[j].count /\ job'[j].dry_run = job[j].dry_run
  BY <1>0, <1>1
<1>2. ASSUME NEW i \in Jobs, NEW dry \in BOOLEAN, CreateJob(i, dry)
      PROVE  Sums(job'[j].count, job'[j].dry_run, 0)
  <2>1. CASE j = i
    <3>1. job'[j].count = NoCount /\ job'[j].dry_run = dry
      BY <1>0, <1>2, <2>1 DEF CreateJob, NewJob
    <3> QED
      BY <3>1, NoCountType, CountingAddsUp
  <2>2. CASE j # i
    BY <1>0, <1>2, <2>2 DEF CreateJob
  <2> QED
    BY <2>1, <2>2
<1>3. CASE Supersede(q)
  BY <1>0, <1>1, <1>3 DEF Supersede, JobRows
<1>4. CASE CancelSave(q)
  BY <1>0, <1>1, <1>4 DEF CancelSave, JobRows
<1>5. CASE Restart(q)
  <2>1. Created(req[q].job)
    BY <1>5 DEF Restart, BaseInv, RequestsOK
  <2>2. job[req[q].job].dry_run \in BOOLEAN
    BY <1>0, <2>1 DEF Created, JobRows
  <2> QED
    BY <1>1, <1>2, <1>5, <2>2 DEF Restart
<1>6. ASSUME NEW dry \in BOOLEAN, Start(q, dry)
      PROVE  Sums(job'[j].count, job'[j].dry_run, 0)
  BY <1>1, <1>2, <1>6 DEF Start
<1> QED
  BY <1>1, <1>3, <1>4, <1>5, <1>6 DEF RequestStep, RetryRead, Audit, Enqueue, RequestDies, CancelRead

\* A task that no step touches.
LEMMA CountsStay ==
  ASSUME BaseInv, CountInv, JobsGrow, NEW w \in Workers, task'[w] = task[w],
         task[w].step # "idle"
  PROVE  TaskSums(task'[w], job'[task'[w].job].dry_run)
<1>1. job'[task[w].job].dry_run = job[task[w].job].dry_run
  BY ModeStays
<1>2. TaskSums(task[w], job[task[w].job].dry_run)
  BY DEF CountInv
<1> QED
  BY <1>1, <1>2

\* Every step keeps the sums.
LEMMA CountStep == BaseInv /\ CountInv /\ [Next]_vars => CountInv'
<1> SUFFICES ASSUME BaseInv, CountInv, [Next]_vars PROVE CountInv'
  OBVIOUS
<1>0. task \in [Workers -> Tasks]
  BY DEF BaseInv, TypeOK
<1>1. CASE UNCHANGED <<job, task>>
  BY <1>1 DEF CountInv
<1>2. ASSUME NEW q \in Requests, RequestStep(q) PROVE CountInv'
  <2>1. JobsGrow
    BY <1>2, RequestGrows
  <2>2. task' = task
    BY <1>2 DEF RequestStep, Start, RetryRead, Supersede, Restart, Audit, Enqueue, RequestDies,
       CancelRead, CancelSave
  <2> QED
    BY <1>2, <2>1, <2>2, RequestCounts, CountsStay DEF CountInv
<1>3. ASSUME NEW w \in Workers, TaskStep(w) PROVE CountInv'
  <2>1. JobsGrow
    BY <1>3, TaskGrows
  <2>2. PICK t \in Tasks : task' = [task EXCEPT ![w] = t] /\ Follows(task[w], t)
    BY <1>3, TaskBecomes
  <2>3. task'[w] = t /\ \A v \in Workers \ {w} : task'[v] = task[v]
    BY <1>0, <2>2
  <2>4. ASSUME task'[w].step # "idle"
        PROVE  TaskSums(task'[w], job'[task'[w].job].dry_run)
    <3>1. task[w].step # "idle" /\ t.job = task[w].job
      BY <2>2, <2>3, <2>4 DEF Follows
    <3>2. PICK dry \in BOOLEAN : dry = job[task[w].job].dry_run
      BY <2>1, <3>1, ModeStays
    <3>3. TaskSums(task'[w], dry)
      BY <1>3, <3>1, <3>2, TaskCounts
    <3>4. job'[task'[w].job].dry_run = dry
      BY <2>1, <2>3, <3>1, <3>2, ModeStays
    <3> QED
      BY <3>3, <3>4
  <2>5. \A v \in Workers : task'[v].step # "idle" => TaskSums(task'[v], job'[task'[v].job].dry_run)
    BY <2>1, <2>3, <2>4, CountsStay
  <2> QED
    BY <1>3, <2>5, JobCounts DEF CountInv
<1>4. ASSUME NEW w \in Workers, NEW m \in queue, Deliver(w, m) PROVE CountInv'
  <2>1. m \in Messages /\ Created(m.job) /\ UNCHANGED job
    BY <1>4 DEF BaseInv, TypeOK, QueueOK, Deliver
  <2>2. /\ task'[w].step = "begin" /\ task'[w].job = m.job /\ task'[w].count = NoCount
        /\ \A v \in Workers \ {w} : task'[v] = task[v]
    BY <1>0, <1>4, <2>1, NoTaskType DEF Deliver
  <2>3. PICK dry \in BOOLEAN : dry = job[m.job].dry_run
    BY <2>1 DEF Created, BaseInv, TypeOK, JobRows
  <2>4. TaskSums(task'[w], dry)
    BY <2>2, NoCountType, CountingAddsUp DEF TaskSums, InHand
  <2> QED
    BY <2>1, <2>2, <2>3, <2>4 DEF CountInv
<1>5. ASSUME NEW w \in Workers, Crash(w) \/ ProcessLost(w) PROVE CountInv'
  <2>1. /\ task'[w].step = "idle" /\ UNCHANGED job
        /\ \A v \in Workers \ {w} : task'[v] = task[v]
    BY <1>0, <1>5, NoTaskType DEF Crash, ProcessLost, Idle
  <2> QED
    BY <2>1 DEF CountInv
<1> QED
  BY <1>1, <1>2, <1>3, <1>4, <1>5 DEF Next, vars, jobVars

\* The summary of every job adds up at every moment, between batches, after a
\* cancelled, failed or redelivered pass and while several passes save to one
\* row: each inspected record is in one class, and only what was ready was
\* migrated.
THEOREM SummariesAddUp == Spec => []SummaryAddsUp
<1>1. Init => CountInv
  <2> SUFFICES ASSUME Init PROVE CountInv
    OBVIOUS
  <2>1. \A j \in Jobs : job[j].count = NoCount /\ job[j].dry_run = TRUE
    BY DEF Init, NoJobRow
  <2>2. \A w \in Workers : task[w].step = "idle"
    BY NoTaskType DEF Init
  <2>3. Sums(NoCount, TRUE, 0)
    BY NoCountType, CountingAddsUp
  <2> QED
    BY <2>1, <2>2, <2>3 DEF CountInv
<1>2. BaseInv /\ CountInv => SummaryAddsUp
  <2> SUFFICES ASSUME BaseInv, CountInv, NEW j \in Jobs
               PROVE  LET n == job[j].count IN
                      /\ n["inspected"] = n["already"] + n["missing"] + n["conflicts"] + n["ready"]
                      /\ n["ready"] <= n["unprefixed"] + n["schema"]
                      /\ n["migrated"] = IF job[j].dry_run THEN 0 ELSE n["ready"]
    BY DEF SummaryAddsUp
  <2>1. PICK n \in Counts : n = job[j].count
    BY DEF BaseInv, TypeOK, JobRows
  <2>2. \A f \in Counters : n[f] \in Nat
    BY DEF Counts
  <2>3. Sums(n, job[j].dry_run, 0)
    BY <2>1 DEF CountInv
  <2> QED
    BY <2>1, <2>2, <2>3 DEF Sums, Counters
<1> QED
  BY <1>1, <1>2, CountStep, BaseInvariant, PTL DEF Spec

-----------------------------------------------------------------------------
(* A migration that succeeded has migrated everything.                     *)

\* The records that are left to migrate become fewer.
LEMMA LegacyShrinks ==
  ASSUME BaseInv, Next, NEW row \in Rows, Legacy(row)'
  PROVE  Legacy(row) /\ uri'[row] = uri[row]
BY UrisMove DEF Legacy

\* Once all records are moved they stay so: new ones are written under tenant
\* keys.
LEMMA AllMovedStays ==
  ASSUME BaseInv, Next, AllMoved PROVE AllMoved'
BY LegacyShrinks DEF AllMoved

\* The tasks of the other workers stay in order.
LEMMA PassStays ==
  ASSUME BaseInv, Next, JobsGrow, NEW w \in Workers, NEW t \in Tasks, t = task[w], PassOK(t)
  PROVE  PassOK(t)'
<1>1. t.step # "idle" =>
        /\ job'[t.job].dry_run = job[t.job].dry_run
        /\ job[t.job].cancel_requested => job'[t.job].cancel_requested
  BY ModeStays
<1>2. \A x \in t.todo : x.row \in Rows
  BY DEF Tasks
<1>3. \A x \in t.todo : x.uri \in Keys /\ x.uri.gen = "uuid" => ~Legacy(x.row)'
  BY <1>2, LegacyShrinks DEF PassOK
<1>4. Ahead(t) => Ahead(t)'
  BY LegacyShrinks DEF Ahead
<1> QED
  BY <1>1, <1>3, <1>4, AllMovedStays DEF PassOK, InHand

\* A real job is SUCCEEDED because it was, or because a task says so.
LEMMA SucceededFrom ==
  ASSUME BaseInv, Next, NEW j \in Jobs, job'[j].status = "SUCCEEDED", ~job'[j].dry_run
  PROVE  \/ job[j].status = "SUCCEEDED" /\ ~job[j].dry_run
         \/ \E w \in Workers : /\ task[w].step = "close" /\ task[w].job = j
                               /\ task[w].verdict = "SUCCEEDED" /\ ~job[j].dry_run
<1>0. job \in [Jobs -> JobRows] /\ job[j] \in JobRows
  BY DEF BaseInv, TypeOK
<1>1. CASE job'[j].status = job[j].status /\ job'[j].dry_run = job[j].dry_run
  BY <1>1
<1>2. ASSUME NEW i \in Jobs, NEW dry, CreateJob(i, dry)
      PROVE  job'[j].status = job[j].status /\ job'[j].dry_run = job[j].dry_run
  BY <1>0, <1>2 DEF CreateJob, NewJob
<1>3. ASSUME NEW q \in Requests, RequestStep(q)
      PROVE  job'[j].status = job[j].status /\ job'[j].dry_run = job[j].dry_run
  <2>1. CASE Supersede(q)
    BY <1>0, <2>1 DEF Supersede, JobRows
  <2>2. CASE CancelSave(q)
    BY <1>0, <2>2 DEF CancelSave, JobRows
  <2> QED
    BY <1>2, <1>3, <2>1, <2>2
       DEF RequestStep, Start, Restart, RetryRead, Audit, Enqueue, RequestDies, CancelRead
<1>4. ASSUME NEW w \in Workers, TaskStep(w)
      PROVE  \/ job'[j].status = job[j].status /\ job'[j].dry_run = job[j].dry_run
             \/ /\ task[w].step = "close" /\ task[w].job = j
                /\ task[w].verdict = "SUCCEEDED" /\ ~job[j].dry_run
  <2>1. CASE Begin(w)
    BY <1>0, <2>1 DEF Begin, JobRows
  <2>2. CASE BatchEnds(w)
    BY <1>0, <2>2 DEF BatchEnds, JobRows
  <2>3. CASE Finish(w)
    <3>1. PICK n : n = Skipped(task[w].count)
      OBVIOUS
    <3> QED
      BY <1>0, <2>3, <3>1 DEF Finish, JobRows
  <2>4. CASE Close(w)
    BY <1>0, <2>4 DEF Close, JobRows
  <2> QED
    BY <1>4, <2>1, <2>2, <2>3, <2>4
       DEF TaskStep, Query, Inspect, Download, Putting, SaveUri, PassFails, PassEnds, Ack, jobVars
<1> QED
  BY <1>1, <1>3, <1>4 DEF Next, Deliver, Crash, ProcessLost, jobVars

\* The task that a worker's step leaves is in order.
LEMMA PassGoesOn ==
  ASSUME BaseInv, NEW w \in Workers, TaskStep(w), Next, JobsGrow, PassOK(task[w])
  PROVE  PassOK(task[w])'
<1>0. task \in [Workers -> Tasks] /\ task[w] \in Tasks /\ task[w].count \in Counts
  BY DEF BaseInv, TypeOK, Tasks
<1>1. PICK t \in Tasks : t = task[w]
  BY <1>0
<1>2. PICK u \in Tasks : u = task'[w] /\ Follows(t, u)
  <2>1. PICK u \in Tasks : task' = [task EXCEPT ![w] = u] /\ Follows(task[w], u)
    BY TaskBecomes
  <2> QED
    BY <1>0, <1>1, <2>1
<1>3. t.step # "idle" =>
        /\ job'[t.job].dry_run = job[t.job].dry_run
        /\ job[t.job].cancel_requested => job'[t.job].cancel_requested
  BY <1>1, ModeStays
<1>4. SUFFICES PassOK(u)'
  BY <1>2
<1>5. PassOK(t) /\ PassOK(t)'
  BY <1>1, PassStays
<1>6. ASSUME u.todo \subseteq t.todo, u.step \notin {"next", "batch", "finish", "close"} \cup InHand
      PROVE  PassOK(u)'
  BY <1>5, <1>6 DEF PassOK, InHand
<1>7. CASE Begin(w) \/ PassFails(w) \/ Close(w)
  <2>1. PICK s \in Steps : Goes(w, s) /\ s \in {"query", "ack", "fail"}
    BY <1>7 DEF Begin, PassFails, Close, Steps
  <2>2. u.step = s /\ u.todo = t.todo
    BY <1>0, <1>1, <1>2, <2>1, TaskMoves DEF Goes
  <2> QED
    BY <1>6, <2>1, <2>2 DEF InHand
<1>8. CASE Query(w)
  <2> DEFINE todo == {[row |-> row, uri |-> uri[row]] : row \in {x \in Rows : uri[x] # NoUri}}
  <2>1. UNCHANGED uri
    BY <1>8 DEF Query, storeVars
  <2>2. \A x \in todo : x.row \in Rows /\ x.uri = uri[x.row]
    OBVIOUS
  <2>3. ASSUME NEW row \in Rows, Legacy(row) PROVE \E x \in todo : x.row = row
    <3>1. uri[row] # NoUri
      BY <2>3 DEF Legacy
    <3>2. [row |-> row, uri |-> uri[row]] \in todo
      BY <3>1
    <3> QED
      BY <3>2
  <2>4. u = [t EXCEPT !.step = "next", !.todo = todo]
    BY <1>0, <1>1, <1>2, <1>8 DEF Query
  <2> HIDE DEF todo
  <2>5. u.step = "next" /\ u.todo = todo
    BY <2>4 DEF Tasks
  <2>6. \A x \in u.todo : x.uri \in Keys /\ x.uri.gen = "uuid" => ~Legacy(x.row)'
    BY <2>1, <2>2, <2>5 DEF Legacy
  <2>7. Ahead(u)'
    BY <2>1, <2>3, <2>5 DEF Ahead, Legacy
  <2> QED
    BY <2>5, <2>6, <2>7 DEF PassOK
<1>9. ASSUME NEW x \in task[w].todo, Inspect(w, x)
      PROVE  PassOK(u)'
  <2>1. PICK t0 \in Tasks : t0 = [t EXCEPT !.todo = t.todo \ {x}]
    BY <1>1, TaskTakes
  <2>2. /\ t0.job = t.job /\ t0.count = t.count /\ t0.todo = t.todo \ {x}
        /\ x.row \in Rows /\ t.count \in Counts /\ t.step = "next"
    BY <1>1, <1>9, <2>1, TaskTakes DEF Tasks, Inspect
  <2>3. UNCHANGED uri
    BY <1>9 DEF Inspect, storeVars
  <2>4. \A y \in t0.todo : y.uri \in Keys /\ y.uri.gen = "uuid" => ~Legacy(y.row)'
    BY <1>5, <2>2 DEF PassOK
  <2>5. CASE Category(x) \in {"unprefixed", "schema"}
    <3>1. PICK n \in Counts : n = Counted(t0.count, {"inspected", Category(x)})
      BY <2>2, CountedFacts
    <3>2. u = [t0 EXCEPT !.step = "download", !.rec = x.row, !.from = x.uri, !.count = n]
      BY <1>0, <1>1, <1>2, <1>9, <2>1, <2>5, <3>1 DEF Inspect
    <3>3. u.step = "download" /\ u.job = t.job /\ u.rec = x.row /\ u.todo = t0.todo /\ u.count = n
      BY <2>2, <3>2 DEF Tasks
    <3>4. NoFault(n) => NoFault(t.count)
      BY <2>2, <2>5, <3>1, CountedFacts DEF NoFault, Counters
    <3>5. ASSUME Ahead(t) PROVE Ahead(u)'
      <4> SUFFICES ASSUME NEW row \in Rows, Legacy(row)'
                   PROVE  (\E y \in u.todo : y.row = row) \/ u.rec = row
        BY <3>3 DEF Ahead, InHand
      <4>1. PICK y \in t.todo : y.row = row
        BY <2>2, <3>5, LegacyShrinks DEF Ahead, InHand
      <4> QED
        BY <2>2, <3>3, <4>1
    <3>6. ~job'[u.job].dry_run /\ NoFault(u.count) => Ahead(u)'
      BY <1>3, <1>5, <2>2, <3>3, <3>4, <3>5 DEF PassOK
    <3> QED
      BY <2>4, <3>3, <3>6 DEF PassOK, InHand
  <2>6. CASE Category(x) \notin {"unprefixed", "schema"}
    <3>1. u = Tallied(t0, {"inspected", Category(x)})
      BY <1>0, <1>1, <1>2, <1>9, <2>1, <2>6 DEF Inspect
    <3>2. /\ u.step = "batch" /\ u.job = t.job /\ u.todo = t0.todo
          /\ u.count = Counted(t.count, {"inspected", Category(x)})
      BY <2>2, <3>1, TalliedFacts
    <3>3. CASE Category(x) = "already"
      <4>1. NoFault(u.count) => NoFault(t.count)
        BY <2>2, <3>2, <3>3, CountedFacts DEF NoFault, Counters
      <4>2. ~Legacy(x.row)
        BY <1>1, <1>5, <1>9, <3>3, CategoryFacts DEF PassOK
      <4>3. ASSUME Ahead(t) PROVE Ahead(u)'
        <5> SUFFICES ASSUME NEW row \in Rows, Legacy(row)' PROVE \E y \in u.todo : y.row = row
          BY DEF Ahead
        <5>1. Legacy(row)
          BY LegacyShrinks
        <5>2. PICK y \in t.todo : y.row = row
          BY <2>2, <4>3, <5>1 DEF Ahead, InHand
        <5> QED
          BY <2>2, <3>2, <4>2, <5>1, <5>2
      <4>4. ~job'[u.job].dry_run /\ NoFault(u.count) => Ahead(u)'
        BY <1>3, <1>5, <2>2, <3>2, <4>1, <4>3 DEF PassOK
      <4> QED
        BY <2>4, <3>2, <4>4 DEF PassOK
    <3>4. CASE Category(x) \in {"missing", "conflicts"}
      <4>1. ~NoFault(u.count)
        BY <2>2, <3>2, <3>4, CountedFacts DEF NoFault, Counters
      <4> QED
        BY <2>4, <3>2, <4>1 DEF PassOK
    <3> QED
      BY <2>6, <3>3, <3>4, CategoryFacts
  <2> QED
    BY <2>5, <2>6
<1>10. CASE Download(w)
  <2>1. t.step = "download"
    BY <1>1, <1>10 DEF Download
  <2>2. CASE Tally(w, {"conflicts"})
    <3>1. u.step = "batch" /\ u.todo = t.todo /\ u.count = Counted(t.count, {"conflicts"})
      BY <1>0, <1>1, <1>2, <2>2, TalliedFacts DEF Tally
    <3>2. ~NoFault(u.count)
      BY <1>0, <1>1, <3>1, CountedFacts DEF NoFault, Counters
    <3> QED
      BY <1>5, <3>1, <3>2 DEF PassOK
  <2>3. CASE Tally(w, {"ready"}) /\ job[t.job].dry_run
    <3>1. u.step = "batch" /\ u.todo = t.todo /\ u.job = t.job
      BY <1>0, <1>1, <1>2, <2>3, TalliedFacts DEF Tally
    <3> QED
      BY <1>3, <1>5, <2>1, <2>3, <3>1 DEF PassOK
  <2>4. CASE Goes(w, "putting")
    <3>1. /\ u.step = "putting" /\ u.todo = t.todo /\ u.job = t.job /\ u.rec = t.rec
          /\ u.count = t.count
      BY <1>0, <1>1, <1>2, <2>4, TaskMoves DEF Goes, Steps
    <3>2. Ahead(t)' => Ahead(u)'
      BY <2>1, <3>1 DEF Ahead, InHand
    <3> QED
      BY <1>5, <2>1, <3>1, <3>2 DEF PassOK, InHand
  <2> QED
    BY <1>1, <1>10, <2>2, <2>3, <2>4 DEF Download
<1>11. CASE Putting(w)
  BY <1>1, <1>2, <1>5, <1>11 DEF Putting, jobVars
<1>12. CASE SaveUri(w)
  <2>1. /\ t.step = "putting" /\ t.count \in Counts
        /\ Tally(w, {"ready", "migrated"}) /\ t.rec \in Rows
    BY <1>0, <1>1, <1>12, SavedKey DEF SaveUri
  <2>2. /\ u.step = "batch" /\ u.todo = t.todo /\ u.job = t.job
        /\ u.count = Counted(t.count, {"ready", "migrated"})
    BY <1>0, <1>1, <1>2, <2>1, TalliedFacts DEF Tally
  <2>3. NoFault(u.count) => NoFault(t.count)
    BY <2>1, <2>2, CountedFacts DEF NoFault, Counters
  <2>4. ~Legacy(t.rec)'
    <3>1. uri \in [Rows -> Keys \cup {NoUri, ForeignUri}]
      BY DEF BaseInv, StoreInv, StoreTypeOK
    <3> QED
      BY <1>1, <1>12, <2>1, <3>1, SavedKey DEF Legacy
  <2>5. Ahead(t)' => Ahead(u)'
    BY <2>2, <2>4 DEF Ahead
  <2> QED
    BY <1>5, <2>1, <2>2, <2>3, <2>5 DEF PassOK, InHand
<1>13. CASE BatchEnds(w)
  <2>1. t.step = "batch"
    BY <1>1, <1>13 DEF BatchEnds
  <2>2. PICK s \in {"next", "finish"} :
          /\ u.step = s /\ u.todo = t.todo /\ u.job = t.job /\ u.count = t.count
          /\ s = "finish" => job[t.job].cancel_requested
    <3>1. CASE Goes(w, "next")
      BY <1>0, <1>1, <1>2, <3>1, TaskMoves DEF Goes, Steps
    <3>2. CASE task' = [task EXCEPT ![w] =
                 [task[w] EXCEPT !.since = 0,
                            !.step = IF job[t.job].cancel_requested THEN "finish" ELSE "next"]]
      <4>1. PICK s \in {"next", "finish"} :
              s = IF job[t.job].cancel_requested THEN "finish" ELSE "next"
        OBVIOUS
      <4>2. u = [t EXCEPT !.since = 0, !.step = s]
        BY <1>0, <1>1, <1>2, <3>2, <4>1
      <4>3. u.step = s /\ u.todo = t.todo /\ u.job = t.job /\ u.count = t.count
        BY <4>2 DEF Tasks
      <4> QED
        BY <4>1, <4>3
    <3> QED
      BY <1>1, <1>13, <3>1, <3>2 DEF BatchEnds
  <2>3. Ahead(t)' => Ahead(u)'
    BY <2>1, <2>2 DEF Ahead, InHand
  <2> QED
    BY <1>3, <1>5, <2>1, <2>2, <2>3 DEF PassOK, InHand
<1>14. CASE PassEnds(w)
  <2>1. /\ t.step = "next" /\ t.todo = {} /\ u.step = "finish" /\ u.todo = t.todo /\ u.job = t.job
        /\ u.count = t.count
    <3>1. t.step = "next" /\ t.todo = {} /\ u = [t EXCEPT !.step = "finish"]
      BY <1>0, <1>1, <1>2, <1>14 DEF PassEnds, Goes
    <3> QED
      BY <3>1, TaskMoves DEF Steps
  <2>2. Ahead(t)' => AllMoved'
    BY <2>1 DEF Ahead, InHand, AllMoved
  <2> QED
    BY <1>5, <2>1, <2>2 DEF PassOK, InHand
<1>15. CASE Finish(w)
  <2>1. PICK n \in Counts : n = Skipped(t.count)
    BY <1>0, <1>1, SkippedFacts
  <2>2. PICK v \in TERMINAL_STATUSES : v = Verdict(t.job, n)
    BY VerdictType
  <2>3. u = [t EXCEPT !.step = "close", !.count = n, !.verdict = v] /\ t.step = "finish"
    BY <1>0, <1>1, <1>2, <1>15, <2>1, <2>2 DEF Finish
  <2>4. u.step = "close" /\ u.todo = t.todo /\ u.job = t.job /\ u.verdict = v
    BY <2>3 DEF Tasks
  <2>5. NoFault(n) => NoFault(t.count)
    BY <1>0, <1>1, <2>1, SkippedFacts DEF NoFault, Counters
  <2>6. ~job[t.job].dry_run /\ v = "SUCCEEDED" => NoFault(n) /\ ~job[t.job].cancel_requested
    BY <2>2 DEF Verdict, NoFault
  <2>7. ~job[t.job].dry_run /\ v = "SUCCEEDED" => AllMoved'
    BY <1>5, <2>3, <2>5, <2>6, AllMovedStays DEF PassOK
  <2> QED
    BY <1>3, <1>5, <2>3, <2>4, <2>7 DEF PassOK, InHand
<1>16. CASE Ack(w)
  <2>1. u.step = "idle" /\ u.todo = {}
    BY <1>0, <1>2, <1>16, NoTaskType DEF Ack, Idle
  <2> QED
    BY <1>6, <2>1 DEF InHand
<1> QED
  BY <1>7, <1>8, <1>9, <1>10, <1>11, <1>12, <1>13, <1>14, <1>15, <1>16 DEF TaskStep

\* Every step keeps what a pass has behind it.
LEMMA PassStep == BaseInv /\ PassInv /\ [Next]_vars => PassInv'
<1> SUFFICES ASSUME BaseInv, PassInv, [Next]_vars PROVE PassInv'
  OBVIOUS
<1>0. task \in [Workers -> Tasks]
  BY DEF BaseInv, TypeOK
<1>1. CASE UNCHANGED vars
  BY <1>1 DEF vars, storeVars, jobVars, PassInv, SucceededMigrated, PassOK, Ahead, AllMoved, Legacy
<1>2. CASE Next
  <2>1. SucceededMigrated'
    <3>1. ASSUME NEW j \in Jobs, job'[j].status = "SUCCEEDED", ~job'[j].dry_run
          PROVE  AllMoved'
      <4>1. CASE job[j].status = "SUCCEEDED" /\ ~job[j].dry_run
        <5>1. AllMoved
          BY <4>1 DEF PassInv, SucceededMigrated, AllMoved, Legacy
        <5> QED
          BY <1>2, <5>1, AllMovedStays
      <4>2. ASSUME NEW w \in Workers, task[w].step = "close", task[w].job = j,
                   task[w].verdict = "SUCCEEDED", ~job[j].dry_run
            PROVE  AllMoved'
        <5>1. AllMoved
          BY <4>2 DEF PassInv, PassOK
        <5> QED
          BY <1>2, <5>1, AllMovedStays
      <4> QED
        BY <1>2, <3>1, <4>1, <4>2, SucceededFrom
    <3> QED
      BY <3>1 DEF SucceededMigrated, AllMoved, Legacy
  <2>2. ASSUME NEW v \in Workers, JobsGrow, task'[v] = task[v]
        PROVE  PassOK(task[v])'
    <3>1. PICK t \in Tasks : t = task[v]
      BY <1>0
    <3>2. PassOK(t)'
      BY <1>2, <2>2, <3>1, PassStays DEF PassInv
    <3> QED
      BY <2>2, <3>1, <3>2
  <2>3. ASSUME NEW v \in Workers, task'[v].todo = {}, task'[v].step \in {"idle", "begin"}
        PROVE  PassOK(task[v])'
    BY <2>3 DEF PassOK, InHand
  <2>4. ASSUME NEW q \in Requests, RequestStep(q) PROVE JobsGrow /\ UNCHANGED task
    BY <2>4, RequestGrows DEF RequestStep, Start, RetryRead, Supersede, Restart, Audit, Enqueue,
       RequestDies, CancelRead, CancelSave
  <2>5. ASSUME NEW w \in Workers, TaskStep(w) PROVE \A v \in Workers : PassOK(task[v])'
    <3>1. JobsGrow
      BY <2>5, TaskGrows
    <3>2. \A v \in Workers \ {w} : task'[v] = task[v]
      BY <1>0, <2>5, TaskBecomes
    <3>3. PassOK(task[w])'
      BY <1>2, <2>5, <3>1, PassGoesOn DEF PassInv
    <3> QED
      BY <2>2, <3>1, <3>2, <3>3
  <2>6. ASSUME NEW w \in Workers, NEW m \in queue, Deliver(w, m)
        PROVE  \A v \in Workers : PassOK(task[v])'
    <3>1. JobsGrow /\ m \in Messages
      BY <2>6, JobsStay DEF Deliver, BaseInv, TypeOK
    <3>2. /\ task'[w].step = "begin" /\ task'[w].todo = {}
          /\ \A v \in Workers \ {w} : task'[v] = task[v]
      BY <1>0, <2>6, <3>1, NoTaskType DEF Deliver
    <3> QED
      BY <2>2, <2>3, <3>1, <3>2
  <2>7. ASSUME NEW w \in Workers, Crash(w) \/ ProcessLost(w)
        PROVE  \A v \in Workers : PassOK(task[v])'
    <3>1. JobsGrow
      BY <2>7, JobsStay DEF Crash, ProcessLost
    <3>2. /\ task'[w].step = "idle" /\ task'[w].todo = {}
          /\ \A v \in Workers \ {w} : task'[v] = task[v]
      BY <1>0, <2>7, NoTaskType DEF Crash, ProcessLost, Idle
    <3> QED
      BY <2>2, <2>3, <3>1, <3>2
  <2>8. ASSUME UNCHANGED jobVars PROVE JobsGrow /\ UNCHANGED task
    BY <2>8, JobsStay DEF jobVars
  <2>9. \A v \in Workers : PassOK(task[v])'
    BY <1>2, <2>2, <2>4, <2>5, <2>6, <2>7, <2>8 DEF Next
  <2> QED
    BY <2>1, <2>9 DEF PassInv
<1> QED
  BY <1>1, <1>2

\* A real migration that SUCCEEDED has left no record under an old key, in any
\* overlap with other passes, retries, cancellations, crashes and with the
\* pipeline workers that go on storing payloads.
THEOREM SuccessMeansMigrated == Spec => []SucceededMigrated
<1>1. Init => PassInv
  <2> SUFFICES ASSUME Init PROVE PassInv
    OBVIOUS
  <2>1. \A j \in Jobs : job[j].status = "NONE"
    BY JobRowTypes DEF Init
  <2>2. \A w \in Workers : task[w].step = "idle" /\ task[w].todo = {}
    BY NoTaskType DEF Init
  <2> QED
    BY <2>1, <2>2 DEF PassInv, SucceededMigrated, PassOK, InHand
<1>2. PassInv => SucceededMigrated
  BY DEF PassInv
<1> QED
  BY <1>1, <1>2, PassStep, BaseInvariant, PTL DEF Spec
=============================================================================
