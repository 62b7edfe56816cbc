------------------------- MODULE PipelineExecution -------------------------
(***************************************************************************)
(* Execution of pipeline runs: dispatch of a run and its continuation      *)
(* (dispatch.py, opsui run_continue, the run_pipeline command), the claim  *)
(* of a run by a Celery task (claims.py), the page loop that extracts,     *)
(* stores, maps and loads (orchestration.py), the retry decision           *)
(* (tasks.py), and the broker with late acknowledgement that drives them.  *)
(*                                                                         *)
(* One step of a worker is one statement that another process can observe: *)
(* a database transaction, an object store or destination write, or a      *)
(* message.  What a worker keeps in memory between steps is in mem.        *)
(***************************************************************************)
EXTENDS RestSource, Integers

CONSTANTS
  Runs,           \* PipelineRun rows, one per idempotency key
  Tasks,          \* calls of trigger_manual_run; .delay() gives each a task id
  Workers,        \* Celery worker processes
  Pipelines,
  ActivePipelines,   \* the pipelines whose is_active flag is set
  ConnectionsOf,     \* [Pipelines -> sets of connection rows]
  Versions,       \* contents a page can have when it is fetched
  MaxRetries,     \* max_retries of the task, MAX_RUN_ATTEMPTS - 1
  InDoubtCommit,  \* a destination commit may succeed and still report an error
  CliContinues,   \* continuations may be started from the command line
  MaxCrashes,     \* bound: worker losses after which the broker redelivers
  MaxLost,        \* bound: messages lost with a killed process
  MaxRedeliveries,   \* bound: redeliveries while the first delivery still runs
  NoTask, NoRun, NoPipeline, NoVersion

ASSUME ExecutionAssumption ==
  /\ ActivePipelines \subseteq Pipelines
  /\ NoTask \notin Tasks /\ NoRun \notin Runs
  /\ NoPipeline \notin Pipelines /\ NoVersion \notin Versions
  /\ MaxRetries \in Nat
  /\ InDoubtCommit \in BOOLEAN /\ CliContinues \in BOOLEAN
  /\ MaxCrashes \in Nat /\ MaxLost \in Nat /\ MaxRedeliveries \in Nat

VARIABLES
  run,      \* the PipelineRun table
  execs,    \* the TaskExecution table
  raw,      \* the RawPayloadRecord table, a row per (run, sequence, content)
  rawLoaded,   \* its rows with loaded_successfully set
  loads,    \* loads[r][p]: times the rows of page p were committed for run r
  trig,     \* progress of each trigger call
  queue,    \* messages ready for delivery
  held,     \* workers whose delivery the broker still waits to see acked
  pc, msg, mem,   \* each worker's step, its message and its local variables
  faults,   \* faults spent so far
  lineage   \* history: a run and the runs it continues, transitively

runVars == <<run, execs, raw, rawLoaded, loads, lineage>>
brokerVars == <<queue, held, faults>>
workerVars == <<pc, msg, mem>>
vars == <<run, execs, raw, rawLoaded, loads, lineage, trig, queue, held,
          faults, pc, msg, mem>>

-----------------------------------------------------------------------------
Statuses == {"PENDING", "RUNNING", "SUCCEEDED", "FAILED"}
TERMINAL_STATUSES == {"SUCCEEDED", "FAILED"}

\* DataLakeError as the control flow sees it: retryable or not, and the one
\* category that dispatch looks at.
Errors == {"Retryable", "Fatal", "PageLimitExceededError"}

\* records_extracted, records_loaded and raw_payload_count are written wherever
\* pages_extracted is, and nothing decides on them: pages stands for the four.
RunRecord ==
  [status : Statuses \cup {"NONE"}, pipeline : Pipelines \cup {NoPipeline},
   owner : Tasks \cup {NoTask}, attempt : Nat, cursor : Cursors, pages : Nat,
   error : Errors \cup {"NONE"}, continuedFrom : Runs \cup {NoRun}]

NoRecord ==
  [status |-> "NONE", pipeline |-> NoPipeline, owner |-> NoTask, attempt |-> 0,
   cursor |-> None, pages |-> 0, error |-> "NONE", continuedFrom |-> NoRun]

Message == [run : Runs, task : Tasks, retries : 0 .. MaxRetries]

NoMessage == [run |-> NoRun, task |-> NoTask, retries |-> 0]

Memory ==
  [page : Pages \cup {None}, seq : Nat, next : Cursors, yielded : Nat,
   version : Versions \cup {NoVersion}, attempt : Nat,
   error : Errors \cup {"NONE"}]

NoMemory ==
  [page |-> None, seq |-> 0, next |-> None, yielded |-> 0,
   version |-> NoVersion, attempt |-> 0, error |-> "NONE"]

Exists(r) == run[r].status # "NONE"

-----------------------------------------------------------------------------
(* Row locks.  claim_run's SELECT ... FOR UPDATE joins the run's pipeline  *)
(* and both connections, so its transaction locks those rows too.          *)

JoinedRows(r) ==
  {r, run[r].pipeline} \cup ConnectionsOf[run[r].pipeline]

\* The rows the open claim transactions of workers other than w have locked.
LockedRows(w) ==
  UNION {JoinedRows(msg[v].run) : v \in {u \in Workers \ {w} : pc[u] = "claimed"}}

\* Worker w may update row r, or insert a row that references it: no other
\* worker's open claim transaction has it locked.
Writable(w, r) ==
  ~\E v \in Workers \ {w} : pc[v] = "claimed" /\ msg[v].run = r

-----------------------------------------------------------------------------
(* Dispatch.                                                               *)

is_continuable(r) ==
  /\ run[r].status = "FAILED"
  /\ run[r].error = "PageLimitExceededError"

\* What a trigger call remembers: the key it was given (NoRun: a fresh one),
\* and the row of continue_from as it read it.
Call(step, key, pl) ==
  [pc |-> step, key |-> key, pipeline |-> pl, from |-> NoRun, cursor |-> None,
   pages |-> 0]

NoCall == Call("done", NoRun, NoPipeline)

Calls ==
  [pc : {"new", "create", "publish", "done"}, key : Runs \cup {NoRun},
   pipeline : Pipelines \cup {NoPipeline}, from : Runs \cup {NoRun},
   cursor : Cursors, pages : Nat]

\* A caller asks for a run of pl under key r, or under a fresh key.
RequestRun(t, pl, key) ==
  /\ trig[t].pc = "new"
  /\ trig' = [trig EXCEPT ![t] =
       IF pl \in ActivePipelines
         THEN Call("create", key, pl)
         ELSE NoCall]
  /\ UNCHANGED <<runVars, brokerVars, workerVars>>

\* trigger_manual_run with continue_from = c: its row has been read, and the
\* checks and the seed use that copy.
Continues(t, c, key) ==
  trig' = [trig EXCEPT ![t] =
    IF run[c].pipeline \in ActivePipelines /\ is_continuable(c)
      THEN [pc |-> "create", key |-> key, pipeline |-> run[c].pipeline,
            from |-> c, cursor |-> run[c].cursor, pages |-> run[c].pages]
      ELSE NoCall]

\* The run_pipeline command with --continue-from.
ContinueCommand(t, c, key) ==
  /\ CliContinues
  /\ trig[t].pc = "new"
  /\ Exists(c)
  /\ Continues(t, c, key)
  /\ UNCHANGED <<runVars, brokerVars, workerVars>>

\* The operator view looks for an existing continuation first, and passes no
\* key.  The audit events it writes are read by nothing and left out.
ContinueView(t, c) ==
  /\ trig[t].pc = "new"
  /\ Exists(c)
  /\ IF \E r \in Runs : run[r].continuedFrom = c
       THEN trig' = [trig EXCEPT ![t] = NoCall]
       ELSE Continues(t, c, NoRun)
  /\ UNCHANGED <<runVars, brokerVars, workerVars>>

\* No open claim transaction has locked a row the INSERT refers to.
InsertUnblocked(t) ==
  \A v \in Workers : pc[v] = "claimed" =>
    {trig[t].pipeline, trig[t].from} \cap JoinedRows(msg[v].run) = {}

SeededRun(t) ==
  [status |-> "PENDING", pipeline |-> trig[t].pipeline, owner |-> NoTask,
   attempt |-> 0, cursor |-> trig[t].cursor, pages |-> trig[t].pages,
   error |-> "NONE", continuedFrom |-> trig[t].from]

\* get_or_create finds no row for the call's key, or for its fresh one, and inserts
\* r.
Inserts(t, r) ==
  /\ trig[t].pc = "create"
  /\ IF trig[t].key # NoRun THEN r = trig[t].key ELSE \A u \in Tasks : trig[u].key # r
  /\ ~Exists(r)

\* The new row is seeded from continue_from.
CreateRun(t, r) ==
  /\ Inserts(t, r)
  /\ InsertUnblocked(t)
  /\ run' = [run EXCEPT ![r] = SeededRun(t)]
  /\ lineage' = [lineage EXCEPT ![r] =
       {r} \cup IF trig[t].from = NoRun THEN {} ELSE lineage[trig[t].from]]
  /\ trig' = [trig EXCEPT ![t] = Call("publish", r, NoPipeline)]
  /\ UNCHANGED <<execs, raw, rawLoaded, loads, brokerVars, workerVars>>

\* get_or_create finds the key's row.  Only a PENDING run of the same pipeline
\* is enqueued again; the continuation asked for is not looked at.
ReuseRun(t) ==
  LET r == trig[t].key IN
  /\ trig[t].pc = "create"
  /\ r # NoRun
  /\ Exists(r)
  /\ trig' = [trig EXCEPT ![t] =
       IF run[r].pipeline = trig[t].pipeline /\ run[r].status = "PENDING"
         THEN Call("publish", r, NoPipeline)
         ELSE NoCall]
  /\ UNCHANGED <<runVars, brokerVars, workerVars>>

\* run_pipeline_task.delay(): the message carries the task id of this call.
Publish(t) ==
  /\ trig[t].pc = "publish"
  /\ queue' = queue \cup {[run |-> trig[t].key, task |-> t, retries |-> 0]}
  /\ trig' = [trig EXCEPT ![t] = NoCall]
  /\ UNCHANGED <<runVars, held, faults, workerVars>>

\* The triggering process dies between its commit and .delay().
TriggerDies(t) ==
  /\ trig[t].pc = "publish"
  /\ faults.lost < MaxLost
  /\ faults' = [faults EXCEPT !.lost = @ + 1]
  /\ trig' = [trig EXCEPT ![t] = NoCall]
  /\ UNCHANGED <<runVars, queue, held, workerVars>>

-----------------------------------------------------------------------------
(* The broker.                                                             *)

Deliver(w, m) ==
  /\ pc[w] = "idle"
  /\ m \in queue
  /\ queue' = queue \ {m}
  /\ held' = held \cup {w}
  /\ pc' = [pc EXCEPT ![w] = "claim"]
  /\ msg' = [msg EXCEPT ![w] = m]
  /\ UNCHANGED <<runVars, trig, faults, mem>>

\* The worker forgets its task.
Idle(w) ==
  /\ pc' = [pc EXCEPT ![w] = "idle"]
  /\ msg' = [msg EXCEPT ![w] = NoMessage]
  /\ mem' = [mem EXCEPT ![w] = NoMemory]
  /\ held' = held \ {w}

\* acks_late: the message is acknowledged when the task has returned.
Ack(w) ==
  /\ pc[w] = "ack"
  /\ Idle(w)
  /\ UNCHANGED <<runVars, trig, queue, faults>>

\* The worker and its connection are gone; the broker requeues what it has not
\* seen acknowledged.  An open claim transaction rolls back.
Crash(w) ==
  /\ pc[w] # "idle"
  /\ faults.crashes < MaxCrashes
  /\ faults' = [faults EXCEPT !.crashes = @ + 1]
  /\ queue' = IF w \in held THEN queue \cup {msg[w]} ELSE queue
  /\ Idle(w)
  /\ UNCHANGED <<runVars, trig>>

\* A killed pool process, whose message the parent acknowledges (the setting
\* task_reject_on_worker_lost is off), or an exception that escapes
\* run_pipeline, such as a database error while it records the outcome.
ProcessLost(w) ==
  /\ pc[w] # "idle"
  /\ faults.lost < MaxLost
  /\ faults' = [faults EXCEPT !.lost = @ + 1]
  /\ Idle(w)
  /\ UNCHANGED <<runVars, trig, queue>>

\* The broker gives up on a delivery (connection loss, delivery timeout) and
\* requeues the message while the worker still executes it.
Redeliver(w) ==
  /\ w \in held
  /\ faults.redeliveries < MaxRedeliveries
  /\ faults' = [faults EXCEPT !.redeliveries = @ + 1]
  /\ queue' = queue \cup {msg[w]}
  /\ held' = held \ {w}
  /\ UNCHANGED <<runVars, trig, workerVars>>

-----------------------------------------------------------------------------
(* claim_run.                                                              *)

\* Mutants of the claim: no check of the owner, none of the terminal states,
\* and no admission of the owner's own retry.
RefusedNoOwnerCheck(w) ==
  LET r == msg[w].run IN
  \/ JoinedRows(r) \cap LockedRows(w) # {}
  \/ run[r].status \in TERMINAL_STATUSES

RefusedNoTerminalCheck(w) ==
  LET r == msg[w].run IN
  \/ JoinedRows(r) \cap LockedRows(w) # {}
  \/ run[r].status = "RUNNING" /\ run[r].owner # msg[w].task

RefusedWhenRunning(w) ==
  LET r == msg[w].run IN
  \/ JoinedRows(r) \cap LockedRows(w) # {}
  \/ run[r].status \in TERMINAL_STATUSES
  \/ run[r].status = "RUNNING"

\* The conditions under which claim_run raises RunClaimRejected.
Refused(w) ==
  LET r == msg[w].run IN
  \/ JoinedRows(r) \cap LockedRows(w) # {}
  \/ run[r].status \in TERMINAL_STATUSES
  \/ run[r].status = "RUNNING" /\ run[r].owner # msg[w].task

\* Rows that an INSERT of a run keeps locked while its foreign keys are checked.
InsertLocks ==
  UNION {{trig[t].pipeline, trig[t].from} : t \in {u \in Tasks : \E r \in Runs : Inserts(u, r)}}

\* Runs that another worker is about to update or to insert a row for, and keeps
\* locked for that statement.
StatementLocks(w) ==
  {msg[v].run : v \in {u \in Workers \ {w} :
                        pc[u] \in {"start", "store", "save", "succeeded", "failed"}}}

\* RunClaimRejected: the task returns, and the message is acknowledged.  SKIP
\* LOCKED also skips a row that is locked for a single statement only.
ClaimRejected(w) ==
  /\ pc[w] = "claim"
  /\ \/ Refused(w)
     \/ JoinedRows(msg[w].run) \cap InsertLocks # {}
     \/ msg[w].run \in StatementLocks(w)
  /\ pc' = [pc EXCEPT ![w] = "ack"]
  /\ UNCHANGED <<runVars, trig, brokerVars, msg, mem>>

\* SELECT ... FOR UPDATE SKIP LOCKED returned the row; the transaction is open.
ClaimLock(w) ==
  /\ pc[w] = "claim"
  /\ ~Refused(w)
  /\ pc' = [pc EXCEPT ![w] = "claimed"]
  /\ UNCHANGED <<runVars, trig, brokerVars, msg, mem>>

\* What the task works with after its claim, from its copy of the row.  Mutant:
\* every attempt counts its pages from zero.
ResumeStateFromZero(r) ==
  [page |-> FirstPage(run[r].cursor), seq |-> 0, next |-> None, yielded |-> 0,
   version |-> NoVersion, attempt |-> run[r].attempt + 1, error |-> "NONE"]

ResumeState(r) ==
  [page |-> FirstPage(run[r].cursor), seq |-> run[r].pages, next |-> None,
   yielded |-> 0, version |-> NoVersion, attempt |-> run[r].attempt + 1,
   error |-> "NONE"]

\* The claim commits.
ClaimCommit(w) ==
  LET r == msg[w].run IN
  /\ pc[w] = "claimed"
  /\ run' = [run EXCEPT ![r] = [@ EXCEPT !.status = "RUNNING", !.owner = msg[w].task,
                                          !.attempt = run[r].attempt + 1]]
  /\ mem' = [mem EXCEPT ![w] = ResumeState(r)]
  /\ pc' = [pc EXCEPT ![w] = "start"]
  /\ UNCHANGED <<execs, raw, rawLoaded, loads, lineage, trig, brokerVars, msg>>

-----------------------------------------------------------------------------
(* run_pipeline.                                                           *)

Execution(w, status) ==
  [run |-> msg[w].run, attempt |-> mem[w].attempt, status |-> status]

StartAttempt(w) ==
  /\ pc[w] = "start"
  /\ Writable(w, msg[w].run)
  /\ execs' = execs \cup {Execution(w, "RUNNING")}
  /\ pc' = [pc EXCEPT ![w] = "fetch"]
  /\ UNCHANGED <<run, raw, rawLoaded, loads, lineage, trig, brokerVars, msg, mem>>

\* _execute raises e before the step in progress had any effect: a
\* configuration, authentication, fetch, raw store, mapping or load error, or a
\* database error of one of the two saves, which becomes a non-retryable
\* UnexpectedError.
StepFails(w, e) ==
  /\ \/ pc[w] \in {"fetch", "store", "load"}
     \/ pc[w] \in {"mark", "save"} /\ e = "Fatal"
  /\ pc' = [pc EXCEPT ![w] = "failed"]
  /\ mem' = [mem EXCEPT ![w].error = e]
  /\ UNCHANGED <<runVars, trig, brokerVars, msg>>

\* The generator requests its next page, whose content is v today.
Fetch(w, v) ==
  /\ pc[w] = "fetch"
  /\ IF Yields(mem[w].page)
       THEN /\ mem' = [mem EXCEPT ![w] =
                 [@ EXCEPT !.next = NextCursor(mem[w].page), !.version = v,
                           !.seq = mem[w].seq + 1]]
            /\ pc' = [pc EXCEPT ![w] = "store"]
       ELSE /\ pc' = [pc EXCEPT ![w] = "succeeded"]
            /\ UNCHANGED mem
  /\ UNCHANGED <<runVars, trig, brokerVars, msg>>

RawRow(w) ==
  [run |-> msg[w].run, seq |-> mem[w].seq, page |-> mem[w].page,
   version |-> mem[w].version]

\* The row get_or_create leaves in the table.  Mutant: a payload that could not
\* be recorded is loaded all the same.
StoredBestEffort(w) == raw

Stored(w) == raw \cup {RawRow(w)}

\* store_raw_payload: put, then get_or_create on (run, sequence, checksum).
StoreRaw(w) ==
  /\ pc[w] = "store"
  /\ Writable(w, msg[w].run)
  /\ raw' = Stored(w)
  /\ pc' = [pc EXCEPT ![w] = "load"]
  /\ UNCHANGED <<run, execs, rawLoaded, loads, lineage, trig, brokerVars, msg, mem>>

\* The destination commits the page's rows; an empty page writes nothing.
Committed(w) ==
  LET r == msg[w].run IN
  LET p == mem[w].page IN
  loads' = IF HasRecords(p) THEN [loads EXCEPT ![r][p] = @ + 1] ELSE loads

\* map_records and destination.load.
Load(w) ==
  /\ pc[w] = "load"
  /\ Committed(w)
  /\ pc' = [pc EXCEPT ![w] = "mark"]
  /\ UNCHANGED <<run, execs, raw, rawLoaded, lineage, trig, brokerVars, msg, mem>>

\* The commit took effect but the connection broke before it was confirmed: a
\* LoadFailed, retryable if the driver reports an OperationalError.
LoadInDoubt(w) ==
  /\ InDoubtCommit
  /\ pc[w] = "load"
  /\ HasRecords(mem[w].page)
  /\ Committed(w)
  /\ pc' = [pc EXCEPT ![w] = "failed"]
  /\ \E e \in {"Retryable", "Fatal"} : mem' = [mem EXCEPT ![w].error = e]
  /\ UNCHANGED <<run, execs, raw, rawLoaded, lineage, trig, brokerVars, msg>>

\* raw_record.loaded_successfully = True
MarkLoaded(w) ==
  /\ pc[w] = "mark"
  /\ rawLoaded' = rawLoaded \cup {RawRow(w)}
  /\ pc' = [pc EXCEPT ![w] = "save"]
  /\ UNCHANGED <<run, execs, raw, loads, lineage, trig, brokerVars, msg, mem>>

\* The cursor a processed page leaves behind: page.next_cursor or
\* page.cursor_used.  Mutants: always the latter, and one page too far.
ResumePointBehind(w) == mem[w].page

ResumePointAhead(w) == IF mem[w].next # None THEN mem[w].next + 1 ELSE mem[w].page

ResumePoint(w) == IF mem[w].next # None THEN mem[w].next ELSE mem[w].page

\* The run's counters and cursor are written from the task's memory, and the
\* generator resumes.
SaveProgress(w) ==
  LET r == msg[w].run IN
  LET n == mem[w].yielded + 1 IN
  /\ pc[w] = "save"
  /\ Writable(w, r)
  /\ run' = [run EXCEPT ![r] = [@ EXCEPT !.pages = mem[w].seq,
                                          !.cursor = ResumePoint(w)]]
  /\ \/ /\ AfterYield(mem[w].next, n) = "done"
        /\ pc' = [pc EXCEPT ![w] = "succeeded"]
        /\ UNCHANGED mem
     \/ /\ AfterYield(mem[w].next, n) = "limit"
        /\ pc' = [pc EXCEPT ![w] = "failed"]
        /\ mem' = [mem EXCEPT ![w].error = "PageLimitExceededError"]
     \/ /\ AfterYield(mem[w].next, n) = "more"
        /\ pc' = [pc EXCEPT ![w] = "fetch"]
        /\ mem' = [mem EXCEPT ![w] = [@ EXCEPT !.page = mem[w].page + 1, !.yielded = n]]
  /\ UNCHANGED <<execs, raw, rawLoaded, loads, lineage, trig, brokerVars, msg>>

\* mark_run_succeeded.  Its check that the run is RUNNING reads the task's own
\* copy of the row, which is: it does not look at the database.
MarkSucceeded(w) ==
  LET r == msg[w].run IN
  /\ pc[w] = "succeeded"
  /\ Writable(w, r)
  /\ run' = [run EXCEPT ![r] = [@ EXCEPT !.status = "SUCCEEDED", !.error = "NONE"]]
  /\ pc' = [pc EXCEPT ![w] = "close"]
  /\ UNCHANGED <<execs, raw, rawLoaded, loads, lineage, trig, brokerVars, msg, mem>>

\* Mutants: one attempt too many, and one too few.
ShouldFinalizeLate(w) ==
  msg[w].retries > MaxRetries \/ mem[w].error # "Retryable"

ShouldFinalizeEarly(w) ==
  msg[w].retries + 1 >= MaxRetries \/ mem[w].error # "Retryable"

\* _record_failure: should_finalize
ShouldFinalize(w) ==
  msg[w].retries >= MaxRetries \/ mem[w].error # "Retryable"

\* mark_run_failed, with the same check of the task's own copy.
MarkFailed(w) ==
  LET r == msg[w].run IN
  /\ pc[w] = "failed"
  /\ ShouldFinalize(w)
  /\ Writable(w, r)
  /\ run' = [run EXCEPT ![r] = [@ EXCEPT !.status = "FAILED", !.error = mem[w].error]]
  /\ pc' = [pc EXCEPT ![w] = "close"]
  /\ UNCHANGED <<execs, raw, rawLoaded, loads, lineage, trig, brokerVars, msg, mem>>

\* record_pending_retry: the run and its TaskExecution stay RUNNING.
RecordPendingRetry(w) ==
  LET r == msg[w].run IN
  /\ pc[w] = "failed"
  /\ ~ShouldFinalize(w)
  /\ Writable(w, r)
  /\ run' = [run EXCEPT ![r].error = mem[w].error]
  /\ pc' = [pc EXCEPT ![w] = "retry"]
  /\ UNCHANGED <<execs, raw, rawLoaded, loads, lineage, trig, brokerVars, msg, mem>>

\* The TaskExecution row takes the outcome; the task returns.
CloseAttempt(w) ==
  /\ pc[w] = "close"
  /\ execs' = (execs \ {Execution(w, "RUNNING")}) \cup
                {Execution(w, IF mem[w].error = "NONE" THEN "SUCCEEDED" ELSE "FAILED")}
  /\ pc' = [pc EXCEPT ![w] = "ack"]
  /\ UNCHANGED <<run, raw, rawLoaded, loads, lineage, trig, brokerVars, msg, mem>>

\* self.retry(): the same task id, one retry more.
PublishRetry(w) ==
  /\ pc[w] = "retry"
  /\ queue' = queue \cup {[msg[w] EXCEPT !.retries = @ + 1]}
  /\ pc' = [pc EXCEPT ![w] = "ack"]
  /\ UNCHANGED <<runVars, trig, held, faults, msg, mem>>

-----------------------------------------------------------------------------
Init ==
  /\ run = [r \in Runs |-> NoRecord]
  /\ execs = {} /\ raw = {} /\ rawLoaded = {}
  /\ loads = [r \in Runs |-> [p \in DataPages |-> 0]]
  /\ lineage = [r \in Runs |-> {r}]
  /\ trig = [t \in Tasks |-> Call("new", NoRun, NoPipeline)]
  /\ queue = {} /\ held = {}
  /\ faults = [crashes |-> 0, lost |-> 0, redeliveries |-> 0]
  /\ pc = [w \in Workers |-> "idle"]
  /\ msg = [w \in Workers |-> NoMessage]
  /\ mem = [w \in Workers |-> NoMemory]

\* The steps a running task takes by itself.
Step(w) ==
  \/ ClaimRejected(w) \/ ClaimLock(w) \/ ClaimCommit(w) \/ StartAttempt(w)
  \/ \E v \in Versions : Fetch(w, v)
  \/ \E e \in {"Retryable", "Fatal"} : StepFails(w, e)
  \/ StoreRaw(w) \/ Load(w) \/ LoadInDoubt(w) \/ MarkLoaded(w) \/ SaveProgress(w)
  \/ MarkSucceeded(w) \/ MarkFailed(w) \/ RecordPendingRetry(w)
  \/ CloseAttempt(w) \/ PublishRetry(w) \/ Ack(w)

Dispatch(t) ==
  \/ \E pl \in Pipelines, key \in Runs \cup {NoRun} : RequestRun(t, pl, key)
  \/ \E c \in Runs, key \in Runs \cup {NoRun} : ContinueCommand(t, c, key)
  \/ \E c \in Runs : ContinueView(t, c)
  \/ \E r \in Runs : CreateRun(t, r)
  \/ ReuseRun(t)
  \/ Publish(t)
  \/ TriggerDies(t)

Next ==
  \/ \E t \in Tasks : Dispatch(t)
  \/ \E w \in Workers, m \in queue : Deliver(w, m)
  \/ \E w \in Workers : Step(w) \/ Crash(w) \/ ProcessLost(w) \/ Redeliver(w)

Spec == Init /\ [][Next]_vars

\* A worker that holds a task goes on with it, the broker delivers what is
\* queued to a free worker, and a trigger call that committed goes on to
\* publish.  Nothing obliges a user to trigger, or a fault to happen.
Fairness ==
  /\ \A w \in Workers : WF_vars(Step(w))
  /\ WF_vars(\E w \in Workers, m \in queue : Deliver(w, m))
  /\ \A t \in Tasks : WF_vars(ReuseRun(t) \/ Publish(t) \/ \E r \in Runs : CreateRun(t, r))

FairSpec == Spec /\ Fairness

-----------------------------------------------------------------------------
(* Properties.                                                             *)

Steps ==
  {"idle", "claim", "claimed", "start", "fetch", "store", "load", "mark",
   "save", "succeeded", "failed", "close", "retry", "ack"}

RawRows == [run : Runs, seq : Nat, page : Pages, version : Versions]

\* Every variable has its type: the tables hold rows of the code's models, and
\* each worker's local variables are those of run_pipeline.
TypeOK ==
  /\ run \in [Runs -> RunRecord]
  /\ execs \subseteq [run : Runs, attempt : Nat,
                      status : {"RUNNING", "SUCCEEDED", "FAILED"}]
  /\ raw \subseteq RawRows /\ rawLoaded \subseteq RawRows
  /\ loads \in [Runs -> [DataPages -> Nat]]
  /\ lineage \in [Runs -> SUBSET Runs]
  /\ trig \in [Tasks -> Calls]
  /\ queue \subseteq Message
  /\ held \subseteq Workers
  /\ faults \in [crashes : Nat, lost : Nat, redeliveries : Nat]
  /\ pc \in [Workers -> Steps]
  /\ msg \in [Workers -> Message \cup {NoMessage}]
  /\ mem \in [Workers -> Memory]

\* Page p is at the destination, loaded for run r or for a run it continues.
Delivered(r, p) == \E a \in lineage[r] : loads[a][p] >= 1

\* Between the commit of its claim and the record of its outcome.
Executing(w) ==
  pc[w] \in {"start", "fetch", "store", "load", "mark", "save", "succeeded", "failed"}

\* No page is skipped: every page before the cursor a run has saved, from which
\* a retry, a redelivery or a continuation will resume, has been loaded.  It
\* holds whatever fails, crashes or is delivered twice.
CursorSafe ==
  \A r \in Runs, p \in DataPages : p < run[r].cursor => Delivered(r, p)

\* A run is SUCCEEDED only when every page of the source is at the destination,
\* however many attempts and continuations it took.
SucceededComplete ==
  \A r \in Runs : run[r].status = "SUCCEEDED" => \A p \in DataPages : Delivered(r, p)

\* Lineage (ADR 0007): a page reaches the destination only after its raw
\* payload is recorded, and a record is marked loaded only after the load.
RawBeforeLoad ==
  /\ \A r \in Runs, p \in DataPages :
       loads[r][p] >= 1 => \E x \in raw : x.run = r /\ x.page = p
  /\ \A x \in rawLoaded : x \in raw /\ (HasRecords(x.page) => loads[x.run][x.page] >= 1)

\* Two workers never execute the same run at once, whatever triggers are
\* repeated: claim_run admits one task id, and a retry is published when the
\* attempt before it is over.  It needs a broker that does not redeliver.
Exclusive ==
  \A v, w \in Workers :
    v # w /\ Executing(v) /\ Executing(w) => msg[v].run # msg[w].run

\* Without redelivery and in-doubt commits a page is loaded once for a run and
\* all the runs it continues: retries, continuations and repeated triggers
\* re-extract nothing that already succeeded.
LoadedOnce ==
  \A r \in Runs, p \in DataPages :
    \A a, b \in lineage[r] : loads[a][p] + (IF a = b THEN 0 ELSE loads[b][p]) <= 1

\* A RUNNING run always has something that will move it on: its task is being
\* executed, or a message for it is queued.
RunningHasDriver ==
  \A r \in Runs : run[r].status = "RUNNING" =>
    \/ \E m \in queue : m.run = r /\ m.task = run[r].owner
    \/ \E w \in Workers : /\ msg[w].run = r /\ msg[w].task = run[r].owner
                          /\ pc[w] \notin {"idle", "close", "ack"}

\* A run that failed with a retryable error was attempted as often as the
\* policy allows, and no run is attempted more often than that.
RetriesSpent ==
  \A r \in Runs :
    /\ run[r].status = "FAILED" /\ run[r].error = "Retryable"
         => run[r].attempt > MaxRetries
    /\ run[r].attempt <= MaxRetries + 1

\* A finished run keeps its outcome: no step takes SUCCEEDED or FAILED back or
\* turns one into the other (ADR 0005, "Terminal states are truly terminal").
TerminalStable ==
  [][\A r \in Runs : run[r].status \in TERMINAL_STATUSES
                       => run'[r].status = run[r].status]_vars

\* The resume point of an existing run never moves backwards, and the page
\* count keeps step with it, one page at a time, across retries.
ProgressMonotone ==
  [][\A r \in Runs : Exists(r) =>
       /\ run'[r].cursor >= run[r].cursor
       /\ run'[r].pages - run[r].pages \in {0, 1}
       /\ run'[r].cursor # run[r].cursor => run'[r].pages = run[r].pages + 1]_vars

\* claim_run refuses a claim only if the run is finished or another execution
\* of it exists (RunClaimRejected: "Not a failure -- the run is already
\* finished, or a different (still-owning) execution has it").
RejectionJustified ==
  [][\A w \in Workers : pc[w] = "claim" /\ pc'[w] = "ack" =>
       \/ run[msg[w].run].status \in TERMINAL_STATUSES
       \/ \E v \in Workers \ {w} : msg[v].run = msg[w].run
       \/ run[msg[w].run].owner # NoTask /\ run[msg[w].run].owner # msg[w].task]_vars

\* A page whose progress was saved is loaded again, under a later sequence
\* number, only if it is the source's last: its resume point is the page itself
\* (next_cursor or cursor_used), so an attempt that was lost before its terminal
\* status repeats that page and no other.
OnlyLastPageReloaded ==
  [][\A w \in Workers : pc[w] = "load" /\ pc'[w] = "mark" =>
       \A x \in rawLoaded :
         x.run = msg[w].run /\ x.page = mem[w].page /\ x.seq < mem[w].seq
           => NextCursor(x.page) = None]_vars

\* A failed run has at most one continuation.
OneContinuation ==
  \A r, s \in Runs :
    run[r].continuedFrom # NoRun /\ run[r].continuedFrom = run[s].continuedFrom => r = s

\* A run whose message reached the broker is eventually finished, although
\* steps fail, are retried, and a worker may crash: the broker redelivers under
\* the same task id, which claim_run admits.
EventuallyFinished ==
  \A r \in Runs : (\E m \in queue : m.run = r) ~> run[r].status \in TERMINAL_STATUSES
=============================================================================
