----------------------- MODULE PipelineRetryProofs -----------------------
(***************************************************************************)
(* What a retry repeats: proofs that the attempts of a run stay within the *)
(* retry policy and that no page is loaded twice for a run and the runs it *)
(* continues, as long as no attempt is cut off and redelivered.  The       *)
(* argument follows the ticket of a run: the one message, or worker, whose *)
(* task id claim_run admits.                                               *)
(***************************************************************************)
EXTENDS PipelineOwnershipProofs, PipelineDeliveryProofs

\* A worker and its connection are lost in the middle of an attempt: after the
\* commit of its claim, and before its outcome or its retry is on record.
AttemptLost == \E w \in Workers : Crash(w) /\ Driving(pc[w])

-----------------------------------------------------------------------------
(* The ticket of a run.                                                    *)

\* The row names the task of message m as the owner of the attempt in progress.
Ticket(m) == run[m.run].status = "RUNNING" /\ run[m.run].owner = m.task

\* A task id that was not published yet owns nothing.
NeverOwned == \A t \in Tasks : trig[t].pc # "done" => \A r \in Runs : run[r].owner # t

\* A worker that closes its attempt has recorded the outcome.
Closed == \A w \in Workers : pc[w] = "close" => run[msg[w].run].status \in TERMINAL_STATUSES

TicketInv == OwnInv /\ NeverOwned /\ Closed

\* A trigger call never goes back to a step before it was done.
LEMMA TriggersAdvance ==
  ASSUME TypeInv, [Next]_vars, NEW t \in Tasks, trig'[t].pc # "done"
  PROVE  trig[t].pc # "done"
<1> USE DEF runVars, brokerVars, workerVars
<1>1. CASE trig' = trig
  BY <1>1
<1>2. ASSUME NEW u \in Tasks, Dispatch(u) PROVE trig[t].pc # "done"
  <2>1. trig[u].pc # "done" /\ \E x : trig' = [trig EXCEPT ![u] = x]
    BY <1>2 DEF Dispatch, RequestRun, ContinueCommand, ContinueView, Continues, Inserts, CreateRun,
                ReuseRun, Publish, TriggerDies
  <2> QED
    BY <2>1 DEF TypeInv, TypeOK
<1> QED
  BY <1>1, <1>2
     DEF Next, vars, Deliver, Step, Crash, ProcessLost, Redeliver, ClaimRejected, ClaimLock,
         ClaimCommit, StartAttempt, Fetch, StepFails, StoreRaw, Load, LoadInDoubt, MarkLoaded,
         SaveProgress, MarkSucceeded, MarkFailed, RecordPendingRetry, CloseAttempt,
         PublishRetry, Ack

\* The row as a worker's write leaves it.
LEMMA RowAfter ==
  ASSUME OwnInv, NEW w \in Workers, Writes(w)
  PROVE  LET r == msg[w].run IN
         /\ r \in Runs /\ Busy(w)
         /\ \/ run'[r].status \in TERMINAL_STATUSES
            \/ run'[r].status = "RUNNING"
         /\ run'[r].owner = msg[w].task
         /\ ~SaveProgress(w) => run'[r].cursor = run[r].cursor
         /\ run'[r].attempt = IF ClaimCommit(w) THEN run[r].attempt + 1 ELSE run[r].attempt
<1> DEFINE r == msg[w].run
<1>1. /\ r \in Runs /\ run[r] \in RunRecord /\ run \in [Runs -> RunRecord] /\ Busy(w)
      /\ pc[w] # "claimed" => run[r].status = "RUNNING" /\ run[r].owner = msg[w].task
  BY WriterEngaged, BusyFacts
     DEF OwnInv, TypeInv, TypeOK, OwnerOK, Owns, Engaged, Busy, Driving
<1>2. CASE ClaimCommit(w)
  BY <1>1, <1>2 DEF ClaimCommit, RunRecord, SaveProgress
<1>3. CASE SaveProgress(w)
  BY <1>1, <1>3 DEF SaveProgress, RunRecord, ClaimCommit
<1>4. CASE MarkSucceeded(w)
  BY <1>1, <1>4 DEF MarkSucceeded, RunRecord, ClaimCommit, SaveProgress, TERMINAL_STATUSES
<1>5. CASE MarkFailed(w)
  BY <1>1, <1>5 DEF MarkFailed, RunRecord, ClaimCommit, SaveProgress, TERMINAL_STATUSES
<1>6. CASE RecordPendingRetry(w)
  BY <1>1, <1>6 DEF RecordPendingRetry, RunRecord, ClaimCommit, SaveProgress
<1> QED
  BY <1>2, <1>3, <1>4, <1>5, <1>6 DEF Writes

\* The row of a message changes behind its back only by its creation, and by a
\* worker that has or takes the ticket.
LEMMA MessageKept ==
  ASSUME OwnInv, [Next]_vars, NEW m \in Message,
         \A w \in Workers : Writes(w) => msg[w].task # m.task
  PROVE  \/ run'[m.run] = run[m.run]
         \/ run[m.run].status = "NONE" /\ run'[m.run].status = "PENDING"
         \/ run'[m.run].status \notin {"NONE", "PENDING"} /\ run'[m.run].owner # m.task
<1>1. m.run \in Runs
  BY MessageFacts
<1>2. ASSUME NEW t \in Tasks, CreateRun(t, m.run)
      PROVE  run[m.run].status = "NONE" /\ run'[m.run].status = "PENDING"
  BY <1>1, <1>2 DEF Inserts, CreateRun, Exists, SeededRun, OwnInv, TypeInv, TypeOK
<1>3. ASSUME NEW w \in Workers, Writes(w), msg[w].run = m.run
      PROVE  run'[m.run].status \notin {"NONE", "PENDING"} /\ run'[m.run].owner # m.task
  BY <1>3, RowAfter DEF TERMINAL_STATUSES
<1> QED
  BY <1>1, <1>2, <1>3, RowWriters DEF OwnInv

\* Nothing is owned when the system starts.
LEMMA TicketInit == Init => TicketInv
BY OwnInit, ExecutionAssumption DEF Init, TicketInv, NeverOwned, Closed, NoRecord

\* Only a published task id is ever recorded as an owner, and an outcome is
\* recorded before the attempt is closed.
LEMMA TicketStep == TicketInv /\ [Next]_vars /\ [~Duplicates]_vars => TicketInv'
<1> SUFFICES ASSUME TicketInv, [Next]_vars, [~Duplicates]_vars PROVE TicketInv'
  OBVIOUS
<1>0. OwnInv /\ TypeInv /\ TypeOK /\ OwnInv'
  BY OwnStep DEF TicketInv, OwnInv, TypeInv
<1>1. NeverOwned'
  <2> SUFFICES ASSUME NEW t \in Tasks, trig'[t].pc # "done", NEW r \in Runs
               PROVE  run'[r].owner # t
    BY DEF NeverOwned
  <2>1. trig[t].pc # "done" /\ run[r].owner # t
    BY <1>0, TriggersAdvance DEF TicketInv, NeverOwned
  <2>2. ASSUME NEW u \in Tasks, CreateRun(u, r) PROVE run'[r].owner # t
    BY <1>0, <2>2, ExecutionAssumption DEF Inserts, CreateRun, SeededRun, TypeOK
  <2>3. ASSUME NEW w \in Workers, Writes(w), msg[w].run = r PROVE run'[r].owner # t
    BY <1>0, <2>1, <2>3, RowAfter DEF OwnInv, OneCarrier
  <2> QED
    BY <1>0, <2>1, <2>2, <2>3, RowWriters
<1>2. Closed'
  <2> SUFFICES ASSUME NEW u \in Workers, pc'[u] = "close"
               PROVE  run'[msg'[u].run].status \in TERMINAL_STATUSES
    BY DEF Closed
  <2>1. CASE Stays(u)
    <3>1. msg[u].run \in Runs /\ run[msg[u].run].status \in TERMINAL_STATUSES
      BY <1>0, <2>1, BusyFacts DEF TicketInv, Closed, Stays
    <3> QED
      BY <1>0, <2>1, <3>1, TerminalKept DEF Stays
  <2>2. CASE Step(u)
    <3>1. MarkSucceeded(u) \/ MarkFailed(u)
      BY <1>0, <2>2
         DEF TypeOK, Step, ClaimRejected, ClaimLock, ClaimCommit, StartAttempt, Fetch,
             StepFails, StoreRaw, Load, LoadInDoubt, MarkLoaded, SaveProgress,
             RecordPendingRetry, CloseAttempt, PublishRetry, Ack, Idle
    <3>2. msg[u].run \in Runs
      BY <1>0, <3>1, BusyFacts DEF MarkSucceeded, MarkFailed
    <3>3. CASE MarkSucceeded(u)
      BY <1>0, <3>2, <3>3 DEF MarkSucceeded, TypeOK, RunRecord, TERMINAL_STATUSES
    <3>4. CASE MarkFailed(u)
      BY <1>0, <3>2, <3>4 DEF MarkFailed, TypeOK, RunRecord, TERMINAL_STATUSES
    <3> QED
      BY <3>1, <3>3, <3>4
  <2> QED
    BY <1>0, <2>1, <2>2, ActsOrStays DEF Deliver, TypeOK
<1> QED
  BY <1>0, <1>1, <1>2 DEF TicketInv

\* A worker's own step, by the step it was at.
LEMMA StepMoves ==
  ASSUME TypeInv, NEW w \in Workers, Step(w)
  PROVE  /\ pc[w] # "ack" => msg'[w] = msg[w]
         /\ pc[w] = "claim" => pc'[w] \in {"ack", "claimed"} /\ run' = run
         /\ pc[w] = "claimed" => ClaimCommit(w)
         /\ Driving(pc[w]) => pc'[w] \notin {"idle", "claim", "claimed"}
         /\ pc[w] \in {"close", "ack"} => pc'[w] \in {"ack", "idle"}
         /\ pc[w] \in Steps \ {"idle"}
BY DEF TypeInv, TypeOK, Step, ClaimRejected, ClaimLock, ClaimCommit, StartAttempt, Fetch,
       StepFails, StoreRaw, Load, LoadInDoubt, MarkLoaded, SaveProgress, MarkSucceeded,
       MarkFailed, RecordPendingRetry, CloseAttempt, PublishRetry, Ack, Idle, runVars,
       brokerVars, Driving, Steps

\* No other worker writes the row of a run that a worker is engaged with.
LEMMA OneWriter ==
  ASSUME OwnInv, NEW u \in Workers, Engaged(u), NEW w \in Workers, Writes(w),
         msg[w].run = msg[u].run
  PROVE  w = u
BY WriterEngaged, Alone

\* A message comes back from a lost worker only before its attempt began or
\* after its outcome was recorded.
LEMMA Requeued ==
  ASSUME TypeInv, [~Duplicates]_vars, [~AttemptLost]_vars, NEW w \in Workers,
         Crash(w) \/ Redeliver(w)
  PROVE  pc[w] \in {"claim", "claimed", "close"} /\ UNCHANGED runVars
<1>1. ~UNCHANGED vars
  <2>1. Crash(w) => pc' # pc
    BY DEF Crash, Idle, TypeInv, TypeOK
  <2>2. Redeliver(w) => held' # held
    BY DEF Redeliver
  <2> QED
    BY <2>1, <2>2 DEF vars
<1>2. Crash(w) /\ pc[w] # "ack" /\ ~Driving(pc[w])
  BY <1>1 DEF Duplicates, AttemptLost
<1> QED
  BY <1>2 DEF Crash, TypeInv, TypeOK, Driving, Steps

-----------------------------------------------------------------------------
(* Attempts.                                                               *)

\* The retries counted in a message are those of the run it is for.
Budget(m) ==
  /\ run[m.run].status \in {"NONE", "PENDING"} => m.retries = 0
  /\ Ticket(m) => run[m.run].attempt = m.retries

Counted(w) ==
  /\ pc[w] \in {"claim", "claimed"} => Budget(msg[w])
  /\ Driving(pc[w]) => run[msg[w].run].attempt = msg[w].retries + 1

RowCounted(r) ==
  /\ run[r].status \in {"NONE", "PENDING"} => run[r].attempt = 0
  /\ run[r].attempt <= MaxRetries + 1
  /\ run[r].status = "FAILED" /\ run[r].error = "Retryable" => run[r].attempt > MaxRetries

RetryInv ==
  /\ TicketInv
  /\ \A m \in queue : Budget(m)
  /\ \A w \in Workers : Counted(w)
  /\ \A r \in Runs : RowCounted(r)

\* The messages in the queue count the retries of their run.
LEMMA QueueCounted ==
  ASSUME RetryInv, [Next]_vars, [~Duplicates]_vars, [~AttemptLost]_vars, NEW m \in queue'
  PROVE  Budget(m)'
<1> USE DEF runVars, brokerVars, workerVars
<1>0. OwnInv /\ TypeInv /\ TypeOK /\ TicketInv
  BY DEF RetryInv, TicketInv, OwnInv, TypeInv
<1>1. CASE m \in queue
  <2>1. m \in Message /\ Budget(m)
    BY <1>0, <1>1 DEF RetryInv, TypeOK
  <2>2. \A w \in Workers : Writes(w) => msg[w].task # m.task
    BY <1>0, <1>1, RowAfter DEF OwnInv, OneCarrier
  <2> QED
    BY <1>0, <2>1, <2>2, MessageKept DEF Budget, Ticket
<1>2. ASSUME NEW t \in Tasks, Publish(t), m = [run |-> trig[t].key, task |-> t, retries |-> 0]
      PROVE  Budget(m)'
  <2>1. trig[t].key \in Runs /\ run' = run /\ run[trig[t].key].owner # t
    BY <1>0, <1>2 DEF Publish, TypeInv, CallsOK, TicketInv, NeverOwned
  <2> QED
    BY <1>2, <2>1 DEF Budget, Ticket
<1>3. ASSUME NEW w \in Workers, PublishRetry(w), m = [msg[w] EXCEPT !.retries = @ + 1]
      PROVE  Budget(m)'
  <2>1. Driving(pc[w]) /\ run' = run /\ msg[w] \in Message
    BY <1>0, <1>3, BusyFacts DEF PublishRetry, Driving
  <2>2. run[msg[w].run].status = "RUNNING" /\ run[msg[w].run].attempt = msg[w].retries + 1
    BY <1>0, <2>1 DEF RetryInv, Counted, OwnInv, OwnerOK, Owns
  <2>3. m.run = msg[w].run /\ m.retries = msg[w].retries + 1
    BY <1>3, <2>1 DEF Message
  <2> QED
    BY <2>1, <2>2, <2>3 DEF Budget, Ticket
<1>4. ASSUME NEW w \in Workers, Crash(w) \/ Redeliver(w), m = msg[w] PROVE Budget(m)'
  BY <1>0, <1>4, Requeued
     DEF RetryInv, Counted, TicketInv, Closed, Budget, Ticket, TERMINAL_STATUSES
<1> QED
  BY <1>1, <1>2, <1>3, <1>4, QueueSources

\* A worker's attempt is the one its message counts.
LEMMA WorkersCounted ==
  ASSUME RetryInv, [Next]_vars, NEW u \in Workers
  PROVE  Counted(u)'
<1>0. OwnInv /\ TypeInv /\ TypeOK /\ Counted(u)
  BY DEF RetryInv, TicketInv, OwnInv, TypeInv
<1>1. CASE Stays(u)
  <2>1. CASE pc[u] \in {"claim", "claimed"}
    <3>1. msg[u] \in Message /\ Busy(u)
      BY <1>0, <2>1, BusyFacts DEF Busy
    <3>2. \A w \in Workers : Writes(w) => w # u
      BY <1>0, <1>1
         DEF Stays, Writes, ClaimCommit, SaveProgress, MarkSucceeded, MarkFailed,
             RecordPendingRetry, TypeOK
    <3>3. \A w \in Workers : Writes(w) => msg[w].task # msg[u].task
      BY <1>0, <3>1, <3>2, RowAfter DEF OwnInv, OneCarrier
    <3> QED
      BY <1>0, <1>1, <2>1, <3>1, <3>3, MessageKept DEF Counted, Budget, Ticket, Stays, Driving
  <2>2. CASE Driving(pc[u])
    BY <1>0, <1>1, <2>2, OthersUndisturbed DEF Counted, Stays, Driving
  <2> QED
    BY <1>1, <2>1, <2>2 DEF Counted, Stays
<1>2. CASE Step(u)
  <2>1. CASE pc[u] = "claim"
    BY <1>0, <1>2, <2>1, StepMoves DEF Counted, Budget, Ticket, Driving
  <2>2. CASE pc[u] = "claimed"
    <3>1. ClaimCommit(u) /\ msg'[u] = msg[u] /\ pc'[u] = "start"
      BY <1>0, <1>2, <2>2, StepMoves DEF ClaimCommit, TypeOK
    <3>2. msg[u] \in Message /\ msg[u].run \in Runs /\ run[msg[u].run] \in RunRecord
      BY <1>0, <2>2, BusyFacts
    <3>3. run[msg[u].run].status \in {"NONE", "PENDING"} \/ Ticket(msg[u])
      BY <1>0, <2>2, <3>2
         DEF OwnInv, OwnerOK, Owns, Ticket, RunRecord, Statuses, TERMINAL_STATUSES
    <3>4. run[msg[u].run].attempt = msg[u].retries
      BY <1>0, <2>2, <3>2, <3>3 DEF Counted, Budget, RetryInv, RowCounted
    <3> QED
      BY <1>0, <3>1, <3>4, RowAfter DEF Counted, Writes
  <2>3. CASE Driving(pc[u])
    <3>1. msg'[u] = msg[u] /\ pc'[u] \notin {"claim", "claimed"} /\ msg[u].run \in Runs
      BY <1>0, <1>2, <2>3, StepMoves, BusyFacts DEF Driving
    <3>2. ASSUME NEW w \in Workers, Writes(w), msg[w].run = msg[u].run
          PROVE  run'[msg[u].run].attempt = run[msg[u].run].attempt
      BY <1>0, <2>3, <3>2, OneWriter, RowAfter DEF Engaged, ClaimCommit, Driving
    <3>3. ASSUME NEW t \in Tasks, CreateRun(t, msg[u].run) PROVE FALSE
      BY <1>0, <2>3, <3>3 DEF Inserts, CreateRun, Exists, OwnInv, OwnerOK, Owns
    <3> QED
      BY <1>0, <2>3, <3>1, <3>2, <3>3, RowWriters DEF Counted
  <2> QED
    BY <1>0, <1>2, <2>1, <2>2, <2>3, StepMoves DEF Counted, Driving, Steps
<1>3. CASE pc'[u] = "idle"
  BY <1>3 DEF Counted, Driving
<1>4. ASSUME NEW m \in queue, Deliver(u, m) PROVE Counted(u)'
  <2>1. run' = run /\ msg'[u] = m /\ pc'[u] = "claim" /\ Budget(m)
    BY <1>0, <1>4 DEF Deliver, TypeOK, runVars, RetryInv
  <2> QED
    BY <2>1 DEF Counted, Budget, Ticket, Driving
<1> QED
  BY <1>0, <1>1, <1>2, <1>3, <1>4, ActsOrStays

\* The rows keep within the policy.
LEMMA RowsCounted ==
  ASSUME RetryInv, [Next]_vars, NEW r \in Runs
  PROVE  RowCounted(r)'
<1>0. OwnInv /\ TypeInv /\ TypeOK /\ RowCounted(r)
  BY DEF RetryInv, TicketInv, OwnInv, TypeInv
<1>1. CASE run'[r] = run[r]
  BY <1>0, <1>1 DEF RowCounted
<1>2. ASSUME NEW t \in Tasks, CreateRun(t, r) PROVE RowCounted(r)'
  BY <1>0, <1>2, ExecutionAssumption DEF Inserts, CreateRun, SeededRun, TypeOK, RowCounted
<1>3. ASSUME NEW w \in Workers, Writes(w), msg[w].run = r PROVE RowCounted(r)'
  <2>0. Engaged(w) /\ msg[w] \in Message /\ msg[w].retries \in 0 .. MaxRetries /\ Counted(w)'
    BY <1>0, <1>3, WriterEngaged, BusyFacts, WorkersCounted DEF Engaged, Driving, Message
  <2>1. CASE ClaimCommit(w)
    <3>1. pc'[w] = "start" /\ msg'[w] = msg[w]
      BY <1>0, <2>1 DEF ClaimCommit, TypeOK
    <3>2. run'[r].attempt = msg[w].retries + 1
      BY <1>3, <2>0, <3>1 DEF Counted, Driving
    <3>3. run'[r].status = "RUNNING"
      BY <1>0, <1>3, <2>1 DEF ClaimCommit, TypeOK, RunRecord
    <3> QED
      BY <2>0, <3>2, <3>3, ExecutionAssumption DEF RowCounted
  <2>2. CASE ~ClaimCommit(w)
    <3>1. /\ run'[r].attempt = run[r].attempt
          /\ run'[r].status \notin {"NONE", "PENDING"}
      BY <1>0, <1>3, <2>2, RowAfter DEF TERMINAL_STATUSES
    <3>2. ASSUME run'[r].status = "FAILED", run'[r].error = "Retryable"
          PROVE  MarkFailed(w) /\ mem[w].error = "Retryable"
      <4>1. run[r].status = "RUNNING" /\ run[r] \in RunRecord
        BY <1>0, <1>3, <2>0, <2>2 DEF Writes, Engaged, SaveProgress, MarkSucceeded,
              MarkFailed, RecordPendingRetry, OwnInv, OwnerOK, Owns, Driving, TypeOK
      <4>2. CASE SaveProgress(w)
        BY <1>0, <1>3, <3>2, <4>1, <4>2 DEF SaveProgress, TypeOK, RunRecord
      <4>3. CASE MarkSucceeded(w)
        BY <1>0, <1>3, <3>2, <4>1, <4>3 DEF MarkSucceeded, TypeOK, RunRecord
      <4>4. CASE RecordPendingRetry(w)
        BY <1>0, <1>3, <3>2, <4>1, <4>4 DEF RecordPendingRetry, TypeOK, RunRecord
      <4>5. CASE MarkFailed(w)
        BY <1>0, <1>3, <3>2, <4>1, <4>5 DEF MarkFailed, TypeOK, RunRecord
      <4> QED
        BY <1>3, <2>2, <4>2, <4>3, <4>4, <4>5 DEF Writes
    <3>3. MarkFailed(w) /\ mem[w].error = "Retryable" => run[r].attempt > MaxRetries
      <4> SUFFICES ASSUME MarkFailed(w), mem[w].error = "Retryable"
                   PROVE  run[r].attempt > MaxRetries
        OBVIOUS
      <4>1. msg[w].retries >= MaxRetries
        BY DEF MarkFailed, ShouldFinalize
      <4>2. run[r].attempt = msg[w].retries + 1
        BY <1>3 DEF MarkFailed, RetryInv, Counted, Driving
      <4> QED
        BY <2>0, <4>1, <4>2, ExecutionAssumption
    <3> QED
      BY <1>0, <3>1, <3>2, <3>3 DEF RowCounted
  <2> QED
    BY <2>1, <2>2
<1> QED
  BY <1>0, <1>1, <1>2, <1>3, RowWriters

\* A run that failed with a retryable error was attempted as often as the policy
\* allows, and none is attempted more often, whatever is triggered again or
\* lost, unless a worker is cut off in the middle of an attempt.
THEOREM RetriesAreSpent ==
  Spec /\ [][~Duplicates]_vars /\ [][~AttemptLost]_vars => []RetriesSpent
<1>1. Init => RetryInv
  BY TicketInit, ExecutionAssumption
     DEF Init, RetryInv, Counted, RowCounted, NoRecord, Driving
<1>2. RetryInv /\ [Next]_vars /\ [~Duplicates]_vars /\ [~AttemptLost]_vars => RetryInv'
  BY TicketStep, QueueCounted, WorkersCounted, RowsCounted DEF RetryInv
<1>3. RetryInv => RetriesSpent
  BY DEF RetryInv, RowCounted, RetriesSpent
<1> QED
  BY <1>1, <1>2, <1>3, PTL DEF Spec

-----------------------------------------------------------------------------
(* Loads.                                                                  *)

\* Nothing from page n on was loaded for run r or a run it continues.
Fresh(r, n) == \A a \in lineage[r], p \in DataPages : p >= n => loads[a][p] = 0

Unread(r) == Fresh(r, FirstPage(run[r].cursor))

\* What is still to be loaded, by the step of a worker.
FreshWorker(w) ==
  /\ pc[w] \in {"claim", "claimed"} /\ Ticket(msg[w]) => Unread(msg[w].run)
  /\ pc[w] \in {"start", "fetch", "store", "load", "retry"} => Unread(msg[w].run)
  /\ pc[w] \in {"mark", "save"} => Fresh(msg[w].run, mem[w].page + 1)
  /\ pc[w] = "failed" /\ mem[w].error # "Fatal" => Unread(msg[w].run)

FreshRow(r) ==
  /\ run[r].status = "NONE" => \A p \in DataPages : loads[r][p] = 0
  /\ run[r].status = "PENDING" \/ is_continuable(r) => Unread(r)
  /\ \A a \in lineage[r] : a # r => run[a].status = "FAILED"

\* What a trigger call read of the run it continues is still so.
FreshCall(t) ==
  trig[t].pc = "create" /\ trig[t].from # NoRun =>
    /\ trig[t].from \in Runs /\ is_continuable(trig[t].from)
    /\ trig[t].cursor = run[trig[t].from].cursor

LoadInv ==
  /\ ProgressInv /\ TicketInv /\ LineageOK /\ LoadedOnce
  /\ \A m \in queue : Ticket(m) => Unread(m.run)
  /\ \A w \in Workers : FreshWorker(w)
  /\ \A r \in Runs : FreshRow(r)
  /\ \A t \in Tasks : FreshCall(t)

\* The rows at the destination change when a page is loaded, and by nothing else
\* if every commit is confirmed.
LEMMA LoadsChange ==
  ASSUME InDoubtCommit = FALSE, [Next]_vars
  PROVE  loads' = loads \/ \E w \in Workers : Load(w)
BY DEF Next, vars, Dispatch, RequestRun, ContinueCommand, ContinueView, Inserts, CreateRun, ReuseRun,
       Publish, TriggerDies, Deliver, Step, Crash, ProcessLost, Redeliver, ClaimRejected,
       ClaimLock, ClaimCommit, StartAttempt, Fetch, StepFails, StoreRaw, LoadInDoubt,
       MarkLoaded, SaveProgress, MarkSucceeded, MarkFailed, RecordPendingRetry,
       CloseAttempt, PublishRetry, Ack, runVars

\* A lineage is written when its run is created.
LEMMA LineageChange ==
  ASSUME TypeInv, [Next]_vars, NEW r \in Runs
  PROVE  lineage'[r] = lineage[r] \/ \E t \in Tasks : CreateRun(t, r)
<1>1. lineage' = lineage \/ \E t \in Tasks, q \in Runs : CreateRun(t, q)
  BY DEF Next, vars, Dispatch, RequestRun, ContinueCommand, ContinueView, ReuseRun,
         Publish, TriggerDies, Deliver, Step, Crash, ProcessLost, Redeliver, ClaimRejected,
         ClaimLock, ClaimCommit, StartAttempt, Fetch, StepFails, StoreRaw, Load, LoadInDoubt,
         MarkLoaded, SaveProgress, MarkSucceeded, MarkFailed, RecordPendingRetry,
         CloseAttempt, PublishRetry, Ack, runVars
<1>2. ASSUME NEW t \in Tasks, NEW q \in Runs, CreateRun(t, q), q # r
      PROVE  lineage'[r] = lineage[r]
  BY <1>2 DEF Inserts, CreateRun, TypeInv, TypeOK
<1> QED
  BY <1>1, <1>2

\* What a load changes.
LEMMA LoadEffect ==
  ASSUME TypeInv, NEW w \in Workers, Load(w)
  PROVE  /\ \A a \in Runs, p \in DataPages :
              loads'[a][p] = IF a = msg[w].run /\ p = mem[w].page
                               THEN loads[a][p] + 1 ELSE loads[a][p]
         /\ UNCHANGED <<run, lineage, trig, queue, msg, mem>>
         /\ msg[w].run \in Runs
<1>1. msg[w].run \in Runs
  BY BusyFacts DEF Load
<1> QED
  BY <1>1 DEF Load, Committed, TypeInv, TypeOK, HasRecords, brokerVars

\* A run that is being executed is in no lineage but its own.
LEMMA LoadsOwn ==
  ASSUME LoadInv, NEW w \in Workers, Load(w), NEW r \in Runs, msg[w].run \in lineage[r]
  PROVE  r = msg[w].run
BY DEF LoadInv, FreshRow, TicketInv, OwnInv, OwnerOK, Owns, Load, Driving

\* Only the loads of a run itself make its pages stale.
LEMMA FreshKept ==
  ASSUME LoadInv, InDoubtCommit = FALSE, [Next]_vars, NEW r \in Runs, NEW n \in Int,
         Fresh(r, n), Exists(r), \A w \in Workers : Load(w) => msg[w].run # r
  PROVE  Fresh(r, n)'
<1>0. TypeInv /\ TypeOK
  BY DEF LoadInv, TicketInv, OwnInv, TypeInv
<1>1. lineage'[r] = lineage[r] /\ lineage[r] \subseteq Runs
  BY <1>0, LineageChange DEF Inserts, CreateRun, TypeOK
<1>2. ASSUME NEW w \in Workers, Load(w), NEW a \in lineage[r], NEW p \in DataPages
      PROVE  loads'[a][p] = loads[a][p]
  BY <1>0, <1>1, <1>2, LoadEffect, LoadsOwn
<1>3. \A a \in lineage[r], p \in DataPages : loads'[a][p] = loads[a][p]
  BY <1>2, LoadsChange
<1> QED
  BY <1>1, <1>3 DEF Fresh

\* A run keeps its unread pages as long as its cursor stays.
LEMMA UnreadKept ==
  ASSUME LoadInv, InDoubtCommit = FALSE, [Next]_vars, NEW r \in Runs,
         Unread(r), Exists(r), run'[r].cursor = run[r].cursor,
         \A w \in Workers : Load(w) => msg[w].run # r
  PROVE  Unread(r)'
<1>1. FirstPage(run[r].cursor) \in Int
  <2>1. run[r].cursor \in Cursors
    BY RunFields DEF LoadInv, TicketInv, OwnInv, TypeInv, TypeOK
  <2> QED
    BY <2>1, CursorTypes, SourceAssumption DEF Pages
<1> QED
  BY <1>1, FreshKept DEF Unread, Fresh

\* A run that nobody executes is not loaded.
LEMMA LoaderOwns ==
  ASSUME LoadInv, NEW w \in Workers, Load(w)
  PROVE  /\ run[msg[w].run].status = "RUNNING" /\ run[msg[w].run].owner = msg[w].task
         /\ Busy(w) /\ Engaged(w)
BY DEF LoadInv, TicketInv, OwnInv, OwnerOK, Owns, Load, Driving, Busy, Engaged

\* A ticket in the queue is for a run whose remaining pages are unread.
LEMMA QueueFresh ==
  ASSUME LoadInv, InDoubtCommit = FALSE, [Next]_vars, [~Duplicates]_vars,
         [~AttemptLost]_vars, NEW m \in queue', Ticket(m)'
  PROVE  Unread(m.run)'
<1> USE DEF runVars, brokerVars, workerVars
<1>0. OwnInv /\ TypeInv /\ TypeOK /\ TicketInv
  BY DEF LoadInv, TicketInv, OwnInv, TypeInv
<1>1. CASE m \in queue
  <2>1. m \in Message /\ m.run \in Runs
    BY <1>0, <1>1, MessageFacts DEF TypeOK
  <2>2. \A w \in Workers : Writes(w) => msg[w].task # m.task
    BY <1>0, <1>1, RowAfter DEF OwnInv, OneCarrier
  <2>3. run'[m.run] = run[m.run] /\ Ticket(m)
    BY <1>0, <2>1, <2>2, MessageKept DEF Ticket
  <2>4. \A w \in Workers : Load(w) => msg[w].run # m.run
    BY <1>0, <1>1, <2>3, LoaderOwns DEF OwnInv, OneCarrier, Ticket
  <2>5. Exists(m.run) /\ Unread(m.run)
    BY <1>1, <2>3 DEF LoadInv, Ticket, Exists
  <2> QED
    BY <2>1, <2>3, <2>4, <2>5, UnreadKept
<1>2. ASSUME NEW t \in Tasks, Publish(t), m = [run |-> trig[t].key, task |-> t, retries |-> 0]
      PROVE  FALSE
  BY <1>0, <1>2 DEF Publish, TypeInv, CallsOK, TicketInv, NeverOwned, Ticket
<1>3. ASSUME NEW w \in Workers, PublishRetry(w), m = [msg[w] EXCEPT !.retries = @ + 1]
      PROVE  Unread(m.run)'
  <2>1. msg[w] \in Message /\ Unread(msg[w].run) /\ UNCHANGED <<run, loads, lineage>>
    BY <1>0, <1>3, BusyFacts DEF PublishRetry, LoadInv, FreshWorker
  <2>2. m.run = msg[w].run
    BY <1>3, <2>1 DEF Message
  <2> QED
    BY <2>1, <2>2 DEF Unread, Fresh
<1>4. ASSUME NEW w \in Workers, Crash(w) \/ Redeliver(w), m = msg[w] PROVE Unread(m.run)'
  <2>1. pc[w] \in {"claim", "claimed", "close"} /\ UNCHANGED runVars
    BY <1>0, <1>4, Requeued
  <2>2. Ticket(msg[w])
    BY <1>4, <2>1 DEF Ticket
  <2>3. Unread(msg[w].run)
    BY <1>0, <2>1, <2>2
       DEF LoadInv, FreshWorker, TicketInv, Closed, Ticket, TERMINAL_STATUSES
  <2> QED
    BY <1>4, <2>1, <2>3 DEF Unread, Fresh
<1> QED
  BY <1>1, <1>2, <1>3, <1>4, QueueSources

\* A worker's own step keeps what it knows of the pages still to be loaded.
LEMMA StepFresh ==
  ASSUME LoadInv, InDoubtCommit = FALSE, NEW w \in Workers, Step(w)
  PROVE  FreshWorker(w)'
<1> USE DEF runVars, brokerVars, workerVars
<1> DEFINE r == msg[w].run
<1>0. TypeInv /\ TypeOK /\ FreshWorker(w) /\ OwnInv
  BY DEF LoadInv, TicketInv, OwnInv, TypeInv
<1>1. ASSUME UNCHANGED <<run, loads, lineage, msg>>, mem'[w].page = mem[w].page,
             \/ pc[w] = "claim" /\ pc'[w] = "claimed"
             \/ /\ pc[w] \in {"start", "fetch", "store", "load"}
                /\ pc'[w] \in {"fetch", "store", "load", "failed"}
             \/ pc[w] = "mark" /\ pc'[w] = "save"
             \/ pc'[w] = "failed" /\ mem'[w].error = "Fatal"
             \/ pc'[w] \in {"ack", "idle", "close", "succeeded"}
      PROVE  FreshWorker(w)'
  BY <1>0, <1>1 DEF FreshWorker, Unread, Fresh, Ticket
<1>2. CASE ClaimCommit(w)
  <2>1. r \in Runs /\ run[r] \in RunRecord
    BY <1>0, <1>2, BusyFacts DEF ClaimCommit
  <2>2. run[r].status \in {"NONE", "PENDING"} \/ Ticket(msg[w])
    BY <1>0, <1>2, <2>1 DEF ClaimCommit, OwnInv, OwnerOK, Owns, Ticket, RunRecord, Statuses,
                            TERMINAL_STATUSES
  <2>3. run[r].status = "NONE" => Unread(r)
    BY <2>1 DEF LoadInv, LineageOK, FreshRow, Unread, Fresh
  <2>4. Unread(r)
    BY <1>0, <1>2, <2>1, <2>2, <2>3 DEF ClaimCommit, LoadInv, FreshRow, FreshWorker
  <2>5. /\ pc'[w] = "start" /\ run'[r].cursor = run[r].cursor
        /\ UNCHANGED <<loads, lineage, msg>>
    BY <1>0, <1>2, <2>1 DEF ClaimCommit, TypeOK, RunRecord
  <2> QED
    BY <2>4, <2>5 DEF FreshWorker, Unread, Fresh
<1>3. CASE Load(w)
  <2>1. /\ r \in Runs /\ lineage[r] \subseteq Runs /\ mem[w].page \in Int
        /\ UNCHANGED <<run, lineage, msg, mem>> /\ pc'[w] = "mark"
    <3>1. mem[w].page \in Pages
      BY <1>0, <1>3 DEF Load, TypeInv, LocalOK
    <3>2. mem[w].page \in Int
      BY <3>1, SourceAssumption DEF Pages
    <3>3. r \in Runs /\ UNCHANGED <<run, lineage, msg, mem>>
      BY <1>0, <1>3, LoadEffect
    <3> QED
      BY <1>0, <1>3, <3>2, <3>3 DEF Load, TypeOK
  <2>2. Fresh(r, mem[w].page)
    BY <1>0, <1>3 DEF Load, FreshWorker, Unread, LoadInv, ProgressInv, InStep
  <2>3. \A a \in Runs, p \in DataPages : p >= mem[w].page + 1 => loads'[a][p] = loads[a][p]
    BY <1>0, <1>3, <2>1, LoadEffect DEF DataPages
  <2>4. \A p \in DataPages : p >= mem[w].page + 1 => p >= mem[w].page
    BY <2>1 DEF DataPages
  <2>5. Fresh(r, mem[w].page + 1)'
    BY <2>1, <2>2, <2>3, <2>4 DEF Fresh
  <2> QED
    BY <2>1, <2>5 DEF FreshWorker
<1>4. CASE SaveProgress(w)
  <2>1. UNCHANGED <<loads, lineage, msg>> /\ pc'[w] \in {"succeeded", "failed", "fetch"}
    BY <1>0, <1>4 DEF SaveProgress, TypeOK
  <2>2. CASE pc'[w] = "succeeded"
    BY <2>2 DEF FreshWorker
  <2>3. CASE pc'[w] # "succeeded"
    <3>1. mem[w].next # None
      BY <1>0, <1>4, <2>3 DEF SaveProgress, AfterYield, TypeOK
    <3>2. run'[r].cursor = mem[w].page + 1
      BY <1>4, <3>1, SavedRow DEF LoadInv
    <3>3. FirstPage(mem[w].page + 1) = mem[w].page + 1
      BY <1>0, <1>4, SourceAssumption DEF SaveProgress, TypeInv, LocalOK, FirstPage, Pages, None
    <3>4. Fresh(r, mem[w].page + 1)
      BY <1>0, <1>4 DEF SaveProgress, FreshWorker
    <3>5. Unread(r)'
      BY <2>1, <3>2, <3>3, <3>4 DEF Unread, Fresh
    <3> QED
      BY <2>1, <2>3, <3>5 DEF FreshWorker
  <2> QED
    BY <2>2, <2>3
<1>5. CASE RecordPendingRetry(w)
  <2>1. r \in Runs /\ run[r] \in RunRecord
    BY <1>0, <1>5, BusyFacts DEF RecordPendingRetry
  <2>2. /\ pc'[w] = "retry" /\ run'[r].cursor = run[r].cursor
        /\ UNCHANGED <<loads, lineage, msg>>
    BY <1>0, <1>5, <2>1 DEF RecordPendingRetry, TypeOK, RunRecord
  <2>3. Unread(r)
    BY <1>0, <1>5 DEF RecordPendingRetry, ShouldFinalize, FreshWorker
  <2> QED
    BY <2>2, <2>3 DEF FreshWorker, Unread, Fresh
<1>6. ASSUME MarkSucceeded(w) \/ MarkFailed(w) \/ ClaimRejected(w) \/ CloseAttempt(w)
             \/ PublishRetry(w) \/ Ack(w)
      PROVE  FreshWorker(w)'
  <2>1. pc'[w] \in {"close", "ack", "idle"}
    BY <1>0, <1>6 DEF MarkSucceeded, MarkFailed, ClaimRejected, CloseAttempt, PublishRetry,
                      Ack, Idle, TypeOK
  <2> QED
    BY <2>1 DEF FreshWorker
<1>7. ASSUME NEW v \in Versions, Fetch(w, v) PROVE FreshWorker(w)'
  <2>1. /\ UNCHANGED <<run, loads, lineage, msg>> /\ pc[w] = "fetch"
        /\ pc'[w] \in {"store", "succeeded"}
    BY <1>0, <1>7 DEF Fetch, TypeOK
  <2> QED
    BY <1>0, <2>1 DEF FreshWorker, Unread, Fresh
<1>8. ASSUME NEW e \in {"Retryable", "Fatal"}, StepFails(w, e) PROVE FreshWorker(w)'
  <2>1. /\ UNCHANGED <<run, loads, lineage, msg>> /\ pc'[w] = "failed"
        /\ mem'[w] = [mem[w] EXCEPT !.error = e]
        /\ pc[w] \in {"fetch", "store", "load"} \/ e = "Fatal"
    BY <1>0, <1>8 DEF StepFails, TypeOK
  <2>2. mem'[w].page = mem[w].page /\ mem'[w].error = e
    BY <1>0, <2>1 DEF TypeOK, Memory
  <2> QED
    BY <1>1, <2>1, <2>2
<1>9. CASE ClaimLock(w) \/ StartAttempt(w) \/ StoreRaw(w) \/ MarkLoaded(w)
  BY <1>0, <1>1, <1>9 DEF ClaimLock, StartAttempt, StoreRaw, MarkLoaded, TypeOK
<1> QED
  BY <1>2, <1>3, <1>4, <1>5, <1>6, <1>7, <1>8, <1>9 DEF Step, LoadInDoubt

\* Every worker keeps what it knows of the pages still to be loaded.
LEMMA WorkersFresh ==
  ASSUME LoadInv, InDoubtCommit = FALSE, [Next]_vars, NEW u \in Workers
  PROVE  FreshWorker(u)'
<1> DEFINE r == msg[u].run
<1>0. TypeInv /\ TypeOK /\ FreshWorker(u) /\ OwnInv
  BY DEF LoadInv, TicketInv, OwnInv, TypeInv
<1>1. CASE Stays(u)
  <2>1. CASE pc[u] \in {"claim", "claimed"} /\ Ticket(msg[u])'
    <3>1. msg[u] \in Message /\ r \in Runs /\ Busy(u)
      BY <1>0, <2>1, BusyFacts DEF Busy
    <3>2. \A w \in Workers : Writes(w) \/ Load(w) => w # u
      BY <1>0, <1>1
         DEF Stays, Writes, ClaimCommit, SaveProgress, MarkSucceeded, MarkFailed,
             RecordPendingRetry, Load, TypeOK
    <3>3. \A w \in Workers : Writes(w) => msg[w].task # msg[u].task
      BY <1>0, <3>1, <3>2, RowAfter DEF OwnInv, OneCarrier
    <3>4. run'[r] = run[r] /\ Ticket(msg[u])
      BY <1>0, <1>1, <2>1, <3>1, <3>3, MessageKept DEF Ticket, Stays
    <3>5. \A w \in Workers : Load(w) => msg[w].run # r
      BY <1>0, <3>1, <3>2, <3>4, LoaderOwns DEF OwnInv, OneCarrier, Ticket
    <3>6. Exists(r) /\ Unread(r)
      BY <1>0, <2>1, <3>4 DEF FreshWorker, Ticket, Exists
    <3>7. PICK q \in Runs : q = r
      BY <3>1
    <3>8. Unread(q)'
      BY <3>4, <3>5, <3>6, <3>7, UnreadKept
    <3> QED
      BY <1>1, <2>1, <3>7, <3>8 DEF FreshWorker, Stays
  <2>2. CASE Driving(pc[u])
    <3>1. Engaged(u) /\ r \in Runs /\ run[r].status = "RUNNING"
      BY <1>0, <2>2, BusyFacts DEF OwnInv, OwnerOK, Owns, Engaged, Driving
    <3>2. run'[r] = run[r]
      BY <1>0, <1>1, <2>2, OthersUndisturbed DEF Stays
    <3>3. \A w \in Workers : Load(w) => w # u
      BY <1>0, <1>1 DEF Stays, Load, TypeOK
    <3>4. \A w \in Workers : Load(w) => msg[w].run # r
      BY <1>0, <3>1, <3>3, LoaderOwns, Alone
    <3>5. PICK q \in Runs : q = r
      BY <3>1
    <3>6. Unread(q) => Unread(q)'
      BY <3>1, <3>2, <3>4, <3>5, UnreadKept DEF Exists
    <3>7. ASSUME NEW n \in Int, Fresh(q, n) PROVE Fresh(q, n)'
      BY <3>1, <3>4, <3>5, <3>7, FreshKept DEF Exists
    <3>8. ASSUME pc[u] \in {"mark", "save"} PROVE Fresh(q, mem[u].page + 1)'
      <4>1. PICK n \in Int : n = mem[u].page + 1
        BY <1>0, <3>8, SourceAssumption DEF TypeInv, LocalOK, Pages
      <4>2. Fresh(q, n)'
        BY <1>0, <3>5, <3>7, <3>8, <4>1 DEF FreshWorker
      <4> QED
        BY <1>1, <4>1, <4>2 DEF Stays
    <3>9. msg'[u].run = q /\ mem'[u] = mem[u] /\ pc'[u] = pc[u]
      BY <1>1, <3>5 DEF Stays
    <3> QED
      BY <1>0, <2>2, <3>5, <3>6, <3>8, <3>9 DEF FreshWorker, Driving
  <2>3. CASE pc[u] \in {"claim", "claimed"} /\ ~Ticket(msg[u])'
    BY <1>1, <2>3 DEF FreshWorker, Stays, Ticket
  <2> QED
    BY <1>1, <2>1, <2>2, <2>3 DEF FreshWorker, Stays, Driving
<1>2. CASE Step(u)
  BY <1>2, StepFresh
<1>3. CASE pc'[u] = "idle"
  BY <1>3 DEF FreshWorker
<1>4. ASSUME NEW m \in queue, Deliver(u, m) PROVE FreshWorker(u)'
  <2>1. UNCHANGED <<run, loads, lineage>> /\ msg'[u] = m /\ pc'[u] = "claim"
    BY <1>0, <1>4 DEF Deliver, TypeOK, runVars
  <2>2. Ticket(m) => Unread(m.run)
    BY DEF LoadInv
  <2> QED
    BY <2>1, <2>2 DEF FreshWorker, Ticket, Unread, Fresh
<1> QED
  BY <1>0, <1>1, <1>2, <1>3, <1>4, ActsOrStays

\* The cursor and the state of the run that a trigger call continues stay as the
\* call has read them.
LEMMA CallsFresh ==
  ASSUME LoadInv, [Next]_vars, NEW t \in Tasks
  PROVE  FreshCall(t)'
<1> USE DEF runVars, brokerVars, workerVars
<1>0. TypeInv /\ TypeOK /\ FreshCall(t) /\ OwnInv
  BY DEF LoadInv, TicketInv, OwnInv, TypeInv
<1>1. CASE trig'[t] = trig[t]
  <2> SUFFICES ASSUME trig[t].pc = "create", trig[t].from # NoRun
               PROVE  /\ trig[t].from \in Runs
                      /\ run'[trig[t].from] = run[trig[t].from]
    BY <1>0, <1>1 DEF FreshCall, is_continuable
  <2> QED
    BY <1>0, TerminalKept DEF FreshCall, is_continuable, TERMINAL_STATUSES
<1>2. ASSUME NEW c \in Runs, NEW key \in Runs \cup {NoRun}, Continues(t, c, key), run' = run
      PROVE  FreshCall(t)'
  BY <1>0, <1>2 DEF Continues, FreshCall, is_continuable, NoCall, Call, TypeOK
<1>3. ASSUME NEW u \in Tasks, Dispatch(u), u # t PROVE trig'[t] = trig[t]
  BY <1>0, <1>3 DEF Dispatch, RequestRun, ContinueCommand, ContinueView, Continues, Inserts, CreateRun,
                    ReuseRun, Publish, TriggerDies, TypeOK
<1>4. CASE Dispatch(t)
  <2>1. ASSUME NEW pl \in Pipelines, NEW key \in Runs \cup {NoRun}, RequestRun(t, pl, key)
        PROVE  FreshCall(t)'
    BY <1>0, <2>1 DEF RequestRun, FreshCall, NoCall, Call, TypeOK
  <2>2. ASSUME NEW c \in Runs, NEW key \in Runs \cup {NoRun}, ContinueCommand(t, c, key)
        PROVE  FreshCall(t)'
    BY <1>2, <2>2 DEF ContinueCommand
  <2>3. ASSUME trig'[t].pc # "create" PROVE FreshCall(t)'
    BY <2>3 DEF FreshCall
  <2>4. ASSUME NEW c \in Runs, ContinueView(t, c) PROVE FreshCall(t)'
    <3>1. trig'[t].pc = "done" \/ Continues(t, c, NoRun)
      BY <1>0, <2>4 DEF ContinueView, TypeOK, NoCall, Call
    <3> QED
      BY <1>2, <2>3, <2>4, <3>1 DEF ContinueView
  <2>5. ASSUME ReuseRun(t) \/ Publish(t) \/ TriggerDies(t) \/ \E r \in Runs : CreateRun(t, r)
        PROVE  trig'[t].pc # "create"
    BY <1>0, <2>5 DEF ReuseRun, Publish, TriggerDies, Inserts, CreateRun, NoCall, Call, TypeOK
  <2> QED
    BY <1>4, <2>1, <2>2, <2>3, <2>4, <2>5 DEF Dispatch
<1>5. (\E u \in Tasks : Dispatch(u)) \/ trig' = trig
  BY DEF Next, vars, Deliver, Step, Crash, ProcessLost, Redeliver, ClaimRejected, ClaimLock,
         ClaimCommit, StartAttempt, Fetch, StepFails, StoreRaw, Load, LoadInDoubt, MarkLoaded,
         SaveProgress, MarkSucceeded, MarkFailed, RecordPendingRetry, CloseAttempt,
         PublishRetry, Ack
<1> QED
  BY <1>1, <1>3, <1>4, <1>5

\* What CreateRun makes of the new run's lineage.
LEMMA Created ==
  ASSUME LoadInv, NEW t \in Tasks, NEW r \in Runs, CreateRun(t, r)
  PROVE  /\ run[r].status = "NONE" /\ run'[r].status = "PENDING"
         /\ run'[r].cursor = trig[t].cursor
         /\ \A q \in Runs \ {r} : run'[q] = run[q]
         /\ loads' = loads /\ \A p \in DataPages : loads[r][p] = 0
         /\ \/ lineage'[r] = {r}
            \/ /\ trig[t].from \in Runs /\ is_continuable(trig[t].from)
               /\ trig[t].from # r
               /\ trig[t].cursor = run[trig[t].from].cursor
               /\ lineage'[r] = {r} \cup lineage[trig[t].from]
<1>0. TypeInv /\ TypeOK
  BY DEF LoadInv, TicketInv, OwnInv, TypeInv
<1>1. /\ run[r].status = "NONE" /\ run'[r].status = "PENDING"
      /\ run'[r].cursor = trig[t].cursor
      /\ \A q \in Runs \ {r} : run'[q] = run[q]
      /\ loads' = loads
  BY <1>0 DEF Inserts, CreateRun, Exists, SeededRun, TypeOK
<1>2. \A p \in DataPages : loads[r][p] = 0
  BY <1>1 DEF LoadInv, FreshRow
<1>3. lineage'[r] = {r} \cup (IF trig[t].from = NoRun THEN {} ELSE lineage[trig[t].from])
  BY <1>0 DEF Inserts, CreateRun, TypeOK
<1>4. FreshCall(t) /\ trig[t].pc = "create"
  BY DEF LoadInv, Inserts, CreateRun
<1>5. CASE trig[t].from = NoRun
  BY <1>1, <1>2, <1>3, <1>5
<1>6. CASE trig[t].from # NoRun
  BY <1>1, <1>2, <1>3, <1>4, <1>6 DEF FreshCall, is_continuable
<1> QED
  BY <1>5, <1>6

\* A run that may still be started or continued has its remaining pages unread.
LEMMA RowsFresh ==
  ASSUME LoadInv, InDoubtCommit = FALSE, [Next]_vars, NEW r \in Runs
  PROVE  FreshRow(r)'
<1>0. TypeInv /\ TypeOK /\ FreshRow(r) /\ OwnInv
  BY DEF LoadInv, TicketInv, OwnInv, TypeInv
<1>1. ASSUME NEW t \in Tasks, CreateRun(t, r) PROVE FreshRow(r)'
  <2>1. \A a \in lineage'[r] : a # r => run[a].status = "FAILED" /\ a \in Runs
    <3>1. ASSUME NEW c \in Runs, is_continuable(c), NEW a \in lineage[c]
          PROVE  run[a].status = "FAILED" /\ a \in Runs
      BY <1>0, <3>1 DEF LoadInv, FreshRow, is_continuable, TypeOK
    <3> QED
      BY <1>1, <3>1, Created
  <2>2. Unread(r)'
    <3>1. CASE lineage'[r] = {r}
      BY <1>1, <3>1, Created DEF Unread, Fresh
    <3>2. ASSUME NEW c \in Runs, is_continuable(c), trig[t].cursor = run[c].cursor,
                 lineage'[r] = {r} \cup lineage[c]
          PROVE  Unread(r)'
      <4>1. Unread(c)
        BY <3>2 DEF LoadInv, FreshRow
      <4> QED
        BY <1>1, <3>2, <4>1, Created DEF Unread, Fresh
    <3> QED
      BY <1>1, <3>1, <3>2, Created
  <2> QED
    BY <1>1, <2>1, <2>2, Created DEF FreshRow, is_continuable
<1>2. CASE lineage'[r] = lineage[r] /\ ~\E t \in Tasks : CreateRun(t, r)
  <2>1. \A a \in lineage'[r] : a # r => run'[a].status = "FAILED"
    BY <1>0, <1>2, TerminalKept DEF FreshRow, TypeOK, TERMINAL_STATUSES
  <2>2. ASSUME run[r].status # "RUNNING" PROVE \A w \in Workers : Load(w) => msg[w].run # r
    BY <2>2, LoaderOwns
  <2>3. CASE run'[r] = run[r]
    <3>1. run[r].status = "NONE" => \A p \in DataPages : loads'[r][p] = loads[r][p]
      BY <1>0, <2>2, LoadsChange, LoadEffect
    <3>2. run[r].status = "PENDING" \/ is_continuable(r) => Unread(r)'
      BY <1>0, <2>2, <2>3, UnreadKept DEF FreshRow, is_continuable, Exists
    <3> QED
      BY <1>0, <2>1, <2>3, <3>1, <3>2 DEF FreshRow, is_continuable
  <2>4. ASSUME NEW w \in Workers, Writes(w), msg[w].run = r PROVE FreshRow(r)'
    <3>1. run'[r].status \notin {"NONE", "PENDING"}
      BY <1>0, <2>4, RowAfter DEF TERMINAL_STATUSES
    <3>2. ASSUME is_continuable(r)' PROVE Unread(r)'
      <4>0. run[r] \in RunRecord /\ run[r].status \notin TERMINAL_STATUSES
        BY <1>0, <2>4, WriterEngaged DEF TypeOK
      <4>1. CASE ClaimCommit(w)
        BY <1>0, <2>4, <3>2, <4>0, <4>1 DEF is_continuable, ClaimCommit, TypeOK, RunRecord
      <4>2. CASE SaveProgress(w)
        BY <1>0, <2>4, <3>2, <4>0, <4>2
           DEF is_continuable, SaveProgress, TypeOK, RunRecord, TERMINAL_STATUSES
      <4>3. CASE MarkSucceeded(w)
        BY <1>0, <2>4, <3>2, <4>0, <4>3 DEF is_continuable, MarkSucceeded, TypeOK, RunRecord
      <4>4. CASE RecordPendingRetry(w)
        BY <1>0, <2>4, <3>2, <4>0, <4>4
           DEF is_continuable, RecordPendingRetry, TypeOK, RunRecord, TERMINAL_STATUSES
      <4>5. CASE MarkFailed(w)
        <5>1. /\ pc[w] = "failed" /\ UNCHANGED <<loads, lineage>>
              /\ run'[r].cursor = run[r].cursor /\ run'[r].error = mem[w].error
          BY <1>0, <2>4, <4>0, <4>5 DEF MarkFailed, TypeOK, RunRecord
        <5>2. mem[w].error # "Fatal"
          BY <3>2, <5>1 DEF is_continuable
        <5>3. Unread(r)
          BY <2>4, <5>1, <5>2 DEF LoadInv, FreshWorker
        <5> QED
          BY <5>1, <5>3 DEF Unread, Fresh
      <4> QED
        BY <2>4, <4>1, <4>2, <4>3, <4>4, <4>5 DEF Writes
    <3> QED
      BY <2>1, <3>1, <3>2 DEF FreshRow
  <2> QED
    BY <1>0, <1>2, <2>3, <2>4, RowWriters
<1> QED
  BY <1>0, <1>1, <1>2, LineageChange

\* No step loads a page a second time.
LEMMA LoadsOnce ==
  ASSUME LoadInv, InDoubtCommit = FALSE, [Next]_vars
  PROVE  LoadedOnce'
<1>0. TypeInv /\ TypeOK
  BY DEF LoadInv, TicketInv, OwnInv, TypeInv
<1> SUFFICES ASSUME NEW r \in Runs, NEW p \in DataPages,
                    NEW a \in lineage'[r], NEW b \in lineage'[r]
             PROVE  loads'[a][p] + (IF a = b THEN 0 ELSE loads'[b][p]) <= 1
  BY DEF LoadedOnce
<1>1. ASSUME NEW c \in Runs, NEW d \in lineage[c], NEW e \in lineage[c]
      PROVE  /\ d \in Runs /\ e \in Runs /\ loads[d][p] \in Nat /\ loads[e][p] \in Nat
             /\ loads[d][p] + (IF d = e THEN 0 ELSE loads[e][p]) <= 1
  BY <1>0, <1>1 DEF LoadInv, LoadedOnce, TypeOK
<1>2. ASSUME NEW t \in Tasks, CreateRun(t, r)
      PROVE  loads'[a][p] + (IF a = b THEN 0 ELSE loads'[b][p]) <= 1
  <2>1. loads' = loads /\ loads[r][p] = 0
    BY <1>2, Created
  <2>2. CASE lineage'[r] = {r}
    BY <2>1, <2>2
  <2>3. ASSUME NEW c \in Runs, lineage'[r] = {r} \cup lineage[c]
        PROVE  loads'[a][p] + (IF a = b THEN 0 ELSE loads'[b][p]) <= 1
    <3>1. CASE a \in lineage[c] /\ b \in lineage[c]
      BY <1>1, <2>1, <3>1
    <3>2. CASE a = r /\ b = r
      BY <2>1, <3>2
    <3>3. CASE a = r /\ b \in lineage[c]
      BY <1>1, <2>1, <3>3
    <3>4. CASE a \in lineage[c] /\ b = r
      BY <1>1, <2>1, <3>4
    <3> QED
      BY <2>3, <3>1, <3>2, <3>3, <3>4
  <2> QED
    BY <1>2, <2>2, <2>3, Created
<1>3. ASSUME lineage'[r] = lineage[r], NEW w \in Workers, Load(w)
      PROVE  loads'[a][p] + (IF a = b THEN 0 ELSE loads'[b][p]) <= 1
  <2>1. a \in Runs /\ b \in Runs
    BY <1>1, <1>3
  <2>2. CASE p = mem[w].page /\ msg[w].run \in lineage[r]
    <3>1. r = msg[w].run
      BY <1>3, <2>2, LoadsOwn
    <3>2. Fresh(r, p)
      BY <1>3, <2>2, <3>1 DEF Load, LoadInv, FreshWorker, Unread, ProgressInv, InStep
    <3>3. p >= p
      BY DEF DataPages
    <3>4. loads[a][p] = 0 /\ loads[b][p] = 0
      BY <1>3, <3>2, <3>3 DEF Fresh
    <3> QED
      BY <1>0, <1>3, <2>1, <3>4, LoadEffect
  <2>3. CASE p # mem[w].page \/ msg[w].run \notin lineage[r]
    <3>1. loads'[a][p] = loads[a][p] /\ loads'[b][p] = loads[b][p]
      BY <1>0, <1>3, <2>1, <2>3, LoadEffect
    <3> QED
      BY <1>1, <1>3, <3>1
  <2> QED
    BY <2>2, <2>3
<1>4. CASE lineage'[r] = lineage[r] /\ loads' = loads
  BY <1>1, <1>4
<1> QED
  BY <1>0, <1>2, <1>3, <1>4, LineageChange, LoadsChange

\* If every commit at the destination is confirmed and no worker is cut off in
\* the middle of an attempt, a page is loaded once for a run and all the runs it
\* continues: retries, repeated triggers, continuations and lost messages
\* re-extract nothing that was loaded.
THEOREM PagesLoadedOnce ==
  ASSUME InDoubtCommit = FALSE
  PROVE  Spec /\ [][~Duplicates]_vars /\ [][~AttemptLost]_vars => []LoadedOnce
<1>1. Init => LoadInv
  <2> SUFFICES ASSUME Init PROVE LoadInv
    OBVIOUS
  <2>1. ProgressInv
    BY OwnInit DEF Init, ProgressInv, InStep
  <2>2. LoadedOnce /\ LineageOK
    BY DEF Init, LoadedOnce, LineageOK
  <2>3. \A w \in Workers : FreshWorker(w)
    BY DEF Init, FreshWorker
  <2>4. \A r \in Runs : FreshRow(r)
    BY DEF Init, FreshRow, is_continuable, NoRecord
  <2>5. \A t \in Tasks : FreshCall(t)
    BY DEF Init, FreshCall, Call
  <2> QED
    BY <2>1, <2>2, <2>3, <2>4, <2>5, TicketInit DEF LoadInv, Init
<1>2. LoadInv /\ [Next]_vars /\ [~Duplicates]_vars /\ [~AttemptLost]_vars => LoadInv'
  <2> SUFFICES ASSUME LoadInv, [Next]_vars, [~Duplicates]_vars, [~AttemptLost]_vars
               PROVE  LoadInv'
    OBVIOUS
  <2>1. ProgressInv' /\ TicketInv'
    BY ProgressStep, TicketStep DEF LoadInv
  <2>2. LineageOK'
    BY <2>1, DeliveredGrows DEF LoadInv, TicketInv, OwnInv, Grows
  <2>3. \A m \in queue' : Ticket(m)' => Unread(m.run)'
    BY QueueFresh
  <2> QED
    BY <2>1, <2>2, <2>3, LoadsOnce, WorkersFresh, RowsFresh, CallsFresh DEF LoadInv
<1>3. LoadInv => LoadedOnce
  BY DEF LoadInv
<1> QED
  BY <1>1, <1>2, <1>3, PTL DEF Spec

-----------------------------------------------------------------------------
(* A driver.                                                               *)

\* A process is lost together with its message.
MessageLost == \E w \in Workers : ProcessLost(w)

\* A claim is refused because a row of its join is locked for another run: by a
\* transaction that claims that run, or while that run is inserted.
Starved ==
  \E w \in Workers :
    /\ ClaimRejected(w)
    /\ \/ \E v \in Workers \ {w} :
            /\ pc[v] = "claimed" /\ msg[v].run # msg[w].run
            /\ JoinedRows(msg[w].run) \cap JoinedRows(msg[v].run) # {}
       \/ JoinedRows(msg[w].run) \cap InsertLocks # {}

\* The broker waits for the acknowledgement of every worker that has a message.
AllHeld == \A w \in Workers : pc[w] # "idle" => w \in held

DriverInv == OwnInv /\ AllHeld /\ RunningHasDriver

\* A message leaves the queue when it is delivered.
LEMMA QueueLeft ==
  ASSUME [Next]_vars, NEW m \in queue, m \notin queue'
  PROVE  \E w \in Workers : Deliver(w, m)
<1> USE DEF runVars, brokerVars, workerVars
<1>1. ASSUME NEW w \in Workers, Step(w) PROVE m \in queue'
  BY <1>1 DEF Step, ClaimRejected, ClaimLock, ClaimCommit, StartAttempt, Fetch, StepFails,
              StoreRaw, Load, LoadInDoubt, MarkLoaded, SaveProgress, MarkSucceeded,
              MarkFailed, RecordPendingRetry, CloseAttempt, PublishRetry, Ack
<1>2. ASSUME NEW t \in Tasks, Dispatch(t) PROVE m \in queue'
  BY <1>2 DEF Dispatch, RequestRun, ContinueCommand, ContinueView, Inserts, CreateRun, ReuseRun,
              Publish, TriggerDies
<1>3. ASSUME NEW w \in Workers, NEW n \in queue, Deliver(w, n) PROVE n = m
  BY <1>3 DEF Deliver
<1> QED
  BY <1>1, <1>2, <1>3 DEF Next, vars, Crash, ProcessLost, Redeliver

\* A worker that has the ticket keeps it, uses it, or gives it back to the queue.
LEMMA DriverGoesOn ==
  ASSUME OwnInv, AllHeld, [Next]_vars, [~Duplicates]_vars, [~MessageLost]_vars,
         [~Starved]_vars, NEW w \in Workers, pc[w] \notin {"idle", "close", "ack"},
         Ticket(msg[w]), run'[msg[w].run] = run[msg[w].run]
  PROVE  \/ \E m \in queue' : m.run = msg[w].run /\ m.task = msg[w].task
         \/ msg'[w] = msg[w] /\ pc'[w] \notin {"idle", "close", "ack"}
<1> USE DEF runVars, brokerVars, workerVars
<1>0. TypeInv /\ TypeOK /\ msg[w] \in Message /\ msg[w].run \in Runs
  BY BusyFacts DEF OwnInv, TypeInv
<1>1. CASE Stays(w)
  BY <1>1 DEF Stays
<1>2. ASSUME NEW m \in queue, Deliver(w, m) PROVE FALSE
  BY <1>2 DEF Deliver
<1>3. CASE Crash(w)
  BY <1>3 DEF Crash, AllHeld
<1>4. CASE ProcessLost(w)
  <2>1. pc' # pc
    BY <1>0, <1>4 DEF ProcessLost, Idle, TypeOK
  <2> QED
    BY <1>4, <2>1 DEF MessageLost, vars
<1>5. CASE PublishRetry(w)
  <2> DEFINE m == [msg[w] EXCEPT !.retries = @ + 1]
  <2>1. m \in queue'
    BY <1>5 DEF PublishRetry
  <2>2. m.run = msg[w].run /\ m.task = msg[w].task
    BY <1>0 DEF Message
  <2> QED
    BY <2>1, <2>2
<1>6. CASE ClaimRejected(w)
  <2>1. pc' # pc
    BY <1>0, <1>6 DEF ClaimRejected, TypeOK
  <2>2. ~Starved
    BY <2>1 DEF vars
  <2>3. PICK v \in Workers \ {w} :
          /\ msg[v].run = msg[w].run
          /\ pc[v] \in {"claimed", "start", "store", "save", "succeeded", "failed"}
    <3>1. JoinedRows(msg[w].run) \cap InsertLocks = {}
      BY <1>6, <2>2 DEF Starved
    <3>2. CASE Refused(w)
      BY <1>6, <2>2, <3>2 DEF Refused, Starved, Ticket, TERMINAL_STATUSES, LockedRows
    <3>3. CASE msg[w].run \in StatementLocks(w)
      BY <3>3 DEF StatementLocks
    <3> QED
      BY <1>6, <3>1, <3>2, <3>3 DEF ClaimRejected
  <2>4. msg[v].task = msg[w].task
    BY <2>3 DEF OwnInv, OwnerOK, Owns, Driving, Ticket
  <2>5. Busy(v) /\ Busy(w)
    BY <2>3 DEF Busy
  <2> QED
    BY <2>3, <2>4, <2>5 DEF OwnInv, OneCarrier
<1>7. CASE MarkSucceeded(w)
  BY <1>0, <1>7 DEF MarkSucceeded, TypeOK, RunRecord, Ticket
<1>8. CASE MarkFailed(w)
  BY <1>0, <1>8 DEF MarkFailed, TypeOK, RunRecord, Ticket
<1>9. ASSUME Step(w), ~PublishRetry(w), ~ClaimRejected(w), ~MarkSucceeded(w), ~MarkFailed(w)
      PROVE  msg'[w] = msg[w] /\ pc'[w] \notin {"idle", "close", "ack"}
  BY <1>0, <1>9
     DEF TypeOK, Step, ClaimLock, ClaimCommit, StartAttempt, Fetch, StepFails, StoreRaw, Load,
         LoadInDoubt, MarkLoaded, SaveProgress, RecordPendingRetry, CloseAttempt, Ack
<1> QED
  BY <1>0, <1>1, <1>2, <1>3, <1>4, <1>5, <1>6, <1>7, <1>8, <1>9, ActsOrStays

\* A worker that writes the row of a RUNNING run has its ticket.
LEMMA WriterDrives ==
  ASSUME OwnInv, NEW w \in Workers, Writes(w), run'[msg[w].run].status = "RUNNING"
  PROVE  msg'[w] = msg[w] /\ pc'[w] \notin {"idle", "close", "ack"}
<1>0. TypeOK /\ msg[w].run \in Runs
  BY RowAfter DEF OwnInv, TypeInv
<1>1. MarkSucceeded(w) => run'[msg[w].run].status = "SUCCEEDED"
  BY <1>0 DEF MarkSucceeded, TypeOK, RunRecord
<1>2. MarkFailed(w) => run'[msg[w].run].status = "FAILED"
  BY <1>0 DEF MarkFailed, TypeOK, RunRecord
<1> QED
  BY <1>0, <1>1, <1>2 DEF Writes, ClaimCommit, SaveProgress, RecordPendingRetry, TypeOK

\* A RUNNING run always has something that will move it on: its task is being
\* executed or queued.  Only a process that is lost with its message, a broker
\* that duplicates messages, or a claim refused for a lock that the claim or the
\* INSERT of another run holds can leave it without.
THEOREM RunningRunsAreDriven ==
  Spec /\ [][~Duplicates]_vars /\ [][~MessageLost]_vars /\ [][~Starved]_vars
    => []RunningHasDriver
<1>1. Init => DriverInv
  BY OwnInit DEF Init, DriverInv, AllHeld, RunningHasDriver, NoRecord
<1>2. DriverInv /\ [Next]_vars /\ [~Duplicates]_vars /\ [~MessageLost]_vars
        /\ [~Starved]_vars => DriverInv'
  <2> SUFFICES ASSUME DriverInv, [Next]_vars, [~Duplicates]_vars, [~MessageLost]_vars,
                      [~Starved]_vars
               PROVE  DriverInv'
    OBVIOUS
  <2>0. OwnInv /\ TypeInv /\ TypeOK /\ AllHeld /\ OwnInv'
    BY OwnStep DEF DriverInv, OwnInv, TypeInv
  <2>1. AllHeld'
    <3> USE DEF runVars, brokerVars, workerVars
    <3>1. ASSUME NEW w \in Workers, Redeliver(w) PROVE FALSE
      <4>1. held' # held
        BY <3>1 DEF Redeliver
      <4> QED
        BY <3>1, <4>1 DEF Duplicates, vars
    <3>2. ASSUME NEW w \in Workers, Crash(w) \/ ProcessLost(w) \/ Ack(w) PROVE AllHeld'
      BY <2>0, <3>2 DEF Crash, ProcessLost, Ack, Idle, AllHeld, TypeOK
    <3>3. ASSUME NEW w \in Workers, NEW m \in queue, Deliver(w, m) PROVE AllHeld'
      BY <2>0, <3>3 DEF Deliver, AllHeld, TypeOK
    <3>4. ASSUME NEW t \in Tasks, Dispatch(t) PROVE held' = held /\ pc' = pc
      BY <3>4 DEF Dispatch, RequestRun, ContinueCommand, ContinueView, Inserts, CreateRun, ReuseRun,
                  Publish, TriggerDies
    <3>5. ASSUME NEW w \in Workers, Step(w), ~Ack(w) PROVE AllHeld'
      <4>1. held' = held /\ pc[w] # "idle" /\ \E s : pc' = [pc EXCEPT ![w] = s]
        BY <3>5 DEF Step, ClaimRejected, ClaimLock, ClaimCommit, StartAttempt, Fetch, StepFails,
              StoreRaw, Load, LoadInDoubt, MarkLoaded, SaveProgress, MarkSucceeded,
              MarkFailed, RecordPendingRetry, CloseAttempt, PublishRetry
      <4> QED
        BY <2>0, <4>1 DEF AllHeld, TypeOK
    <3> QED
      BY <2>0, <3>1, <3>2, <3>3, <3>4, <3>5 DEF Next, vars, AllHeld
  <2>2. RunningHasDriver'
    <3> SUFFICES ASSUME NEW r \in Runs, run'[r].status = "RUNNING"
                 PROVE  \/ \E m \in queue' : m.run = r /\ m.task = run'[r].owner
                        \/ \E w \in Workers : /\ msg'[w].run = r /\ msg'[w].task = run'[r].owner
                                              /\ pc'[w] \notin {"idle", "close", "ack"}
      BY DEF RunningHasDriver
    <3>1. ASSUME NEW t \in Tasks, CreateRun(t, r) PROVE FALSE
      BY <2>0, <3>1 DEF Inserts, CreateRun, SeededRun, TypeOK
    <3>2. ASSUME NEW w \in Workers, Writes(w), msg[w].run = r
          PROVE  /\ msg'[w].run = r /\ msg'[w].task = run'[r].owner
                 /\ pc'[w] \notin {"idle", "close", "ack"}
      BY <2>0, <3>2, WriterDrives, RowAfter
    <3>3. ASSUME run'[r] = run[r], NEW w \in Workers, msg[w].run = r,
                 msg[w].task = run[r].owner, pc[w] \notin {"idle", "close", "ack"}
          PROVE  \/ \E m \in queue' : m.run = r /\ m.task = run'[r].owner
                 \/ /\ msg'[w].run = r /\ msg'[w].task = run'[r].owner
                    /\ pc'[w] \notin {"idle", "close", "ack"}
      BY <2>0, <3>3, DriverGoesOn DEF Ticket
    <3>4. ASSUME run'[r] = run[r], NEW m \in queue, m.run = r, m.task = run[r].owner
          PROVE  \/ m \in queue'
                 \/ \E w \in Workers : msg'[w] = m /\ pc'[w] = "claim"
      BY <2>0, <3>4, QueueLeft DEF Deliver, TypeOK
    <3>5. CASE run'[r] = run[r]
      BY <3>3, <3>4, <3>5 DEF DriverInv, RunningHasDriver
    <3> QED
      BY <2>0, <3>1, <3>2, <3>5, RowWriters
  <2> QED
    BY <2>0, <2>1, <2>2 DEF DriverInv
<1>3. DriverInv => RunningHasDriver
  BY DEF DriverInv
<1> QED
  BY <1>1, <1>2, <1>3, PTL DEF Spec
=============================================================================
