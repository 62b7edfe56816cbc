---------------------- MODULE PipelineDeliveryProofs ----------------------
(***************************************************************************)
(* No page is skipped, a run that succeeded is complete, raw payloads come *)
(* before loads, and only the last page is extracted again: proofs that    *)
(* CursorSafe, SucceededComplete, RawBeforeLoad and OnlyLastPageReloaded   *)
(* hold of every execution, whatever fails, crashes, is lost or is         *)
(* delivered twice, because each worker carries the facts along with its   *)
(* position in the source.                                                 *)
(***************************************************************************)
EXTENDS PipelineExecutionProofs

\* The pages at the destination, by run.
Done == [r \in Runs |-> {p \in DataPages : Delivered(r, p)}]

\* Every page before position c is in D.
Before(c, D) == \A p \in DataPages : p < c => p \in D

\* Where a worker is, by its step and its page, given the delivered pages D of
\* its run: everything before the page is delivered; once it has loaded the page,
\* the page is; and when its source is exhausted, everything is.
Position(step, page, D) ==
  /\ step \in {"start", "fetch", "store", "load", "mark", "save"} => Before(page, D)
  /\ step \in {"mark", "save"} /\ page \in DataPages => page \in D
  /\ step = "succeeded" => DataPages \subseteq D

\* A run belongs to its own lineage, which a continuation extends at creation.
LineageOK ==
  \A r \in Runs : r \in lineage[r] /\ (run[r].status = "NONE" => lineage[r] = {r})

\* The cursor a trigger call has read is safe for the run it continues.
SeedSafe ==
  \A t \in Tasks : trig[t].pc = "create" =>
    \/ trig[t].from = NoRun /\ trig[t].cursor = None
    \/ trig[t].from \in Runs /\ Before(trig[t].cursor, Done[trig[t].from])

WorkersSafe ==
  \A w \in Workers : Position(pc[w], mem[w].page, Done[msg[w].run])

RunsSafe ==
  \A r \in Runs : /\ Before(run[r].cursor, Done[r])
                  /\ run[r].status = "SUCCEEDED" => DataPages \subseteq Done[r]

DeliveryInv == TypeInv /\ LineageOK /\ SeedSafe /\ WorkersSafe /\ RunsSafe

\* What is delivered stays delivered: no step removes rows from the
\* destination or takes a run out of a lineage.
Grows ==
  /\ \A r \in Runs : Done[r] \subseteq Done'[r]
  /\ LineageOK'

\* Every step keeps what was delivered.
LEMMA DeliveredGrows == TypeInv /\ TypeInv' /\ LineageOK /\ [Next]_vars => Grows
<1> SUFFICES ASSUME TypeInv, TypeInv', LineageOK, [Next]_vars PROVE Grows
  OBVIOUS
<1> USE DEF TypeInv, runVars, brokerVars, workerVars
<1>1. ASSUME UNCHANGED <<run, loads, lineage>> PROVE Grows
  BY <1>1 DEF Grows, LineageOK, Done, Delivered
<1>2. CASE UNCHANGED vars
  BY <1>1, <1>2 DEF vars
<1>3. ASSUME NEW t \in Tasks, NEW r \in Runs, CreateRun(t, r) PROVE Grows
  <2>1. \A s \in Runs : lineage[s] \subseteq lineage'[s]
    BY <1>3 DEF Inserts, CreateRun, LineageOK, TypeOK, Exists
  <2>2. LineageOK'
    BY <1>3 DEF Inserts, CreateRun, SeededRun, LineageOK, TypeOK
  <2> QED
    BY <1>3, <2>1, <2>2 DEF Grows, Done, Delivered, Inserts, CreateRun
<1>4. ASSUME NEW w \in Workers, ClaimCommit(w) PROVE Grows
  <2>1. msg[w].run \in Runs /\ run[msg[w].run] \in RunRecord
    BY <1>4, MessageFacts DEF TypeOK, LocalOK, ClaimCommit
  <2>2. \A s \in Runs : run'[s].status = "NONE" => run[s].status = "NONE"
    BY <1>4, <2>1 DEF TypeOK, RunRecord, ClaimCommit
  <2> QED
    BY <1>4, <2>2 DEF Grows, LineageOK, Done, Delivered, ClaimCommit
<1>5. ASSUME NEW w \in Workers, Load(w) PROVE Grows
  <2>1. msg[w].run \in Runs
    BY <1>5, MessageFacts DEF TypeOK, LocalOK, Load
  <2>2. \A s \in Runs, p \in DataPages : loads'[s][p] >= loads[s][p]
    BY <1>5, <2>1 DEF TypeOK, Load, Committed, HasRecords
  <2>3. \A s \in Runs : lineage[s] \subseteq Runs
    BY DEF TypeOK
  <2> QED
    BY <1>5, <2>2, <2>3 DEF Grows, LineageOK, Done, Delivered, TypeOK, Load
<1>6. ASSUME NEW w \in Workers, LoadInDoubt(w) PROVE Grows
  <2>1. msg[w].run \in Runs
    BY <1>6, MessageFacts DEF TypeOK, LocalOK, LoadInDoubt
  <2>2. \A s \in Runs, p \in DataPages : loads'[s][p] >= loads[s][p]
    BY <1>6, <2>1 DEF TypeOK, LoadInDoubt, Committed, HasRecords
  <2>3. \A s \in Runs : lineage[s] \subseteq Runs
    BY DEF TypeOK
  <2> QED
    BY <1>6, <2>2, <2>3 DEF Grows, LineageOK, Done, Delivered, TypeOK, LoadInDoubt
<1>7. ASSUME NEW w \in Workers, SaveProgress(w) PROVE Grows
  <2>1. msg[w].run \in Runs /\ run[msg[w].run] \in RunRecord
    BY <1>7, MessageFacts DEF TypeOK, LocalOK, SaveProgress
  <2>2. \A s \in Runs : run'[s].status = "NONE" => run[s].status = "NONE"
    BY <1>7, <2>1 DEF TypeOK, RunRecord, SaveProgress
  <2> QED
    BY <1>7, <2>2 DEF Grows, LineageOK, Done, Delivered, SaveProgress
<1>8. ASSUME NEW w \in Workers, MarkSucceeded(w) PROVE Grows
  <2>1. msg[w].run \in Runs /\ run[msg[w].run] \in RunRecord
    BY <1>8, MessageFacts DEF TypeOK, LocalOK, MarkSucceeded
  <2>2. \A s \in Runs : run'[s].status = "NONE" => run[s].status = "NONE"
    BY <1>8, <2>1 DEF TypeOK, RunRecord, MarkSucceeded
  <2> QED
    BY <1>8, <2>2 DEF Grows, LineageOK, Done, Delivered, MarkSucceeded
<1>9. ASSUME NEW w \in Workers, MarkFailed(w) PROVE Grows
  <2>1. msg[w].run \in Runs /\ run[msg[w].run] \in RunRecord
    BY <1>9, MessageFacts DEF TypeOK, LocalOK, MarkFailed
  <2>2. \A s \in Runs : run'[s].status = "NONE" => run[s].status = "NONE"
    BY <1>9, <2>1 DEF TypeOK, RunRecord, MarkFailed
  <2> QED
    BY <1>9, <2>2 DEF Grows, LineageOK, Done, Delivered, MarkFailed
<1>10. ASSUME NEW w \in Workers, RecordPendingRetry(w) PROVE Grows
  <2>1. msg[w].run \in Runs /\ run[msg[w].run] \in RunRecord
    BY <1>10, MessageFacts DEF TypeOK, LocalOK, RecordPendingRetry
  <2>2. \A s \in Runs : run'[s].status = "NONE" => run[s].status = "NONE"
    BY <1>10, <2>1 DEF TypeOK, RunRecord, RecordPendingRetry
  <2> QED
    BY <1>10, <2>2 DEF Grows, LineageOK, Done, Delivered, RecordPendingRetry
<1> QED
  BY <1>1, <1>2, <1>3, <1>4, <1>5, <1>6, <1>7, <1>8, <1>9, <1>10
     DEF Next, Dispatch, Step, RequestRun, ContinueCommand, ContinueView, ReuseRun, Publish, TriggerDies, Deliver, Crash, ProcessLost, Redeliver, ClaimRejected, ClaimLock, StartAttempt, Fetch, StepFails, StoreRaw, MarkLoaded, CloseAttempt, PublishRetry, Ack, Idle

\* Delivering more keeps the pages before a cursor delivered,
LEMMA BeforeGrows ==
  ASSUME NEW c, NEW D, NEW E, D \subseteq E, Before(c, D)
  PROVE  Before(c, E)
BY DEF Before

\* and a worker's position justified.
LEMMA PositionGrows ==
  ASSUME NEW step, NEW page, NEW D, NEW E, D \subseteq E, Position(step, page, D)
  PROVE  Position(step, page, E)
BY DEF Position, Before

\* Before the first page there is nothing to deliver.
LEMMA NothingBefore ==
  ASSUME NEW D PROVE Before(None, D)
BY SourceAssumption DEF Before, None, DataPages

\* A worker that a step does not concern keeps its position.
LEMMA OthersKeepPosition ==
  ASSUME TypeInv, Grows, WorkersSafe, NEW u \in Workers,
         pc'[u] = pc[u], mem'[u] = mem[u], msg'[u] = msg[u]
  PROVE  Position(pc'[u], mem'[u].page, Done'[msg'[u].run])
<1>1. CASE pc[u] = "idle"
  BY <1>1 DEF Position
<1>2. CASE pc[u] # "idle"
  <2>1. msg[u].run \in Runs
    BY <1>2, MessageFacts DEF TypeInv, LocalOK
  <2> QED
    BY <2>1, PositionGrows DEF Grows, WorkersSafe
<1> QED
  BY <1>1, <1>2

\* The initial states: nothing has a position yet.
LEMMA DeliveryInit == Init => DeliveryInv
<1> SUFFICES ASSUME Init PROVE DeliveryInv
  OBVIOUS
<1>1. TypeInv
  BY TypeInit
<1>2. LineageOK /\ SeedSafe
  BY DEF Init, LineageOK, SeedSafe, Call
<1>3. WorkersSafe
  BY DEF Init, WorkersSafe, Position
<1>4. RunsSafe
  BY NothingBefore DEF Init, RunsSafe, NoRecord
<1> QED
  BY <1>1, <1>2, <1>3, <1>4 DEF DeliveryInv

\* A continuation's seed is the cursor of a run whose pages are delivered.
LEMMA SeedStep ==
  ASSUME DeliveryInv, Grows, [Next]_vars
  PROVE  SeedSafe'
<1> USE DEF DeliveryInv, TypeInv, runVars, brokerVars, workerVars
<1>1. ASSUME NEW t \in Tasks, trig'[t] = trig[t]
      PROVE  trig'[t].pc = "create" =>
               \/ trig'[t].from = NoRun /\ trig'[t].cursor = None
               \/ trig'[t].from \in Runs /\ Before(trig'[t].cursor, Done'[trig'[t].from])
  BY <1>1, BeforeGrows DEF SeedSafe, Grows
<1>2. CASE UNCHANGED trig
  BY <1>1, <1>2 DEF SeedSafe
<1>3. ASSUME NEW t \in Tasks, \A u \in Tasks \ {t} : trig'[u] = trig[u],
             trig'[t].pc = "create" =>
               \/ trig'[t].from = NoRun /\ trig'[t].cursor = None
               \/ trig'[t].from \in Runs /\ Before(trig'[t].cursor, Done[trig'[t].from])
      PROVE  SeedSafe'
  BY <1>1, <1>3, BeforeGrows DEF SeedSafe, Grows
<1>4. ASSUME NEW t \in Tasks, NEW step, NEW key, NEW pl,
             trig' = [trig EXCEPT ![t] = Call(step, key, pl)]
      PROVE  SeedSafe'
  <2>1. trig'[t].from = NoRun /\ trig'[t].cursor = None
    BY <1>4 DEF TypeOK, Call
  <2> QED
    BY <1>3, <1>4, <2>1 DEF TypeOK
<1>5. ASSUME NEW t \in Tasks, NEW c \in Runs, NEW key, Continues(t, c, key)
      PROVE  SeedSafe'
  <2>1. CASE trig' = [trig EXCEPT ![t] = NoCall]
    BY <1>4, <2>1 DEF NoCall
  <2>2. CASE trig' = [trig EXCEPT ![t] =
                 [pc |-> "create", key |-> key, pipeline |-> run[c].pipeline,
                  from |-> c, cursor |-> run[c].cursor, pages |-> run[c].pages]]
    <3>1. trig'[t].from = c /\ trig'[t].cursor = run[c].cursor
      BY <2>2 DEF TypeOK
    <3> QED
      BY <1>3, <2>2, <3>1 DEF TypeOK, RunsSafe
  <2> QED
    BY <1>5, <2>1, <2>2 DEF Continues
<1>6. ASSUME NEW t \in Tasks, Dispatch(t) PROVE SeedSafe'
  <2>1. ASSUME NEW pl \in Pipelines, NEW key \in Runs \cup {NoRun}, RequestRun(t, pl, key)
        PROVE  SeedSafe'
    BY <1>4, <2>1 DEF RequestRun, NoCall
  <2>2. ASSUME NEW c \in Runs, NEW key \in Runs \cup {NoRun}, ContinueCommand(t, c, key)
        PROVE  SeedSafe'
    BY <1>5, <2>2 DEF ContinueCommand
  <2>3. ASSUME NEW c \in Runs, ContinueView(t, c) PROVE SeedSafe'
    BY <1>4, <1>5, <2>3 DEF ContinueView, NoCall
  <2>4. ASSUME NEW r \in Runs, CreateRun(t, r) PROVE SeedSafe'
    BY <1>4, <2>4 DEF Inserts, CreateRun
  <2>5. CASE ReuseRun(t)
    BY <1>4, <2>5 DEF ReuseRun, NoCall
  <2>6. CASE Publish(t) \/ TriggerDies(t)
    BY <1>4, <2>6 DEF Publish, TriggerDies, NoCall
  <2> QED
    BY <1>6, <2>1, <2>2, <2>3, <2>4, <2>5, <2>6 DEF Dispatch
<1> QED
  BY <1>2, <1>6 DEF Next, vars, Step, Deliver, Crash, ProcessLost, Redeliver,
     ClaimRejected, ClaimLock, ClaimCommit, StartAttempt, Fetch, StepFails, StoreRaw,
     Load, LoadInDoubt, MarkLoaded, SaveProgress, MarkSucceeded, MarkFailed,
     RecordPendingRetry, CloseAttempt, PublishRetry, Ack

\* A cursor is saved by the worker that has delivered the page before it, or is
\* a seed.
LEMMA RunsStep ==
  ASSUME DeliveryInv, Grows, [Next]_vars
  PROVE  RunsSafe'
<1> USE DEF DeliveryInv, TypeInv, runVars, brokerVars, workerVars
<1>1. CASE UNCHANGED run
  BY <1>1, BeforeGrows DEF RunsSafe, Grows
<1>2. ASSUME NEW r \in Runs, \A s \in Runs \ {r} : run'[s] = run[s],
             Before(run'[r].cursor, Done'[r]),
             run'[r].status = "SUCCEEDED" => DataPages \subseteq Done'[r]
      PROVE  RunsSafe'
  BY <1>2, BeforeGrows DEF RunsSafe, Grows
<1>3. ASSUME NEW r \in Runs, \A s \in Runs \ {r} : run'[s] = run[s],
             run'[r].cursor = run[r].cursor, run'[r].status \in {"RUNNING", "FAILED"} \cup {run[r].status}
      PROVE  RunsSafe'
  BY <1>2, <1>3, BeforeGrows DEF RunsSafe, Grows
<1>4. ASSUME NEW t \in Tasks, NEW r \in Runs, CreateRun(t, r) PROVE RunsSafe'
  <2>1. /\ run'[r].status = "PENDING" /\ run'[r].cursor = trig[t].cursor
        /\ \A s \in Runs \ {r} : run'[s] = run[s]
    BY <1>4 DEF Inserts, CreateRun, SeededRun, TypeOK
  <2>2. Before(trig[t].cursor, Done'[r])
    <3>1. CASE trig[t].from = NoRun
      BY <1>4, <3>1, NothingBefore, ExecutionAssumption DEF SeedSafe, Inserts, CreateRun
    <3>2. CASE trig[t].from # NoRun
      <4>1. trig[t].from \in Runs /\ Before(trig[t].cursor, Done[trig[t].from])
        BY <1>4, <3>2 DEF SeedSafe, Inserts, CreateRun
      <4>2. lineage[trig[t].from] \subseteq lineage'[r] /\ loads' = loads
        BY <1>4, <3>2 DEF Inserts, CreateRun, TypeOK
      <4>3. Done[trig[t].from] \subseteq Done'[r]
        BY <4>1, <4>2 DEF Done, Delivered
      <4> QED
        BY <4>1, <4>3, BeforeGrows
    <3> QED
      BY <3>1, <3>2
  <2> QED
    BY <1>2, <2>1, <2>2
<1>5. ASSUME NEW w \in Workers, ClaimCommit(w) PROVE RunsSafe'
  <2>1. msg[w].run \in Runs /\ run[msg[w].run] \in RunRecord
    BY <1>5, MessageFacts DEF TypeOK, LocalOK, ClaimCommit
  <2>2. /\ \A s \in Runs \ {msg[w].run} : run'[s] = run[s]
        /\ run'[msg[w].run].cursor = run[msg[w].run].cursor
        /\ run'[msg[w].run].status = "RUNNING"
    BY <1>5, <2>1 DEF TypeOK, RunRecord, ClaimCommit
  <2> QED
    BY <1>3, <2>1, <2>2
<1>6. ASSUME NEW w \in Workers, SaveProgress(w) PROVE RunsSafe'
  <2>1. msg[w].run \in Runs /\ run[msg[w].run] \in RunRecord
    BY <1>6, MessageFacts DEF TypeOK, LocalOK, SaveProgress
  <2>2. /\ \A s \in Runs \ {msg[w].run} : run'[s] = run[s]
        /\ run'[msg[w].run].cursor = ResumePoint(w)
        /\ run'[msg[w].run].status = run[msg[w].run].status
    BY <1>6, <2>1 DEF TypeOK, RunRecord, SaveProgress
  <2>3. /\ mem[w].page \in Pages /\ mem[w].next = NextCursor(mem[w].page)
        /\ Position("save", mem[w].page, Done[msg[w].run])
    BY <1>6 DEF LocalOK, SaveProgress, WorkersSafe
  <2>4. Before(ResumePoint(w), Done[msg[w].run])
    <3>1. CASE mem[w].next = None
      BY <2>3, <3>1 DEF ResumePoint, Position
    <3>2. CASE mem[w].next # None
      <4>1. ResumePoint(w) = mem[w].page + 1
        BY <2>3, <3>2, CursorTypes DEF ResumePoint
      <4> QED
        BY <2>3, <4>1, SourceAssumption DEF Position, Before, DataPages, Pages
    <3> QED
      BY <3>1, <3>2
  <2> QED
    BY <1>2, <2>1, <2>2, <2>4, BeforeGrows DEF Grows, RunsSafe
<1>7. ASSUME NEW w \in Workers, MarkSucceeded(w) PROVE RunsSafe'
  <2>1. msg[w].run \in Runs /\ run[msg[w].run] \in RunRecord
    BY <1>7, MessageFacts DEF TypeOK, LocalOK, MarkSucceeded
  <2>2. /\ \A s \in Runs \ {msg[w].run} : run'[s] = run[s]
        /\ run'[msg[w].run].cursor = run[msg[w].run].cursor
    BY <1>7, <2>1 DEF TypeOK, RunRecord, MarkSucceeded
  <2>3. DataPages \subseteq Done[msg[w].run]
    BY <1>7 DEF MarkSucceeded, WorkersSafe, Position
  <2> QED
    BY <1>2, <2>1, <2>2, <2>3, BeforeGrows DEF Grows, RunsSafe
<1>8. ASSUME NEW w \in Workers, MarkFailed(w) \/ RecordPendingRetry(w) PROVE RunsSafe'
  <2>1. msg[w].run \in Runs /\ run[msg[w].run] \in RunRecord
    BY <1>8, MessageFacts DEF TypeOK, LocalOK, MarkFailed, RecordPendingRetry
  <2>2. /\ \A s \in Runs \ {msg[w].run} : run'[s] = run[s]
        /\ run'[msg[w].run].cursor = run[msg[w].run].cursor
        /\ run'[msg[w].run].status \in {"FAILED", run[msg[w].run].status}
    <3>1. CASE MarkFailed(w)
      BY <2>1, <3>1 DEF TypeOK, RunRecord, MarkFailed
    <3>2. CASE RecordPendingRetry(w)
      BY <2>1, <3>2 DEF TypeOK, RunRecord, RecordPendingRetry
    <3> QED
      BY <1>8, <3>1, <3>2
  <2> QED
    BY <1>3, <2>1, <2>2
<1> QED
  BY <1>1, <1>4, <1>5, <1>6, <1>7, <1>8
     DEF Next, vars, Dispatch, Step, RequestRun, ContinueCommand, ContinueView,
     ReuseRun, Publish, TriggerDies, Deliver, Crash, ProcessLost, Redeliver,
     ClaimRejected, ClaimLock, StartAttempt, Fetch, StepFails, StoreRaw, Load,
     LoadInDoubt, MarkLoaded, CloseAttempt, PublishRetry, Ack

\* A worker starts at a run's cursor and moves past a page only when it is
\* loaded.
LEMMA WorkersStep ==
  ASSUME DeliveryInv, TypeInv', Grows, [Next]_vars
  PROVE  WorkersSafe'
<1> USE DEF DeliveryInv, TypeInv, runVars, brokerVars, workerVars
<1>1. CASE UNCHANGED workerVars
  BY <1>1, OthersKeepPosition DEF WorkersSafe
<1>2. ASSUME NEW w \in Workers,
             \A u \in Workers \ {w} : pc'[u] = pc[u] /\ mem'[u] = mem[u] /\ msg'[u] = msg[u],
             Position(pc'[w], mem'[w].page, Done'[msg'[w].run])
      PROVE  WorkersSafe'
  BY <1>2, OthersKeepPosition DEF WorkersSafe
\* Steps after which nothing is asked of the worker's position.
<1>3. ASSUME NEW w \in Workers,
             \A u \in Workers \ {w} : pc'[u] = pc[u] /\ mem'[u] = mem[u] /\ msg'[u] = msg[u],
             pc'[w] \in {"idle", "claim", "claimed", "failed", "close", "retry", "ack"}
      PROVE  WorkersSafe'
  BY <1>2, <1>3 DEF Position
<1>4. ASSUME NEW w \in Workers, NEW m \in queue, Deliver(w, m) PROVE WorkersSafe'
  BY <1>3, <1>4 DEF Deliver, TypeOK
<1>5. ASSUME NEW w \in Workers, Crash(w) \/ ProcessLost(w) \/ Ack(w) PROVE WorkersSafe'
  BY <1>3, <1>5 DEF Crash, ProcessLost, Ack, Idle, TypeOK
<1>6. ASSUME NEW w \in Workers, ClaimRejected(w) \/ ClaimLock(w) PROVE WorkersSafe'
  BY <1>3, <1>6 DEF ClaimRejected, ClaimLock, TypeOK
<1>7. ASSUME NEW w \in Workers, NEW e \in {"Retryable", "Fatal"}, StepFails(w, e)
      PROVE  WorkersSafe'
  BY <1>3, <1>7 DEF StepFails, TypeOK
<1>8. ASSUME NEW w \in Workers, LoadInDoubt(w) PROVE WorkersSafe'
  BY <1>3, <1>8 DEF LoadInDoubt, TypeOK
<1>9. ASSUME NEW w \in Workers,
             MarkSucceeded(w) \/ MarkFailed(w) \/ RecordPendingRetry(w)
               \/ CloseAttempt(w) \/ PublishRetry(w)
      PROVE  WorkersSafe'
  BY <1>3, <1>9 DEF MarkSucceeded, MarkFailed, RecordPendingRetry, CloseAttempt,
     PublishRetry, TypeOK
\* Steps that move the worker on.
<1>10. ASSUME NEW w \in Workers, ClaimCommit(w) PROVE WorkersSafe'
  <2>1. msg[w].run \in Runs /\ run[msg[w].run] \in RunRecord
    BY <1>10, MessageFacts DEF TypeOK, LocalOK, ClaimCommit
  <2>2. /\ \A u \in Workers \ {w} : pc'[u] = pc[u] /\ mem'[u] = mem[u] /\ msg'[u] = msg[u]
        /\ pc'[w] = "start" /\ msg'[w] = msg[w]
        /\ mem'[w].page = FirstPage(run[msg[w].run].cursor)
    BY <1>10 DEF ClaimCommit, ResumeState, TypeOK
  <2>3. Before(FirstPage(run[msg[w].run].cursor), Done[msg[w].run])
    BY <2>1, SourceAssumption DEF RunsSafe, Before, FirstPage, DataPages, None
  <2> QED
    BY <1>2, <2>1, <2>2, <2>3, BeforeGrows DEF Position, Grows
<1>11. ASSUME NEW w \in Workers, StartAttempt(w) \/ StoreRaw(w) \/ MarkLoaded(w)
       PROVE  WorkersSafe'
  <2>1. msg[w].run \in Runs
    BY <1>11, MessageFacts DEF TypeOK, LocalOK, StartAttempt, StoreRaw, MarkLoaded
  <2>2. /\ \A u \in Workers \ {w} : pc'[u] = pc[u] /\ mem'[u] = mem[u] /\ msg'[u] = msg[u]
        /\ mem'[w] = mem[w] /\ msg'[w] = msg[w]
        /\ \/ pc[w] = "start" /\ pc'[w] = "fetch"
           \/ pc[w] = "store" /\ pc'[w] = "load"
           \/ pc[w] = "mark" /\ pc'[w] = "save"
    BY <1>11 DEF StartAttempt, StoreRaw, MarkLoaded, TypeOK
  <2>3. Position(pc'[w], mem[w].page, Done[msg[w].run])
    BY <2>2 DEF WorkersSafe, Position
  <2> QED
    BY <1>2, <2>1, <2>2, <2>3, PositionGrows DEF Grows
<1>12. ASSUME NEW w \in Workers, NEW v \in Versions, Fetch(w, v) PROVE WorkersSafe'
  <2>1. /\ msg[w].run \in Runs /\ mem[w] \in Memory /\ mem[w].page \in Pages
        /\ Before(mem[w].page, Done[msg[w].run])
    BY <1>12, MessageFacts DEF TypeOK, LocalOK, Fetch, WorkersSafe, Position
  <2>2. \A u \in Workers \ {w} : pc'[u] = pc[u] /\ mem'[u] = mem[u] /\ msg'[u] = msg[u]
    BY <1>12 DEF Fetch, TypeOK
  <2>3. CASE Yields(mem[w].page)
    <3>1. /\ pc'[w] = "store" /\ msg'[w] = msg[w]
          /\ mem'[w] = [mem[w] EXCEPT !.next = NextCursor(mem[w].page), !.version = v,
                                      !.seq = mem[w].seq + 1]
      BY <1>12, <2>3 DEF Fetch, TypeOK
    <3>2. mem'[w].page = mem[w].page
      BY <2>1, <3>1 DEF Memory
    <3> QED
      BY <1>2, <2>1, <2>2, <3>1, <3>2, BeforeGrows DEF Position, Grows
  <2>4. CASE ~Yields(mem[w].page)
    <3>1. pc'[w] = "succeeded" /\ msg'[w] = msg[w]
      BY <1>12, <2>4 DEF Fetch, TypeOK
    <3>2. DataPages \subseteq Done[msg[w].run]
      BY <2>1, <2>4, SourceAssumption DEF Yields, HasRecords, Before, DataPages, Pages
    <3> QED
      BY <1>2, <2>1, <2>2, <3>1, <3>2 DEF Position, Grows
  <2> QED
    BY <2>3, <2>4
<1>13. ASSUME NEW w \in Workers, Load(w) PROVE WorkersSafe'
  <2>1. msg[w].run \in Runs /\ Before(mem[w].page, Done[msg[w].run])
    BY <1>13, MessageFacts DEF TypeOK, LocalOK, Load, WorkersSafe, Position
  <2>2. /\ \A u \in Workers \ {w} : pc'[u] = pc[u] /\ mem'[u] = mem[u] /\ msg'[u] = msg[u]
        /\ pc'[w] = "mark" /\ mem'[w] = mem[w] /\ msg'[w] = msg[w]
    BY <1>13 DEF Load, TypeOK
  <2>3. mem[w].page \in DataPages => mem[w].page \in Done'[msg[w].run]
    <3>1. mem[w].page \in DataPages => loads'[msg[w].run][mem[w].page] >= 1
      BY <1>13, <2>1 DEF Load, Committed, HasRecords, TypeOK
    <3>2. msg[w].run \in lineage'[msg[w].run]
      BY <1>13, <2>1 DEF Load, LineageOK
    <3> QED
      BY <2>1, <3>1, <3>2 DEF Done, Delivered
  <2> QED
    BY <1>2, <2>1, <2>2, <2>3, BeforeGrows DEF Position, Grows
<1>14. ASSUME NEW w \in Workers, SaveProgress(w) PROVE WorkersSafe'
  <2>1. /\ msg[w].run \in Runs /\ mem[w] \in Memory /\ mem[w].page \in Pages
        /\ mem[w].next = NextCursor(mem[w].page)
        /\ Position("save", mem[w].page, Done[msg[w].run])
    BY <1>14, MessageFacts DEF TypeOK, LocalOK, SaveProgress, WorkersSafe
  <2>2. \A u \in Workers \ {w} : pc'[u] = pc[u] /\ mem'[u] = mem[u] /\ msg'[u] = msg[u]
    BY <1>14 DEF SaveProgress, TypeOK
  <2>3. CASE AfterYield(mem[w].next, mem[w].yielded + 1) = "done"
    <3>1. pc'[w] = "succeeded" /\ msg'[w] = msg[w]
      BY <1>14, <2>3 DEF SaveProgress, TypeOK
    <3>2. mem[w].page >= LastPage
      BY <2>1, <2>3, CursorTypes DEF AfterYield
    <3>3. DataPages \subseteq Done[msg[w].run]
      BY <2>1, <3>2, SourceAssumption DEF Position, Before, DataPages, Pages
    <3> QED
      BY <1>2, <2>1, <2>2, <3>1, <3>3 DEF Position, Grows
  <2>4. CASE AfterYield(mem[w].next, mem[w].yielded + 1) = "limit"
    <3>1. pc'[w] = "failed"
      BY <1>14, <2>4 DEF SaveProgress, TypeOK
    <3> QED
      BY <1>3, <2>2, <3>1
  <2>5. CASE AfterYield(mem[w].next, mem[w].yielded + 1) = "more"
    <3>1. /\ pc'[w] = "fetch" /\ msg'[w] = msg[w]
          /\ mem'[w] = [mem[w] EXCEPT !.page = mem[w].page + 1, !.yielded = mem[w].yielded + 1]
      BY <1>14, <2>5 DEF SaveProgress, TypeOK
    <3>2. mem'[w].page = mem[w].page + 1
      BY <2>1, <3>1 DEF Memory
    <3>3. Before(mem[w].page + 1, Done[msg[w].run])
      BY <2>1, SourceAssumption DEF Position, Before, DataPages, Pages
    <3>4. Before(mem[w].page + 1, Done'[msg[w].run])
      BY <2>1, <3>3, BeforeGrows DEF Grows
    <3>5. Position(pc'[w], mem'[w].page, Done'[msg'[w].run])
      BY <3>1, <3>2, <3>4 DEF Position
    <3> QED
      BY <1>2, <2>2, <3>5
  <2> QED
    BY <1>14, <2>3, <2>4, <2>5 DEF SaveProgress
<1> QED
  BY <1>1, <1>4, <1>5, <1>6, <1>7, <1>8, <1>9, <1>10, <1>11, <1>12, <1>13, <1>14
     DEF Next, vars, Dispatch, Step, RequestRun, ContinueCommand, ContinueView,
     Inserts, CreateRun, ReuseRun, Publish, TriggerDies, Redeliver

\* Together: every step keeps the invariant.
LEMMA DeliveryStep == DeliveryInv /\ [Next]_vars => DeliveryInv'
<1> SUFFICES ASSUME DeliveryInv, [Next]_vars PROVE DeliveryInv'
  OBVIOUS
<1>1. TypeInv'
  BY TypeStep DEF DeliveryInv
<1>2. Grows
  BY <1>1, DeliveredGrows DEF DeliveryInv
<1> QED
  BY <1>1, <1>2, SeedStep, RunsStep, WorkersStep DEF DeliveryInv, Grows

\* The invariant holds in every reachable state.
LEMMA DeliveryInvariant == Spec => []DeliveryInv
BY DeliveryInit, DeliveryStep, PTL DEF Spec

\* No page is skipped: in every execution, every page before the cursor from
\* which a retry, a redelivery or a continuation resumes has been loaded, for
\* the run or for one it continues (_extract_and_load saves the cursor last).
THEOREM NoPageSkipped == Spec => []CursorSafe
<1>1. DeliveryInv => CursorSafe
  BY DEF DeliveryInv, RunsSafe, Before, CursorSafe, Done
<1> QED
  BY <1>1, DeliveryInvariant, PTL

\* A run is SUCCEEDED only if every page of the source was loaded for it or for
\* a run it continues: fetch() ends only on the last page, and a page limit is a
\* failure.
THEOREM SuccessIsComplete == Spec => []SucceededComplete
<1>1. DeliveryInv => SucceededComplete
  BY DEF DeliveryInv, RunsSafe, SucceededComplete, Done
<1> QED
  BY <1>1, DeliveryInvariant, PTL

-----------------------------------------------------------------------------
(* The raw payload comes first.                                            *)

\* What a worker has recorded and loaded, by its step.
RawWorker(w) ==
  /\ pc[w] \in {"load", "mark"} => RawRow(w) \in raw
  /\ pc[w] = "mark" /\ HasRecords(mem[w].page) => loads[msg[w].run][mem[w].page] >= 1

RawInv == TypeInv /\ RawBeforeLoad /\ \A w \in Workers : RawWorker(w)

\* A page arrives at the destination by a load, confirmed or in doubt.
LEMMA LoadSource ==
  ASSUME TypeInv, [Next]_vars, NEW r \in Runs, NEW p \in DataPages
  PROVE  /\ loads[r][p] >= 1 => loads'[r][p] >= 1
         /\ \/ loads'[r][p] = loads[r][p]
            \/ \E w \in Workers : pc[w] = "load" /\ msg[w].run = r /\ mem[w].page = p
<1> USE DEF runVars
<1>1. loads' = loads \/ \E w \in Workers : pc[w] = "load" /\ Committed(w)
  BY DEF Next, vars, Dispatch, RequestRun, ContinueCommand, ContinueView, Inserts, CreateRun, ReuseRun,
         Publish, TriggerDies, Deliver, Step, Crash, ProcessLost, Redeliver, ClaimRejected,
         ClaimLock, ClaimCommit, StartAttempt, Fetch, StepFails, StoreRaw, Load, LoadInDoubt,
         MarkLoaded, SaveProgress, MarkSucceeded, MarkFailed, RecordPendingRetry,
         CloseAttempt, PublishRetry, Ack
<1>2. loads \in [Runs -> [DataPages -> Nat]] /\ loads[r][p] \in Nat
  BY DEF TypeInv, TypeOK
<1>3. ASSUME NEW w \in Workers, pc[w] = "load", Committed(w)
      PROVE  \/ loads'[r][p] = loads[r][p]
             \/ loads'[r][p] = loads[r][p] + 1 /\ (msg[w].run = r /\ mem[w].page = p)
  <2>1. msg[w].run \in Runs
    BY <1>3, BusyFacts
  <2> QED
    BY <1>2, <1>3, <2>1 DEF Committed, HasRecords
<1> QED
  BY <1>1, <1>2, <1>3

\* The raw payload table only grows, and a payload is marked by MarkLoaded.
LEMMA RawSource ==
  ASSUME [Next]_vars
  PROVE  /\ raw \subseteq raw' /\ rawLoaded \subseteq rawLoaded'
         /\ \A x \in rawLoaded' : x \in rawLoaded \/ \E w \in Workers : MarkLoaded(w) /\ x = RawRow(w)
<1> USE DEF runVars
<1>1. raw \subseteq raw'
  BY DEF Next, vars, Dispatch, RequestRun, ContinueCommand, ContinueView, Inserts, CreateRun, ReuseRun,
         Publish, TriggerDies, Deliver, Step, Crash, ProcessLost, Redeliver, ClaimRejected,
         ClaimLock, ClaimCommit, StartAttempt, Fetch, StepFails, StoreRaw, Stored, Load,
         LoadInDoubt, MarkLoaded, SaveProgress, MarkSucceeded, MarkFailed,
         RecordPendingRetry, CloseAttempt, PublishRetry, Ack
<1>2. rawLoaded' = rawLoaded \/ \E w \in Workers : MarkLoaded(w)
  BY DEF Next, vars, Dispatch, RequestRun, ContinueCommand, ContinueView, Inserts, CreateRun, ReuseRun,
         Publish, TriggerDies, Deliver, Step, Crash, ProcessLost, Redeliver, ClaimRejected,
         ClaimLock, ClaimCommit, StartAttempt, Fetch, StepFails, StoreRaw, Load, LoadInDoubt,
         SaveProgress, MarkSucceeded, MarkFailed, RecordPendingRetry, CloseAttempt,
         PublishRetry, Ack
<1> QED
  BY <1>1, <1>2 DEF MarkLoaded

\* A worker carries the proof that it recorded what it loads.
LEMMA RawWorkersStep ==
  ASSUME RawInv, [Next]_vars, NEW u \in Workers
  PROVE  RawWorker(u)'
<1> USE DEF runVars, brokerVars, workerVars
<1>0. TypeInv /\ TypeOK /\ RawWorker(u)
  BY DEF RawInv, TypeInv
<1>1. CASE Stays(u)
  <2>1. RawRow(u)' = RawRow(u)
    BY <1>1 DEF Stays, RawRow
  <2>2. ASSUME pc[u] = "mark", HasRecords(mem[u].page)
        PROVE  loads'[msg[u].run][mem[u].page] >= 1
    <3>1. PICK r \in Runs, p \in DataPages : r = msg[u].run /\ p = mem[u].page
      BY <1>0, <2>2, BusyFacts DEF HasRecords
    <3>2. loads'[r][p] >= 1
      BY <1>0, <2>2, <3>1, LoadSource DEF RawWorker
    <3> QED
      BY <3>1, <3>2
  <2> QED
    BY <1>0, <1>1, <2>1, <2>2, RawSource DEF RawWorker, Stays
<1>2. CASE StoreRaw(u)
  BY <1>0, <1>2 DEF StoreRaw, Stored, RawWorker, RawRow, TypeOK
<1>3. CASE Load(u)
  <2>1. RawRow(u)' = RawRow(u) /\ raw' = raw /\ RawRow(u) \in raw /\ pc'[u] = "mark"
    BY <1>0, <1>3 DEF Load, RawWorker, RawRow, TypeOK
  <2>2. ASSUME HasRecords(mem[u].page) PROVE loads'[msg[u].run][mem[u].page] >= 1
    <3>1. msg[u].run \in Runs
      BY <1>0, <1>3, BusyFacts DEF Load
    <3>2. loads'[msg[u].run][mem[u].page] = loads[msg[u].run][mem[u].page] + 1
      BY <1>0, <1>3, <2>2, <3>1 DEF Load, Committed, HasRecords, TypeOK
    <3>3. loads[msg[u].run][mem[u].page] \in Nat
      BY <1>0, <2>2, <3>1 DEF HasRecords, TypeOK
    <3> QED
      BY <3>2, <3>3
  <2>3. msg' = msg /\ mem' = mem
    BY <1>3 DEF Load
  <2> QED
    BY <2>1, <2>2, <2>3 DEF RawWorker
<1>4. CASE pc'[u] \notin {"load", "mark"}
  BY <1>4 DEF RawWorker
<1>5. ASSUME Step(u), ~StoreRaw(u), ~Load(u) PROVE pc'[u] \notin {"load", "mark"}
  BY <1>0, <1>5
     DEF TypeOK, Step, ClaimRejected, ClaimLock, ClaimCommit, StartAttempt, Fetch, StepFails,
         LoadInDoubt, MarkLoaded, SaveProgress, MarkSucceeded, MarkFailed,
         RecordPendingRetry, CloseAttempt, PublishRetry, Ack, Idle
<1>6. ASSUME NEW m \in queue, Deliver(u, m) PROVE pc'[u] = "claim"
  BY <1>0, <1>6 DEF Deliver, TypeOK
<1> QED
  BY <1>0, <1>1, <1>2, <1>3, <1>4, <1>5, <1>6, ActsOrStays

\* Lineage (ADR 0007): a page reaches the destination only after its raw payload
\* is recorded, and is marked loaded only after the load, whatever is retried,
\* redelivered, lost or crashes.
THEOREM RawIsRecordedFirst == Spec => []RawBeforeLoad
<1>1. Init => RawInv
  BY TypeInit DEF Init, RawInv, RawWorker, RawBeforeLoad
<1>2. RawInv /\ [Next]_vars => RawInv'
  <2> SUFFICES ASSUME RawInv, [Next]_vars PROVE RawInv'
    OBVIOUS
  <2>0. TypeInv /\ TypeOK /\ TypeInv'
    BY TypeStep DEF RawInv, TypeInv
  <2>1. ASSUME NEW r \in Runs, NEW p \in DataPages, loads'[r][p] >= 1
        PROVE  \E x \in raw' : x.run = r /\ x.page = p
    <3>1. CASE loads'[r][p] = loads[r][p]
      BY <2>1, <3>1, RawSource DEF RawInv, RawBeforeLoad
    <3>2. ASSUME NEW w \in Workers, pc[w] = "load", msg[w].run = r, mem[w].page = p
          PROVE  RawRow(w) \in raw' /\ RawRow(w).run = r /\ RawRow(w).page = p
      BY <3>2, RawSource DEF RawInv, RawWorker, RawRow
    <3> QED
      BY <2>0, <3>1, <3>2, LoadSource
  <2>2. ASSUME NEW x \in rawLoaded'
        PROVE  x \in raw' /\ (HasRecords(x.page) => loads'[x.run][x.page] >= 1)
    <3>0. x \in RawRows /\ x.run \in Runs
      BY <2>0, <2>2 DEF TypeInv, TypeOK, RawRows
    <3>1. x \in raw /\ (HasRecords(x.page) => loads[x.run][x.page] >= 1)
      <4>1. CASE x \in rawLoaded
        BY <4>1 DEF RawInv, RawBeforeLoad
      <4>2. ASSUME NEW w \in Workers, MarkLoaded(w), x = RawRow(w)
            PROVE  x \in raw /\ (HasRecords(x.page) => loads[x.run][x.page] >= 1)
        BY <4>2 DEF RawInv, RawWorker, MarkLoaded, RawRow
      <4> QED
        BY <4>1, <4>2, RawSource
    <3>2. ASSUME HasRecords(x.page) PROVE loads'[x.run][x.page] >= 1
      BY <2>0, <3>0, <3>1, <3>2, LoadSource DEF HasRecords
    <3> QED
      BY <3>1, <3>2, RawSource
  <2>3. RawBeforeLoad'
    BY <2>1, <2>2 DEF RawBeforeLoad
  <2> QED
    BY <2>0, <2>3, RawWorkersStep DEF RawInv
<1>3. RawInv => RawBeforeLoad
  BY DEF RawInv
<1> QED
  BY <1>1, <1>2, <1>3, PTL DEF Spec

-----------------------------------------------------------------------------
(* What is extracted again.                                                *)

\* Messages, executions and payloads are of runs that exist.
Existing ==
  /\ \A t \in Tasks : trig[t].pc = "publish" => Exists(trig[t].key)
  /\ \A m \in queue : Exists(m.run)
  /\ \A w \in Workers : pc[w] # "idle" => Exists(msg[w].run)
  /\ \A x \in rawLoaded : Exists(x.run)

\* The sequence number of a page that is not the source's last is its page
\* number plus an offset f[r] that never changes: it is fixed by the seed.
AtPage(f, r, page, seq) == NextCursor(page) # None => seq = f[r] + page

RowOn(f, r) == AtPage(f, r, FirstPage(run[r].cursor), run[r].pages + 1)

WorkerOn(f, w) ==
  /\ pc[w] \in {"start", "fetch"} => AtPage(f, msg[w].run, mem[w].page, mem[w].seq + 1)
  /\ pc[w] \in {"store", "load", "mark", "save"}
       => AtPage(f, msg[w].run, mem[w].page, mem[w].seq)

OnTrack(f) ==
  /\ \A r \in Runs : Exists(r) => RowOn(f, r)
  /\ \A w \in Workers : WorkerOn(f, w)
  /\ \A x \in rawLoaded : AtPage(f, x.run, x.page, x.seq)

TrackInv == TypeInv /\ Existing /\ \E f \in [Runs -> Int] : OnTrack(f)

\* No step deletes a run.
LEMMA ExistsKept ==
  ASSUME TypeInv, [Next]_vars, NEW r \in Runs, Exists(r)
  PROVE  Exists(r)'
<1>1. ASSUME NEW w \in Workers, Writes(w), msg[w].run = r PROVE Exists(r)'
  <2>0. run \in [Runs -> RunRecord] /\ run[r] \in RunRecord
    BY DEF TypeInv, TypeOK
  <2>1. CASE ClaimCommit(w)
    BY <1>1, <2>0, <2>1 DEF ClaimCommit, Exists, RunRecord
  <2>2. CASE SaveProgress(w)
    BY <1>1, <2>0, <2>2 DEF SaveProgress, Exists, RunRecord
  <2>3. CASE MarkSucceeded(w)
    BY <1>1, <2>0, <2>3 DEF MarkSucceeded, Exists, RunRecord
  <2>4. CASE MarkFailed(w)
    BY <1>1, <2>0, <2>4 DEF MarkFailed, Exists, RunRecord
  <2>5. CASE RecordPendingRetry(w)
    BY <1>1, <2>0, <2>5 DEF RecordPendingRetry, Exists, RunRecord
  <2> QED
    BY <1>1, <2>1, <2>2, <2>3, <2>4, <2>5 DEF Writes
<1> QED
  BY <1>1, RowWriters DEF Exists, Inserts, CreateRun

\* A trigger call publishes a run it has created or found.
LEMMA PublishedExists ==
  ASSUME TypeInv, Existing, [Next]_vars, NEW t \in Tasks, trig'[t].pc = "publish"
  PROVE  Exists(trig[t].key)'
<1> USE DEF runVars, brokerVars, workerVars
<1>0. TypeOK /\ trig \in [Tasks -> Calls]
  BY DEF TypeInv, TypeOK
<1>1. CASE trig'[t] = trig[t]
  <2>1. PICK r \in Runs : r = trig[t].key
    BY <1>1 DEF TypeInv, CallsOK
  <2>2. Exists(r)'
    BY <1>1, <2>1, ExistsKept DEF Existing
  <2> QED
    BY <1>1, <2>1, <2>2
<1>2. ASSUME NEW r \in Runs, CreateRun(t, r) PROVE Exists(trig[t].key)'
  BY <1>0, <1>2 DEF Inserts, CreateRun, SeededRun, Exists, Call, TypeOK
<1>3. CASE ReuseRun(t)
  BY <1>0, <1>3 DEF ReuseRun, Exists, Call, NoCall
<1>4. ASSUME Dispatch(t), ~ReuseRun(t), ~\E r \in Runs : CreateRun(t, r) PROVE FALSE
  BY <1>0, <1>4 DEF Dispatch, RequestRun, ContinueCommand, ContinueView, Continues, Publish,
                    TriggerDies, Call, NoCall
<1>5. ASSUME NEW u \in Tasks, Dispatch(u), u # t PROVE trig'[t] = trig[t]
  BY <1>0, <1>5 DEF Dispatch, RequestRun, ContinueCommand, ContinueView, Continues, Inserts, CreateRun,
                    ReuseRun, Publish, TriggerDies
<1>6. (\E u \in Tasks : Dispatch(u)) \/ trig' = trig
  BY DEF Next, vars, Deliver, Step, Crash, ProcessLost, Redeliver, ClaimRejected, ClaimLock,
         ClaimCommit, StartAttempt, Fetch, StepFails, StoreRaw, Load, LoadInDoubt, MarkLoaded,
         SaveProgress, MarkSucceeded, MarkFailed, RecordPendingRetry, CloseAttempt,
         PublishRetry, Ack
<1> QED
  BY <1>1, <1>2, <1>3, <1>4, <1>5, <1>6

\* Whatever refers to a run refers to one that exists.
LEMMA ExistingStep ==
  ASSUME TypeInv, Existing, [Next]_vars
  PROVE  Existing'
<1> USE DEF runVars, brokerVars, workerVars
<1>0. TypeOK /\ TypeInv'
  BY TypeStep DEF TypeInv
<1>1. ASSUME NEW w \in Workers, pc[w] # "idle" PROVE msg[w].run \in Runs /\ Exists(msg[w].run)
  BY <1>1, BusyFacts DEF Existing
<1>2. ASSUME NEW m \in queue' PROVE Exists(m.run)'
  <2>1. m.run \in Runs
    BY <1>0, <1>2, MessageFacts DEF TypeInv, TypeOK
  <2>2. ASSUME NEW w \in Workers, PublishRetry(w), m = [msg[w] EXCEPT !.retries = @ + 1]
        PROVE  m.run = msg[w].run /\ pc[w] # "idle"
    BY <2>2, BusyFacts DEF PublishRetry, Message
  <2>3. ASSUME NEW w \in Workers, Crash(w) \/ Redeliver(w) PROVE pc[w] # "idle"
    BY <2>3 DEF Crash, Redeliver, TypeInv, LocalOK
  <2>4. Exists(m.run)
    BY <1>1, <2>2, <2>3, QueueSources DEF Existing, Publish
  <2> QED
    BY <2>1, <2>4, ExistsKept
<1>3. ASSUME NEW u \in Workers, pc'[u] # "idle" PROVE Exists(msg[u].run)'
  <2>1. CASE pc[u] # "idle" /\ msg'[u] = msg[u]
    <3>1. PICK r \in Runs : r = msg[u].run /\ Exists(r)
      BY <1>1, <2>1
    <3>2. Exists(r)'
      BY <3>1, ExistsKept
    <3> QED
      BY <2>1, <3>1, <3>2
  <2>2. ASSUME NEW m \in queue, Deliver(u, m) PROVE Exists(msg[u].run)'
    BY <1>0, <2>2 DEF Deliver, TypeOK, Existing, Exists
  <2>3. ASSUME Step(u) PROVE pc[u] # "idle" /\ (msg'[u] = msg[u] \/ pc'[u] = "idle")
    BY <1>0, <2>3
       DEF TypeOK, Step, ClaimRejected, ClaimLock, ClaimCommit, StartAttempt, Fetch, StepFails,
           StoreRaw, Load, LoadInDoubt, MarkLoaded, SaveProgress, MarkSucceeded, MarkFailed,
           RecordPendingRetry, CloseAttempt, PublishRetry, Ack, Idle
  <2> QED
    BY <1>3, <2>1, <2>2, <2>3, ActsOrStays DEF Stays
<1>4. ASSUME NEW x \in rawLoaded' PROVE Exists(x.run)'
  <2>1. x.run \in Runs
    BY <1>0, <1>4 DEF TypeInv, TypeOK, RawRows
  <2>2. ASSUME NEW w \in Workers, MarkLoaded(w), x = RawRow(w)
        PROVE  x.run = msg[w].run /\ pc[w] # "idle"
    BY <2>2 DEF MarkLoaded, RawRow
  <2>3. Exists(x.run)
    BY <1>1, <2>2, RawSource DEF Existing
  <2> QED
    BY <2>1, <2>3, ExistsKept
<1> QED
  BY <1>2, <1>3, <1>4, PublishedExists DEF Existing
\* The page after one that is not the last has the next sequence number.
LEMMA NextOnTrack ==
  ASSUME NEW f \in [Runs -> Int], NEW r \in Runs, NEW page \in Pages, NEW seq \in Nat,
         AtPage(f, r, page, seq), NextCursor(page) # None
  PROVE  AtPage(f, r, page + 1, seq + 1)
BY SourceAssumption DEF AtPage, Pages

\* A worker's own step keeps its page and its sequence number on the track of
\* its run, and saves what is on it.
LEMMA StepOnTrack ==
  ASSUME TypeInv, Existing, NEW f \in [Runs -> Int], OnTrack(f), NEW w \in Workers, Step(w)
  PROVE  WorkerOn(f, w)'
<1> USE DEF runVars, brokerVars, workerVars
<1>0. TypeOK /\ WorkerOn(f, w)
  BY DEF TypeInv, OnTrack
<1>1. ASSUME pc'[w] \notin {"start", "fetch", "store", "load", "mark", "save"}
      PROVE  WorkerOn(f, w)'
  BY <1>1 DEF WorkerOn
<1>2. CASE ClaimCommit(w)
  <2>1. msg[w].run \in Runs /\ RowOn(f, msg[w].run)
    BY <1>2, BusyFacts DEF ClaimCommit, OnTrack, Existing
  <2>2. mem'[w] = ResumeState(msg[w].run) /\ pc'[w] = "start" /\ msg'[w] = msg[w]
    BY <1>0, <1>2 DEF ClaimCommit, TypeOK
  <2> QED
    BY <2>1, <2>2 DEF WorkerOn, RowOn, ResumeState
<1>3. ASSUME NEW v \in Versions, Fetch(w, v) PROVE WorkerOn(f, w)'
  <2>1. CASE Yields(mem[w].page)
    <3>1. /\ pc'[w] = "store" /\ msg' = msg
          /\ mem'[w] = [mem[w] EXCEPT !.next = NextCursor(mem[w].page), !.version = v,
                                      !.seq = mem[w].seq + 1]
      BY <1>0, <1>3, <2>1 DEF Fetch, TypeOK
    <3>2. mem'[w].page = mem[w].page /\ mem'[w].seq = mem[w].seq + 1
      BY <1>0, <3>1 DEF TypeOK, Memory
    <3> QED
      BY <1>0, <1>3, <3>1, <3>2 DEF Fetch, WorkerOn
  <2>2. CASE ~Yields(mem[w].page)
    BY <1>0, <1>1, <1>3, <2>2 DEF Fetch, TypeOK
  <2> QED
    BY <2>1, <2>2
<1>4. CASE StartAttempt(w) \/ StoreRaw(w) \/ Load(w) \/ MarkLoaded(w)
  BY <1>0, <1>4 DEF StartAttempt, StoreRaw, Load, MarkLoaded, TypeOK, WorkerOn
<1>5. CASE SaveProgress(w)
  <2>1. CASE pc'[w] # "fetch"
    BY <1>0, <1>1, <1>5, <2>1 DEF SaveProgress, TypeOK
  <2>2. CASE pc'[w] = "fetch"
    <3>1. /\ mem'[w] = [mem[w] EXCEPT !.page = mem[w].page + 1, !.yielded = mem[w].yielded + 1]
          /\ msg' = msg /\ mem[w].next # None
      BY <1>0, <1>5, <2>2 DEF SaveProgress, TypeOK, AfterYield
    <3>2. mem'[w].page = mem[w].page + 1 /\ mem'[w].seq = mem[w].seq /\ mem[w].seq \in Nat
      BY <1>0, <3>1 DEF TypeOK, Memory
    <3>3. /\ msg[w].run \in Runs /\ mem[w].page \in Pages
          /\ NextCursor(mem[w].page) # None
          /\ AtPage(f, msg[w].run, mem[w].page, mem[w].seq)
      BY <1>0, <1>5, <3>1, BusyFacts DEF SaveProgress, TypeInv, LocalOK, WorkerOn
    <3>4. AtPage(f, msg[w].run, mem[w].page + 1, mem[w].seq + 1)
      BY <3>2, <3>3, NextOnTrack
    <3> QED
      BY <2>2, <3>1, <3>2, <3>4 DEF WorkerOn
  <2> QED
    BY <2>1, <2>2
<1>6. ASSUME \/ ClaimRejected(w) \/ ClaimLock(w) \/ LoadInDoubt(w) \/ MarkSucceeded(w)
             \/ MarkFailed(w) \/ RecordPendingRetry(w) \/ CloseAttempt(w)
             \/ PublishRetry(w) \/ Ack(w) \/ \E e \in {"Retryable", "Fatal"} : StepFails(w, e)
      PROVE  WorkerOn(f, w)'
  <2>1. pc'[w] \in {"ack", "claimed", "failed", "close", "retry", "idle"}
    BY <1>0, <1>6 DEF TypeOK, ClaimRejected, ClaimLock, LoadInDoubt, MarkSucceeded,
                      MarkFailed, RecordPendingRetry, CloseAttempt, PublishRetry, Ack,
                      StepFails, Idle
  <2> QED
    BY <1>1, <2>1
<1> QED
  BY <1>2, <1>3, <1>4, <1>5, <1>6 DEF Step

\* A row that a worker writes stays on the track of its run.
LEMMA RowOnTrack ==
  ASSUME TypeInv, Existing, NEW f \in [Runs -> Int], OnTrack(f), NEW r \in Runs,
         NEW w \in Workers, Writes(w), msg[w].run = r
  PROVE  RowOn(f, r)'
<1>0. TypeOK /\ run[r] \in RunRecord /\ run \in [Runs -> RunRecord]
  BY DEF TypeInv, TypeOK
<1>1. ASSUME run'[r].cursor = run[r].cursor, run'[r].pages = run[r].pages PROVE RowOn(f, r)'
  <2>1. Exists(r)
    BY DEF Writes, ClaimCommit, SaveProgress, MarkSucceeded, MarkFailed, RecordPendingRetry,
           Existing
  <2> QED
    BY <1>1, <2>1 DEF OnTrack, RowOn
<1>2. CASE ClaimCommit(w)
  BY <1>0, <1>1, <1>2 DEF ClaimCommit, RunRecord
<1>3. CASE MarkSucceeded(w)
  BY <1>0, <1>1, <1>3 DEF MarkSucceeded, RunRecord
<1>4. CASE MarkFailed(w)
  BY <1>0, <1>1, <1>4 DEF MarkFailed, RunRecord
<1>5. CASE RecordPendingRetry(w)
  BY <1>0, <1>1, <1>5 DEF RecordPendingRetry, RunRecord
<1>6. CASE SaveProgress(w)
  <2>1. run'[r].pages = mem[w].seq /\ run'[r].cursor = ResumePoint(w)
    BY <1>0, <1>6 DEF SaveProgress, RunRecord
  <2>2. /\ mem[w].page \in Pages /\ mem[w].seq \in Nat
        /\ mem[w].next = NextCursor(mem[w].page)
        /\ AtPage(f, r, mem[w].page, mem[w].seq)
    BY <1>0, <1>6, MemoryFields DEF SaveProgress, TypeInv, LocalOK, OnTrack, WorkerOn, TypeOK
  <2>3. CASE mem[w].next # None
    <3>1. ResumePoint(w) = mem[w].page + 1 /\ FirstPage(mem[w].page + 1) = mem[w].page + 1
      BY <2>2, <2>3, CursorTypes, SourceAssumption DEF ResumePoint, FirstPage, Pages, None
    <3> QED
      BY <2>1, <2>2, <2>3, <3>1, NextOnTrack DEF RowOn
  <2>4. CASE mem[w].next = None
    <3>1. ResumePoint(w) = mem[w].page /\ FirstPage(mem[w].page) = mem[w].page
      BY <2>2, <2>4, SourceAssumption DEF ResumePoint, FirstPage, Pages, None
    <3> QED
      BY <2>1, <2>2, <2>4, <3>1 DEF RowOn, AtPage
  <2> QED
    BY <2>3, <2>4
<1> QED
  BY <1>2, <1>3, <1>4, <1>5, <1>6 DEF Writes

\* The offset of a run is fixed when it is created and holds from then on.
LEMMA TrackStep == TrackInv /\ [Next]_vars => TrackInv'
<1> SUFFICES ASSUME TrackInv, [Next]_vars PROVE TrackInv'
  OBVIOUS
<1>0. TypeInv /\ TypeOK /\ Existing /\ TypeInv' /\ Existing'
  BY TypeStep, ExistingStep DEF TrackInv, TypeInv
<1>1. PICK f \in [Runs -> Int] : OnTrack(f)
  BY DEF TrackInv
<1>2. ASSUME NEW t \in Tasks, NEW r \in Runs, CreateRun(t, r)
      PROVE  \E g \in [Runs -> Int] : OnTrack(g)'
  <2>0. ~Exists(r) /\ UNCHANGED <<pc, msg, mem, rawLoaded>>
    BY <1>2 DEF Inserts, CreateRun, workerVars
  <2>1. trig[t].pages \in Nat /\ FirstPage(trig[t].cursor) \in Int
    <3>1. trig[t] \in Calls
      BY <1>0 DEF TypeOK
    <3>2. trig[t].pages \in Nat /\ trig[t].cursor \in Cursors
      BY <3>1 DEF Calls
    <3> QED
      BY <3>2, CursorTypes, SourceAssumption DEF Pages
  <2>2. PICK n \in Int : n = trig[t].pages + 1 - FirstPage(trig[t].cursor)
    BY <2>1
  <2>3. PICK g \in [Runs -> Int] : g[r] = n /\ \A q \in Runs \ {r} : g[q] = f[q]
    <3>1. [f EXCEPT ![r] = n] \in [Runs -> Int]
      OBVIOUS
    <3> QED
      BY <3>1
  <2>4. ASSUME NEW q \in Runs, Exists(q)' PROVE RowOn(g, q)'
    <3>1. CASE q = r
      <4>1. run'[r].cursor = trig[t].cursor /\ run'[r].pages = trig[t].pages
        BY <1>0, <1>2 DEF Inserts, CreateRun, SeededRun, TypeOK
      <4>2. run'[r].pages + 1 = g[r] + FirstPage(run'[r].cursor)
        BY <2>1, <2>2, <2>3, <4>1
      <4> QED
        BY <3>1, <4>2 DEF RowOn, AtPage
    <3>2. CASE q # r
      <4>1. run'[q] = run[q]
        BY <1>0, <1>2, <3>2 DEF Inserts, CreateRun, TypeOK
      <4> QED
        BY <1>1, <2>3, <2>4, <3>2, <4>1 DEF OnTrack, RowOn, AtPage, Exists
    <3> QED
      BY <3>1, <3>2
  <2>5. ASSUME NEW w \in Workers PROVE WorkerOn(g, w)'
    <3>1. CASE pc[w] = "idle"
      BY <2>0, <3>1 DEF WorkerOn
    <3>2. CASE pc[w] # "idle"
      <4>1. msg[w].run \in Runs \ {r}
        BY <1>0, <2>0, <3>2, BusyFacts DEF Existing
      <4> QED
        BY <1>1, <2>0, <2>3, <4>1 DEF OnTrack, WorkerOn, AtPage
    <3> QED
      BY <3>1, <3>2
  <2>6. ASSUME NEW x \in rawLoaded' PROVE AtPage(g, x.run, x.page, x.seq)
    <3>1. x \in rawLoaded /\ x.run \in Runs \ {r}
      BY <1>0, <2>0, <2>6 DEF Existing, TypeOK, RawRows
    <3> QED
      BY <1>1, <2>3, <3>1 DEF OnTrack, AtPage
  <2>7. OnTrack(g)'
    BY <2>4, <2>5, <2>6 DEF OnTrack
  <2> QED
    BY <2>3, <2>7
<1>3. CASE ~\E t \in Tasks, r \in Runs : CreateRun(t, r)
  <2>1. ASSUME NEW r \in Runs, Exists(r)' PROVE RowOn(f, r)'
    <3>1. CASE run'[r] = run[r]
      BY <1>1, <2>1, <3>1 DEF OnTrack, RowOn, Exists
    <3> QED
      BY <1>0, <1>1, <1>3, <3>1, RowOnTrack, RowWriters
  <2>2. ASSUME NEW u \in Workers PROVE WorkerOn(f, u)'
    <3>1. CASE Stays(u)
      BY <1>1, <3>1 DEF OnTrack, WorkerOn, Stays
    <3>2. CASE pc'[u] = "idle" \/ \E m \in queue : Deliver(u, m)
      BY <1>0, <3>2 DEF WorkerOn, Deliver, TypeOK
    <3> QED
      BY <1>0, <1>1, <3>1, <3>2, StepOnTrack, ActsOrStays
  <2>3. ASSUME NEW x \in rawLoaded' PROVE AtPage(f, x.run, x.page, x.seq)
    BY <1>1, RawSource DEF OnTrack, WorkerOn, MarkLoaded, RawRow
  <2>4. OnTrack(f)'
    BY <2>1, <2>2, <2>3 DEF OnTrack
  <2> QED
    BY <1>0, <2>4 DEF TrackInv
<1> QED
  BY <1>0, <1>2, <1>3 DEF TrackInv

\* A page whose progress was saved is loaded again under a new sequence number
\* only if it is the source's last, whatever is retried, redelivered or crashes:
\* every other page has the same sequence number in every attempt.
THEOREM ReloadsAreOfTheLastPage == Spec => OnlyLastPageReloaded
<1> DEFINE Reloads ==
      \A w \in Workers : pc[w] = "load" /\ pc'[w] = "mark" =>
        \A x \in rawLoaded :
          x.run = msg[w].run /\ x.page = mem[w].page /\ x.seq < mem[w].seq
            => NextCursor(x.page) = None
<1>1. Init => TrackInv
  <2> SUFFICES ASSUME Init PROVE TrackInv
    OBVIOUS
  <2>1. Existing
    BY DEF Init, Existing, Call
  <2>2. [r \in Runs |-> 0] \in [Runs -> Int] /\ OnTrack([r \in Runs |-> 0])
    BY DEF Init, OnTrack, WorkerOn, Exists, NoRecord
  <2> QED
    BY <2>1, <2>2, TypeInit DEF TrackInv
<1>2. TrackInv => Reloads
  <2> SUFFICES ASSUME TrackInv, NEW w \in Workers, pc[w] = "load", NEW x \in rawLoaded,
                      x.run = msg[w].run, x.page = mem[w].page, NextCursor(x.page) # None
               PROVE  ~(x.seq < mem[w].seq)
    OBVIOUS
  <2>1. PICK f \in [Runs -> Int] : OnTrack(f)
    BY DEF TrackInv
  <2>2. x.seq = f[x.run] + x.page /\ mem[w].seq = f[x.run] + x.page
    BY <2>1 DEF OnTrack, WorkerOn, AtPage
  <2>3. x.seq \in Nat
    BY DEF TrackInv, TypeInv, TypeOK, RawRows
  <2> QED
    BY <2>2, <2>3
<1> QED
  BY <1>1, <1>2, TrackStep, PTL DEF Spec, OnlyLastPageReloaded
=============================================================================
