---------------------- MODULE PipelineExecutionProofs ----------------------
(***************************************************************************)
(* Proofs about PipelineExecution, for any number of runs, tasks, workers, *)
(* pages and versions, and any number of failures, crashes, redeliveries   *)
(* and lost messages.                                                      *)
(***************************************************************************)
EXTENDS PipelineExecution, TLAPS

-----------------------------------------------------------------------------
(* Type correctness.                                                       *)

\* What a worker's step says of its local variables.
LocalOK ==
  \A w \in Workers :
    /\ pc[w] # "idle" => msg[w] \in Message
    /\ pc[w] \in {"start", "fetch", "store", "load", "mark", "save"}
         => mem[w].page \in Pages
    /\ pc[w] \in {"store", "load", "mark", "save"}
         => mem[w].version \in Versions /\ mem[w].next = NextCursor(mem[w].page)
    /\ pc[w] = "failed" => mem[w].error \in Errors
    /\ pc[w] = "retry" => msg[w].retries < MaxRetries
    /\ w \in held => pc[w] # "idle"

\* What the progress of a trigger call says of its arguments.
CallsOK ==
  \A t \in Tasks :
    /\ trig[t].pc = "publish" => trig[t].key \in Runs
    /\ trig[t].pc = "create" => trig[t].pipeline \in Pipelines

TypeInv == TypeOK /\ LocalOK /\ CallsOK

\* Pages, cursors and how they follow one another.
LEMMA CursorTypes ==
  /\ \A c \in Cursors : FirstPage(c) \in Pages
  /\ \A p \in Pages : NextCursor(p) \in Cursors
  /\ \A p \in Pages : NextCursor(p) # None => p + 1 \in Pages /\ NextCursor(p) = p + 1
  /\ \A p \in Pages : NextCursor(p) = None => p >= LastPage
  /\ Pages \subseteq Cursors
  /\ None \in Cursors
BY SourceAssumption
   DEF Cursors, FirstPage, Pages, NextCursor, HasRecords, DataPages, None

\* The values of rows, workers and calls before anything happens.
LEMMA RecordTypes ==
  /\ NoRecord \in RunRecord
  /\ NoMemory \in Memory
  /\ NoCall \in Calls
BY CursorTypes, ExecutionAssumption
   DEF NoRecord, RunRecord, NoMemory, Memory, NoCall, Call, Calls

\* Each update the steps make of a row, of a worker's memory or of a message
\* leaves it well typed.
LEMMA RunFinished ==
  ASSUME NEW x \in RunRecord, NEW s \in Statuses, NEW e \in Errors \cup {"NONE"}
  PROVE  /\ [x EXCEPT !.status = s, !.error = e] \in RunRecord
         /\ [x EXCEPT !.error = e] \in RunRecord
BY DEF RunRecord

\* Progress saved.
LEMMA RunAdvanced ==
  ASSUME NEW x \in RunRecord, NEW n \in Nat, NEW c \in Cursors
  PROVE  [x EXCEPT !.pages = n, !.cursor = c] \in RunRecord
BY DEF RunRecord

\* The claim's fields.
LEMMA RunClaimed ==
  ASSUME NEW x \in RunRecord, NEW s \in Statuses, NEW t \in Tasks, NEW n \in Nat
  PROVE  [x EXCEPT !.status = s, !.owner = t, !.attempt = n] \in RunRecord
BY DEF RunRecord

\* What a row holds.
LEMMA RunFields ==
  ASSUME NEW x \in RunRecord
  PROVE  x.cursor \in Cursors /\ x.pages \in Nat /\ x.attempt \in Nat /\ x.attempt + 1 \in Nat
BY DEF RunRecord

\* An error kept for the outcome.
LEMMA MemoryFailed ==
  ASSUME NEW x \in Memory, NEW e \in Errors
  PROVE  [x EXCEPT !.error = e] \in Memory
BY DEF Memory

\* A page fetched.
LEMMA MemoryFetched ==
  ASSUME NEW x \in Memory, NEW c \in Cursors, NEW v \in Versions, NEW n \in Nat
  PROVE  [x EXCEPT !.next = c, !.version = v, !.seq = n] \in Memory
BY DEF Memory

\* The next page.
LEMMA MemoryAdvanced ==
  ASSUME NEW x \in Memory, NEW p \in Pages, NEW n \in Nat
  PROVE  [x EXCEPT !.page = p, !.yielded = n] \in Memory
BY DEF Memory

\* What a worker holds.
LEMMA MemoryFields ==
  ASSUME NEW x \in Memory
  PROVE  /\ x.yielded + 1 \in Nat /\ x.seq \in Nat /\ x.seq + 1 \in Nat
         /\ x.error \in Errors \cup {"NONE"}
BY DEF Memory

\* What a message holds, and that its retry is a message.
LEMMA MessageFacts ==
  ASSUME NEW m \in Message
  PROVE  /\ m.run \in Runs /\ m.task \in Tasks /\ m.retries \in Nat
         /\ m.retries < MaxRetries => [m EXCEPT !.retries = @ + 1] \in Message
BY ExecutionAssumption DEF Message

\* A continuation's call has what its creation will need.
LEMMA ContinuesType ==
  ASSUME TypeInv, NEW t \in Tasks, NEW c \in Runs, NEW key \in Runs \cup {NoRun},
         Continues(t, c, key)
  PROVE  trig' \in [Tasks -> Calls] /\ CallsOK'
BY CursorTypes, RecordTypes, ExecutionAssumption
   DEF TypeInv, TypeOK, CallsOK, Continues, Calls, RunRecord, NoCall, Call

\* A call that is over.
LEMMA NoCallType ==
  ASSUME TypeInv, NEW t \in Tasks, trig' = [trig EXCEPT ![t] = NoCall]
  PROVE  trig' \in [Tasks -> Calls] /\ CallsOK'
BY RecordTypes DEF TypeInv, TypeOK, CallsOK, NoCall, Call

\* A worker that resumes a run starts at one of the source's pages.
LEMMA ResumeType ==
  ASSUME TypeInv, NEW r \in Runs
  PROVE  ResumeState(r) \in Memory /\ ResumeState(r).page \in Pages
<1>1. run[r] \in RunRecord
  BY DEF TypeInv, TypeOK
<1> QED
  BY <1>1, RunFields, CursorTypes DEF ResumeState, Memory

\* The initial states are well typed.
LEMMA TypeInit == Init => TypeInv
<1> SUFFICES ASSUME Init PROVE TypeInv
  OBVIOUS
<1>1. TypeOK
  <2>1. Call("new", NoRun, NoPipeline) \in Calls
    BY CursorTypes DEF Call, Calls
  <2> QED
    BY <2>1, RecordTypes DEF Init, TypeOK, Steps
<1>2. LocalOK /\ CallsOK
  BY DEF Init, LocalOK, CallsOK, Call
<1> QED
  BY <1>1, <1>2 DEF TypeInv

\* Every step keeps the typing invariant.
LEMMA TypeStep == TypeInv /\ [Next]_vars => TypeInv'
<1> SUFFICES ASSUME TypeInv, [Next]_vars PROVE TypeInv'
  OBVIOUS
<1> USE CursorTypes, RecordTypes, SourceAssumption, ExecutionAssumption
        DEF TypeInv, runVars, brokerVars, workerVars
<1>1. ASSUME NEW t \in Tasks, NEW pl \in Pipelines, NEW key \in Runs \cup {NoRun}, RequestRun(t, pl, key) PROVE TypeInv'
  <2>1. TypeOK'
    BY <1>1 DEF TypeOK, LocalOK, CallsOK, RunRecord, Message, Memory, Calls, RawRows, Statuses, Errors, Steps, RequestRun, Call, NoCall
  <2>2. LocalOK'
    BY <1>1 DEF TypeOK, LocalOK, Message, Memory, NoMessage, Errors, RequestRun, Call, NoCall
  <2>3. CallsOK'
    BY <1>1 DEF TypeOK, CallsOK, Calls, RunRecord, RequestRun, Call, NoCall
  <2> QED
    BY <2>1, <2>2, <2>3
<1>2. ASSUME NEW t \in Tasks, NEW c \in Runs, NEW key \in Runs \cup {NoRun}, ContinueCommand(t, c, key) PROVE TypeInv'
  <2>0. trig' = [trig EXCEPT ![t] = NoCall] \/ Continues(t, c, key)
    BY <1>2 DEF ContinueCommand
  <2>1. TypeOK'
    BY <1>2, <2>0, ContinuesType, NoCallType DEF TypeOK, ContinueCommand
  <2>2. LocalOK'
    BY <1>2 DEF LocalOK, ContinueCommand
  <2>3. CallsOK'
    BY <2>0, ContinuesType, NoCallType
  <2> QED
    BY <2>1, <2>2, <2>3
<1>3. ASSUME NEW t \in Tasks, NEW c \in Runs, ContinueView(t, c) PROVE TypeInv'
  <2>0. trig' = [trig EXCEPT ![t] = NoCall] \/ Continues(t, c, NoRun)
    BY <1>3 DEF ContinueView
  <2>1. TypeOK'
    BY <1>3, <2>0, ContinuesType, NoCallType DEF TypeOK, ContinueView
  <2>2. LocalOK'
    BY <1>3 DEF LocalOK, ContinueView
  <2>3. CallsOK'
    BY <2>0, ContinuesType, NoCallType
  <2> QED
    BY <2>1, <2>2, <2>3
<1>4. ASSUME NEW t \in Tasks, NEW r \in Runs, CreateRun(t, r) PROVE TypeInv'
  <2>1. TypeOK'
    BY <1>4 DEF TypeOK, LocalOK, CallsOK, RunRecord, Message, Memory, Calls, RawRows, Statuses, Errors, Steps, Inserts, CreateRun, SeededRun, Call, NoCall
  <2>2. LocalOK'
    BY <1>4 DEF TypeOK, LocalOK, Message, Memory, NoMessage, Errors, Inserts, CreateRun, SeededRun, Call, NoCall
  <2>3. CallsOK'
    BY <1>4 DEF TypeOK, CallsOK, Calls, RunRecord, Inserts, CreateRun, SeededRun, Call, NoCall
  <2> QED
    BY <2>1, <2>2, <2>3
<1>5. ASSUME NEW t \in Tasks, ReuseRun(t) PROVE TypeInv'
  <2>1. TypeOK'
    BY <1>5 DEF TypeOK, LocalOK, CallsOK, RunRecord, Message, Memory, Calls, RawRows, Statuses, Errors, Steps, ReuseRun, Call, NoCall
  <2>2. LocalOK'
    BY <1>5 DEF TypeOK, LocalOK, Message, Memory, NoMessage, Errors, ReuseRun, Call, NoCall
  <2>3. CallsOK'
    BY <1>5 DEF TypeOK, CallsOK, Calls, RunRecord, ReuseRun, Call, NoCall
  <2> QED
    BY <2>1, <2>2, <2>3
<1>6. ASSUME NEW t \in Tasks, Publish(t) PROVE TypeInv'
  <2>1. TypeOK'
    BY <1>6 DEF TypeOK, LocalOK, CallsOK, RunRecord, Message, Memory, Calls, RawRows, Statuses, Errors, Steps, Publish, Call, NoCall
  <2>2. LocalOK'
    BY <1>6 DEF TypeOK, LocalOK, Message, Memory, NoMessage, Errors, Publish, Call, NoCall
  <2>3. CallsOK'
    BY <1>6 DEF TypeOK, CallsOK, Calls, RunRecord, Publish, Call, NoCall
  <2> QED
    BY <2>1, <2>2, <2>3
<1>7. ASSUME NEW t \in Tasks, TriggerDies(t) PROVE TypeInv'
  <2>1. TypeOK'
    <3>1. trig' \in [Tasks -> Calls]
      BY <1>7 DEF TypeOK, Calls, RunRecord, TriggerDies, Call, NoCall
    <3>2. faults' \in [crashes : Nat, lost : Nat, redeliveries : Nat]
      BY <1>7 DEF TypeOK, TriggerDies, Call, NoCall
    <3> QED
      BY <1>7, <3>1, <3>2 DEF TypeOK, TriggerDies, Call, NoCall
  <2>2. LocalOK'
    BY <1>7 DEF TypeOK, LocalOK, Message, Memory, NoMessage, Errors, TriggerDies, Call, NoCall
  <2>3. CallsOK'
    BY <1>7 DEF TypeOK, CallsOK, Calls, RunRecord, TriggerDies, Call, NoCall
  <2> QED
    BY <2>1, <2>2, <2>3
<1>8. ASSUME NEW w \in Workers, NEW m \in queue, Deliver(w, m) PROVE TypeInv'
  <2>1. TypeOK'
    BY <1>8 DEF TypeOK, LocalOK, CallsOK, RunRecord, Message, Memory, Calls, RawRows, Statuses, Errors, Steps, Deliver
  <2>2. LocalOK'
    BY <1>8 DEF TypeOK, LocalOK, Message, Memory, NoMessage, Errors, Deliver
  <2>3. CallsOK'
    BY <1>8 DEF TypeOK, CallsOK, Calls, RunRecord, Deliver
  <2> QED
    BY <2>1, <2>2, <2>3
<1>9. ASSUME NEW w \in Workers, Crash(w) PROVE TypeInv'
  <2>1. TypeOK'
    <3>1. faults' \in [crashes : Nat, lost : Nat, redeliveries : Nat]
      BY <1>9 DEF TypeOK, Crash, Idle
    <3>2. queue' \subseteq Message
      BY <1>9 DEF TypeOK, Message, LocalOK, CallsOK, Crash, Idle
    <3>3. pc' \in [Workers -> Steps]
      BY <1>9 DEF TypeOK, Steps, Crash, Idle
    <3>4. msg' \in [Workers -> Message \cup {NoMessage}]
      BY <1>9 DEF TypeOK, NoMessage, Crash, Idle
    <3>5. mem' \in [Workers -> Memory]
      BY <1>9 DEF TypeOK, Memory, Errors, LocalOK, Message, Crash, Idle
    <3>6. held' \subseteq Workers
      BY <1>9 DEF TypeOK, Crash, Idle
    <3> QED
      BY <1>9, <3>1, <3>2, <3>3, <3>4, <3>5, <3>6 DEF TypeOK, Crash, Idle
  <2>2. LocalOK'
    BY <1>9 DEF TypeOK, LocalOK, Message, Memory, NoMessage, Errors, Crash, Idle
  <2>3. CallsOK'
    BY <1>9 DEF TypeOK, CallsOK, Calls, RunRecord, Crash, Idle
  <2> QED
    BY <2>1, <2>2, <2>3
<1>10. ASSUME NEW w \in Workers, ProcessLost(w) PROVE TypeInv'
  <2>1. TypeOK'
    <3>1. faults' \in [crashes : Nat, lost : Nat, redeliveries : Nat]
      BY <1>10 DEF TypeOK, ProcessLost, Idle
    <3>2. pc' \in [Workers -> Steps]
      BY <1>10 DEF TypeOK, Steps, ProcessLost, Idle
    <3>3. msg' \in [Workers -> Message \cup {NoMessage}]
      BY <1>10 DEF TypeOK, NoMessage, ProcessLost, Idle
    <3>4. mem' \in [Workers -> Memory]
      BY <1>10 DEF TypeOK, Memory, Errors, LocalOK, Message, ProcessLost, Idle
    <3>5. held' \subseteq Workers
      BY <1>10 DEF TypeOK, ProcessLost, Idle
    <3> QED
      BY <1>10, <3>1, <3>2, <3>3, <3>4, <3>5 DEF TypeOK, ProcessLost, Idle
  <2>2. LocalOK'
    BY <1>10 DEF TypeOK, LocalOK, Message, Memory, NoMessage, Errors, ProcessLost, Idle
  <2>3. CallsOK'
    BY <1>10 DEF TypeOK, CallsOK, Calls, RunRecord, ProcessLost, Idle
  <2> QED
    BY <2>1, <2>2, <2>3
<1>11. ASSUME NEW w \in Workers, Redeliver(w) PROVE TypeInv'
  <2>1. TypeOK'
    <3>1. faults' \in [crashes : Nat, lost : Nat, redeliveries : Nat]
      BY <1>11 DEF TypeOK, Redeliver
    <3>2. queue' \subseteq Message
      <4>1. msg[w] \in Message
        BY <1>11 DEF LocalOK, Redeliver
      <4> QED
        BY <1>11, <4>1 DEF TypeOK, Redeliver
    <3>3. held' \subseteq Workers
      BY <1>11 DEF TypeOK, Redeliver
    <3> QED
      BY <1>11, <3>1, <3>2, <3>3 DEF TypeOK, Redeliver
  <2>2. LocalOK'
    BY <1>11 DEF TypeOK, LocalOK, Message, Memory, NoMessage, Errors, Redeliver
  <2>3. CallsOK'
    BY <1>11 DEF TypeOK, CallsOK, Calls, RunRecord, Redeliver
  <2> QED
    BY <2>1, <2>2, <2>3
<1>12. ASSUME NEW w \in Workers, ClaimRejected(w) PROVE TypeInv'
  <2>1. TypeOK'
    BY <1>12 DEF TypeOK, LocalOK, CallsOK, RunRecord, Message, Memory, Calls, RawRows, Statuses, Errors, Steps, ClaimRejected
  <2>2. LocalOK'
    BY <1>12 DEF TypeOK, LocalOK, Message, Memory, NoMessage, Errors, ClaimRejected
  <2>3. CallsOK'
    BY <1>12 DEF TypeOK, CallsOK, Calls, RunRecord, ClaimRejected
  <2> QED
    BY <2>1, <2>2, <2>3
<1>13. ASSUME NEW w \in Workers, ClaimLock(w) PROVE TypeInv'
  <2>1. TypeOK'
    BY <1>13 DEF TypeOK, LocalOK, CallsOK, RunRecord, Message, Memory, Calls, RawRows, Statuses, Errors, Steps, ClaimLock
  <2>2. LocalOK'
    BY <1>13 DEF TypeOK, LocalOK, Message, Memory, NoMessage, Errors, ClaimLock
  <2>3. CallsOK'
    BY <1>13 DEF TypeOK, CallsOK, Calls, RunRecord, ClaimLock
  <2> QED
    BY <2>1, <2>2, <2>3
<1>14. ASSUME NEW w \in Workers, ClaimCommit(w) PROVE TypeInv'
  <2>0. msg[w] \in Message /\ mem[w] \in Memory /\ pc[w] # "idle"
    BY <1>14 DEF TypeOK, LocalOK, ClaimCommit
  <2>. DEFINE r == msg[w].run
  <2>a. r \in Runs /\ run[r] \in RunRecord
    BY <2>0, MessageFacts DEF TypeOK
  <2>1. TypeOK'
    <3>1. run' \in [Runs -> RunRecord]
      BY <1>14, <2>0, <2>a, RunClaimed, RunFields, MessageFacts DEF TypeOK, Statuses, ClaimCommit
    <3>2. mem' \in [Workers -> Memory]
      BY <1>14, <2>a, ResumeType DEF TypeOK, ClaimCommit
    <3> QED
      BY <1>14, <3>1, <3>2 DEF TypeOK, Steps, ClaimCommit
  <2>2. LocalOK'
    BY <1>14, <2>0, <2>a, ResumeType DEF TypeOK, LocalOK, ClaimCommit
  <2>3. CallsOK'
    BY <1>14 DEF CallsOK, ClaimCommit
  <2> QED
    BY <2>1, <2>2, <2>3
<1>15. ASSUME NEW w \in Workers, StartAttempt(w) PROVE TypeInv'
  <2>1. TypeOK'
    BY <1>15 DEF TypeOK, LocalOK, CallsOK, RunRecord, Message, Memory, Calls, RawRows, Statuses, Errors, Steps, StartAttempt, Execution
  <2>2. LocalOK'
    BY <1>15 DEF TypeOK, LocalOK, Message, Memory, NoMessage, Errors, StartAttempt, Execution
  <2>3. CallsOK'
    BY <1>15 DEF TypeOK, CallsOK, Calls, RunRecord, StartAttempt, Execution
  <2> QED
    BY <2>1, <2>2, <2>3
<1>16. ASSUME NEW w \in Workers, NEW v \in Versions, Fetch(w, v) PROVE TypeInv'
  <2>0. msg[w] \in Message /\ mem[w] \in Memory /\ pc[w] # "idle"
    BY <1>16 DEF TypeOK, LocalOK, Fetch
  <2>. DEFINE r == msg[w].run
  <2>a. r \in Runs /\ run[r] \in RunRecord
    BY <2>0, MessageFacts DEF TypeOK
  <2>b. mem[w].page \in Pages
    BY <1>16 DEF LocalOK, Fetch
  <2>1. TypeOK'
    <3>1. mem' \in [Workers -> Memory]
      <4>1. [mem[w] EXCEPT !.next = NextCursor(mem[w].page), !.version = v,
                           !.seq = mem[w].seq + 1] \in Memory
        BY <2>0, <2>b, MemoryFetched, MemoryFields
      <4> QED
        BY <1>16, <4>1 DEF TypeOK, Fetch
    <3> QED
      BY <1>16, <3>1 DEF TypeOK, Steps, Fetch
  <2>2. LocalOK'
    <3>1. CASE Yields(mem[w].page)
      <4>1. /\ mem'[w] = [mem[w] EXCEPT !.next = NextCursor(mem[w].page), !.version = v,
                                      !.seq = mem[w].seq + 1]
            /\ pc'[w] = "store"
        BY <1>16, <3>1 DEF TypeOK, Fetch
      <4>2. /\ mem'[w].page = mem[w].page /\ mem'[w].version = v
            /\ mem'[w].next = NextCursor(mem[w].page)
        BY <4>1, <2>0 DEF Memory
      <4> QED
        <5>1. \A u \in Workers \ {w} : pc'[u] = pc[u] /\ mem'[u] = mem[u]
          BY <1>16, <3>1 DEF TypeOK, Fetch
        <5>2. msg' = msg /\ held' = held
          BY <1>16 DEF Fetch
        <5> QED
          BY <4>1, <4>2, <5>1, <5>2, <2>0, <2>b DEF LocalOK
    <3>2. CASE ~Yields(mem[w].page)
      BY <1>16, <3>2, <2>0 DEF TypeOK, LocalOK, Fetch
    <3> QED
      BY <3>1, <3>2
  <2>3. CallsOK'
    BY <1>16 DEF CallsOK, Fetch
  <2> QED
    BY <2>1, <2>2, <2>3
<1>17. ASSUME NEW w \in Workers, NEW e \in {"Retryable", "Fatal"}, StepFails(w, e) PROVE TypeInv'
  <2>0. msg[w] \in Message /\ mem[w] \in Memory /\ pc[w] # "idle"
    BY <1>17 DEF TypeOK, LocalOK, StepFails
  <2>. DEFINE r == msg[w].run
  <2>a. r \in Runs /\ run[r] \in RunRecord
    BY <2>0, MessageFacts DEF TypeOK
  <2>1. TypeOK'
    <3>1. mem' \in [Workers -> Memory]
      BY <1>17, <2>0, MemoryFailed DEF TypeOK, Errors, StepFails
    <3> QED
      BY <1>17, <3>1 DEF TypeOK, Steps, StepFails
  <2>2. LocalOK'
    BY <1>17, <2>0 DEF TypeOK, LocalOK, Memory, Errors, StepFails
  <2>3. CallsOK'
    BY <1>17 DEF CallsOK, StepFails
  <2> QED
    BY <2>1, <2>2, <2>3
<1>18. ASSUME NEW w \in Workers, StoreRaw(w) PROVE TypeInv'
  <2>1. TypeOK'
    BY <1>18 DEF TypeOK, LocalOK, CallsOK, RunRecord, Message, Memory, Calls, RawRows, Statuses, Errors, Steps, StoreRaw, Stored, RawRow
  <2>2. LocalOK'
    BY <1>18 DEF TypeOK, LocalOK, Message, Memory, NoMessage, Errors, StoreRaw, Stored, RawRow
  <2>3. CallsOK'
    BY <1>18 DEF TypeOK, CallsOK, Calls, RunRecord, StoreRaw, Stored, RawRow
  <2> QED
    BY <2>1, <2>2, <2>3
<1>19. ASSUME NEW w \in Workers, Load(w) PROVE TypeInv'
  <2>1. TypeOK'
    BY <1>19 DEF TypeOK, LocalOK, CallsOK, RunRecord, Message, Memory, Calls, RawRows, Statuses, Errors, Steps, Load, Committed, HasRecords
  <2>2. LocalOK'
    BY <1>19 DEF TypeOK, LocalOK, Message, Memory, NoMessage, Errors, Load, Committed, HasRecords
  <2>3. CallsOK'
    BY <1>19 DEF TypeOK, CallsOK, Calls, RunRecord, Load, Committed, HasRecords
  <2> QED
    BY <2>1, <2>2, <2>3
<1>20. ASSUME NEW w \in Workers, LoadInDoubt(w) PROVE TypeInv'
  <2>1. TypeOK'
    <3>1. loads' \in [Runs -> [DataPages -> Nat]]
      BY <1>20 DEF TypeOK, LocalOK, Message, LoadInDoubt, Committed, HasRecords
    <3>2. mem' \in [Workers -> Memory]
      <4>1. PICK e \in {"Retryable", "Fatal"} : mem' = [mem EXCEPT ![w].error = e]
        BY <1>20 DEF LoadInDoubt
      <4>2. mem[w] \in Memory /\ e \in Errors
        BY DEF TypeOK, Errors
      <4>3. [mem[w] EXCEPT !.error = e] \in Memory
        BY <4>2, MemoryFailed
      <4> QED
        BY <4>1, <4>3 DEF TypeOK
    <3>3. pc' \in [Workers -> Steps]
      BY <1>20 DEF TypeOK, Steps, LoadInDoubt, Committed, HasRecords
    <3> QED
      BY <1>20, <3>1, <3>2, <3>3 DEF TypeOK, LoadInDoubt, Committed, HasRecords
  <2>2. LocalOK'
    BY <1>20 DEF TypeOK, LocalOK, Message, Memory, NoMessage, Errors, LoadInDoubt, Committed, HasRecords
  <2>3. CallsOK'
    BY <1>20 DEF TypeOK, CallsOK, Calls, RunRecord, LoadInDoubt, Committed, HasRecords
  <2> QED
    BY <2>1, <2>2, <2>3
<1>21. ASSUME NEW w \in Workers, MarkLoaded(w) PROVE TypeInv'
  <2>1. TypeOK'
    BY <1>21 DEF TypeOK, LocalOK, CallsOK, RunRecord, Message, Memory, Calls, RawRows, Statuses, Errors, Steps, MarkLoaded, RawRow
  <2>2. LocalOK'
    BY <1>21 DEF TypeOK, LocalOK, Message, Memory, NoMessage, Errors, MarkLoaded, RawRow
  <2>3. CallsOK'
    BY <1>21 DEF TypeOK, CallsOK, Calls, RunRecord, MarkLoaded, RawRow
  <2> QED
    BY <2>1, <2>2, <2>3
<1>22. ASSUME NEW w \in Workers, SaveProgress(w) PROVE TypeInv'
  <2>0. msg[w] \in Message /\ mem[w] \in Memory /\ pc[w] # "idle"
    BY <1>22 DEF TypeOK, LocalOK, SaveProgress
  <2>. DEFINE r == msg[w].run
  <2>a. r \in Runs /\ run[r] \in RunRecord
    BY <2>0, MessageFacts DEF TypeOK
  <2>b. /\ mem[w].page \in Pages /\ mem[w].version \in Versions
        /\ mem[w].next = NextCursor(mem[w].page)
    BY <1>22 DEF LocalOK, SaveProgress
  <2>c. ResumePoint(w) \in Cursors
    BY <2>b DEF ResumePoint
  <2>d. \/ pc' = [pc EXCEPT ![w] = "succeeded"] /\ mem' = mem
        \/ /\ pc' = [pc EXCEPT ![w] = "failed"]
           /\ mem' = [mem EXCEPT ![w].error = "PageLimitExceededError"]
        \/ /\ pc' = [pc EXCEPT ![w] = "fetch"]
           /\ mem' = [mem EXCEPT ![w] =
                [@ EXCEPT !.page = mem[w].page + 1, !.yielded = mem[w].yielded + 1]]
           /\ mem[w].page + 1 \in Pages
    BY <1>22, <2>b DEF SaveProgress, AfterYield
  <2>1. TypeOK'
    <3>1. run' \in [Runs -> RunRecord]
      BY <1>22, <2>0, <2>a, <2>c, RunAdvanced, MemoryFields DEF TypeOK, SaveProgress
    <3>2. mem' \in [Workers -> Memory]
      <4>1. [mem[w] EXCEPT !.error = "PageLimitExceededError"] \in Memory
        BY <2>0, MemoryFailed DEF Errors
      <4>2. mem[w].page + 1 \in Pages =>
              [mem[w] EXCEPT !.page = mem[w].page + 1, !.yielded = mem[w].yielded + 1]
                \in Memory
        BY <2>0, MemoryAdvanced, MemoryFields
      <4> QED
        BY <2>d, <4>1, <4>2 DEF TypeOK
    <3>3. pc' \in [Workers -> Steps]
      BY <2>d DEF TypeOK, Steps
    <3> QED
      BY <1>22, <3>1, <3>2, <3>3 DEF TypeOK, SaveProgress
  <2>2. LocalOK'
    <3>1. msg' = msg /\ held' = held
      BY <1>22 DEF SaveProgress
    <3>2. \A u \in Workers \ {w} : pc'[u] = pc[u] /\ mem'[u] = mem[u]
      BY <2>d DEF TypeOK
    <3>3. \/ pc'[w] = "succeeded"
          \/ pc'[w] = "failed" /\ mem'[w].error \in Errors
          \/ pc'[w] = "fetch" /\ mem'[w].page \in Pages
      <4>1. CASE /\ pc' = [pc EXCEPT ![w] = "failed"]
                 /\ mem' = [mem EXCEPT ![w].error = "PageLimitExceededError"]
        BY <2>0, <4>1 DEF TypeOK, Memory, Errors
      <4>2. CASE /\ pc' = [pc EXCEPT ![w] = "fetch"]
                 /\ mem' = [mem EXCEPT ![w] =
                      [@ EXCEPT !.page = mem[w].page + 1, !.yielded = mem[w].yielded + 1]]
                 /\ mem[w].page + 1 \in Pages
        BY <2>0, <4>2 DEF TypeOK, Memory
      <4> QED
        BY <2>d, <4>1, <4>2 DEF TypeOK
    <3> QED
      BY <2>0, <3>1, <3>2, <3>3 DEF LocalOK
  <2>3. CallsOK'
    BY <1>22 DEF CallsOK, SaveProgress
  <2> QED
    BY <2>1, <2>2, <2>3
<1>23. ASSUME NEW w \in Workers, MarkSucceeded(w) PROVE TypeInv'
  <2>0. msg[w] \in Message /\ mem[w] \in Memory /\ pc[w] # "idle"
    BY <1>23 DEF TypeOK, LocalOK, MarkSucceeded
  <2>. DEFINE r == msg[w].run
  <2>a. r \in Runs /\ run[r] \in RunRecord
    BY <2>0, MessageFacts DEF TypeOK
  <2>1. TypeOK'
    <3>1. run' \in [Runs -> RunRecord]
      BY <1>23, <2>0, <2>a, RunFinished, MemoryFields DEF TypeOK, Statuses, MarkSucceeded
    <3> QED
      BY <1>23, <3>1 DEF TypeOK, Steps, MarkSucceeded
  <2>b. pc' = [pc EXCEPT ![w] = "close"]
    BY <1>23, <2>0, MessageFacts DEF MarkSucceeded
  <2>2. LocalOK'
    BY <1>23, <2>0, <2>b DEF TypeOK, LocalOK, MarkSucceeded
  <2>3. CallsOK'
    BY <1>23 DEF CallsOK, MarkSucceeded
  <2> QED
    BY <2>1, <2>2, <2>3
<1>24. ASSUME NEW w \in Workers, MarkFailed(w) PROVE TypeInv'
  <2>0. msg[w] \in Message /\ mem[w] \in Memory /\ pc[w] # "idle"
    BY <1>24 DEF TypeOK, LocalOK, MarkFailed
  <2>. DEFINE r == msg[w].run
  <2>a. r \in Runs /\ run[r] \in RunRecord
    BY <2>0, MessageFacts DEF TypeOK
  <2>1. TypeOK'
    <3>1. run' \in [Runs -> RunRecord]
      BY <1>24, <2>0, <2>a, RunFinished, MemoryFields DEF TypeOK, Statuses, MarkFailed
    <3> QED
      BY <1>24, <3>1 DEF TypeOK, Steps, MarkFailed
  <2>b. pc' = [pc EXCEPT ![w] = "close"]
    BY <1>24, <2>0, MessageFacts DEF MarkFailed
  <2>2. LocalOK'
    BY <1>24, <2>0, <2>b DEF TypeOK, LocalOK, MarkFailed
  <2>3. CallsOK'
    BY <1>24 DEF CallsOK, MarkFailed
  <2> QED
    BY <2>1, <2>2, <2>3
<1>25. ASSUME NEW w \in Workers, RecordPendingRetry(w) PROVE TypeInv'
  <2>0. msg[w] \in Message /\ mem[w] \in Memory /\ pc[w] # "idle"
    BY <1>25 DEF TypeOK, LocalOK, RecordPendingRetry
  <2>. DEFINE r == msg[w].run
  <2>a. r \in Runs /\ run[r] \in RunRecord
    BY <2>0, MessageFacts DEF TypeOK
  <2>1. TypeOK'
    <3>1. run' \in [Runs -> RunRecord]
      BY <1>25, <2>0, <2>a, RunFinished, MemoryFields DEF TypeOK, Statuses, RecordPendingRetry
    <3> QED
      BY <1>25, <3>1 DEF TypeOK, Steps, RecordPendingRetry
  <2>b. msg[w].retries < MaxRetries
    <3>1. ~(msg[w].retries >= MaxRetries)
      BY <1>25 DEF RecordPendingRetry, ShouldFinalize
    <3>2. msg[w].retries \in Nat /\ MaxRetries \in Nat
      BY <2>0, MessageFacts
    <3> QED
      BY <3>1, <3>2
  <2>2. LocalOK'
    BY <1>25, <2>0, <2>b DEF TypeOK, LocalOK, RecordPendingRetry
  <2>3. CallsOK'
    BY <1>25 DEF CallsOK, RecordPendingRetry
  <2> QED
    BY <2>1, <2>2, <2>3
<1>26. ASSUME NEW w \in Workers, CloseAttempt(w) PROVE TypeInv'
  <2>1. TypeOK'
    BY <1>26 DEF TypeOK, LocalOK, CallsOK, RunRecord, Message, Memory, Calls, RawRows, Statuses, Errors, Steps, CloseAttempt, Execution
  <2>2. LocalOK'
    BY <1>26 DEF TypeOK, LocalOK, Message, Memory, NoMessage, Errors, CloseAttempt, Execution
  <2>3. CallsOK'
    BY <1>26 DEF TypeOK, CallsOK, Calls, RunRecord, CloseAttempt, Execution
  <2> QED
    BY <2>1, <2>2, <2>3
<1>27. ASSUME NEW w \in Workers, PublishRetry(w) PROVE TypeInv'
  <2>0. msg[w] \in Message /\ mem[w] \in Memory /\ pc[w] # "idle"
    BY <1>27 DEF TypeOK, LocalOK, PublishRetry
  <2>. DEFINE r == msg[w].run
  <2>a. r \in Runs /\ run[r] \in RunRecord
    BY <2>0, MessageFacts DEF TypeOK
  <2>1. TypeOK'
    <3>1. [msg[w] EXCEPT !.retries = @ + 1] \in Message
      BY <1>27, <2>0, MessageFacts DEF LocalOK, PublishRetry
    <3> QED
      BY <1>27, <3>1 DEF TypeOK, Steps, PublishRetry
  <2>2. LocalOK'
    BY <1>27, <2>0 DEF TypeOK, LocalOK, PublishRetry
  <2>3. CallsOK'
    BY <1>27 DEF CallsOK, PublishRetry
  <2> QED
    BY <2>1, <2>2, <2>3
<1>28. ASSUME NEW w \in Workers, Ack(w) PROVE TypeInv'
  <2>1. TypeOK'
    BY <1>28 DEF TypeOK, LocalOK, CallsOK, RunRecord, Message, Memory, Calls, RawRows, Statuses, Errors, Steps, Ack, Idle
  <2>2. LocalOK'
    BY <1>28 DEF TypeOK, LocalOK, Message, Memory, NoMessage, Errors, Ack, Idle
  <2>3. CallsOK'
    BY <1>28 DEF TypeOK, CallsOK, Calls, RunRecord, Ack, Idle
  <2> QED
    BY <2>1, <2>2, <2>3
<1>29. CASE UNCHANGED vars
  BY <1>29 DEF vars, TypeOK, LocalOK, CallsOK
<1> QED
  BY <1>1, <1>2, <1>3, <1>4, <1>5, <1>6, <1>7, <1>8, <1>9, <1>10, <1>11, <1>12, <1>13, <1>14, <1>15, <1>16, <1>17, <1>18, <1>19, <1>20, <1>21, <1>22, <1>23, <1>24, <1>25, <1>26, <1>27, <1>28, <1>29 DEF Next, Dispatch, Step

\* Every reachable state is well typed: the tables of apps/execution/models.py
\* and apps/rawstore/models.py hold rows of their types and run_pipeline's local
\* variables hold values of theirs, so no step of the model is undefined.
THEOREM TypeCorrect == Spec => []TypeOK
<1>1. Spec => []TypeInv
  BY TypeInit, TypeStep, PTL DEF Spec
<1>2. TypeInv => TypeOK
  BY DEF TypeInv
<1> QED
  BY <1>1, <1>2, PTL

-----------------------------------------------------------------------------
(* What a step can change.                                                 *)

\* A worker at a step of its task has a message and a row.
LEMMA BusyFacts ==
  ASSUME TypeInv, NEW w \in Workers, pc[w] # "idle"
  PROVE  /\ msg[w] \in Message /\ msg[w].run \in Runs /\ msg[w].task \in Tasks
         /\ run[msg[w].run] \in RunRecord
BY MessageFacts DEF TypeInv, TypeOK, LocalOK

\* The steps that write the row of a run.
Writes(w) ==
  \/ ClaimCommit(w) \/ SaveProgress(w) \/ MarkSucceeded(w) \/ MarkFailed(w)
  \/ RecordPendingRetry(w)

\* A row changes when it is created, or by a worker engaged with its run.
LEMMA RowWriters ==
  ASSUME TypeInv, [Next]_vars, NEW r \in Runs, run'[r] # run[r]
  PROVE  \/ \E t \in Tasks : CreateRun(t, r)
         \/ \E w \in Workers : Writes(w) /\ msg[w].run = r
<1> USE DEF runVars, brokerVars, workerVars
<1>1. run' # run
  OBVIOUS
<1>2. \/ \E t \in Tasks, q \in Runs : CreateRun(t, q)
      \/ \E w \in Workers : Writes(w)
  BY <1>1 DEF Next, vars, Dispatch, RequestRun, ContinueCommand, ContinueView, ReuseRun,
              Publish, TriggerDies, Deliver, Step, Crash, ProcessLost, Redeliver, Idle,
              ClaimRejected, ClaimLock, StartAttempt, Fetch, StepFails, StoreRaw, Load,
              LoadInDoubt, MarkLoaded, CloseAttempt, PublishRetry, Ack, Writes
<1>3. ASSUME NEW t \in Tasks, NEW q \in Runs, CreateRun(t, q) PROVE q = r
  BY <1>3 DEF Inserts, CreateRun, TypeInv, TypeOK
<1>4. ASSUME NEW w \in Workers, Writes(w) PROVE msg[w].run = r
  <2>1. msg[w].run \in Runs
    BY <1>4, BusyFacts DEF Writes, ClaimCommit, SaveProgress, MarkSucceeded, MarkFailed,
                           RecordPendingRetry
  <2>2. \E x : run' = [run EXCEPT ![msg[w].run] = x]
    BY <1>4 DEF Writes, ClaimCommit, SaveProgress, MarkSucceeded, MarkFailed,
                RecordPendingRetry
  <2> QED
    BY <2>1, <2>2 DEF TypeInv, TypeOK
<1> QED
  BY <1>2, <1>3, <1>4

\* A step that leaves worker u alone.
Stays(u) == pc'[u] = pc[u] /\ msg'[u] = msg[u] /\ mem'[u] = mem[u]

\* Only its own step, a delivery to it or its loss changes a worker.
LEMMA ActsOrStays ==
  ASSUME TypeInv, [Next]_vars, NEW u \in Workers
  PROVE  \/ Stays(u) \/ Step(u)
         \/ (Crash(u) \/ ProcessLost(u)) /\ pc'[u] = "idle"
         \/ \E m \in queue : Deliver(u, m)
<1> USE DEF runVars, brokerVars, workerVars, TypeInv, TypeOK, Stays
<1>1. CASE UNCHANGED workerVars
  BY <1>1
<1>2. ASSUME NEW w \in Workers, Step(w) PROVE w = u \/ Stays(u)
  BY <1>2 DEF Step, ClaimRejected, ClaimLock, ClaimCommit, StartAttempt, Fetch, StepFails,
              StoreRaw, Load, LoadInDoubt, MarkLoaded, SaveProgress, MarkSucceeded,
              MarkFailed, RecordPendingRetry, CloseAttempt, PublishRetry, Ack, Idle
<1>3. ASSUME NEW w \in Workers, NEW m \in queue, Deliver(w, m)
      PROVE  Stays(u) \/ w = u
  BY <1>3 DEF Deliver
<1>4. ASSUME NEW w \in Workers, Crash(w) \/ ProcessLost(w)
      PROVE  Stays(u) \/ (w = u /\ pc'[u] = "idle")
  BY <1>4 DEF Crash, ProcessLost, Idle
<1> QED
  BY <1>1, <1>2, <1>3, <1>4
     DEF Next, vars, Dispatch, RequestRun, ContinueCommand, ContinueView, Inserts, CreateRun,
         ReuseRun, Publish, TriggerDies, Redeliver

\* Where a message in the queue comes from.
LEMMA QueueSources ==
  ASSUME [Next]_vars, NEW m \in queue'
  PROVE  \/ m \in queue
         \/ \E t \in Tasks : Publish(t) /\ m = [run |-> trig[t].key, task |-> t, retries |-> 0]
         \/ \E w \in Workers : PublishRetry(w) /\ m = [msg[w] EXCEPT !.retries = @ + 1]
         \/ \E w \in Workers : (Crash(w) \/ Redeliver(w)) /\ m = msg[w]
<1> USE DEF runVars, brokerVars, workerVars
<1>1. CASE queue' = queue
  BY <1>1
<1>2. ASSUME NEW w \in Workers, NEW n \in queue, Deliver(w, n) PROVE m \in queue
  BY <1>2 DEF Deliver
<1>3. ASSUME NEW w \in Workers, Step(w), ~PublishRetry(w) PROVE queue' = queue
  BY <1>3 DEF Step, ClaimRejected, ClaimLock, ClaimCommit, StartAttempt, Fetch, StepFails,
              StoreRaw, Load, LoadInDoubt, MarkLoaded, SaveProgress, MarkSucceeded,
              MarkFailed, RecordPendingRetry, CloseAttempt, Ack
<1>4. ASSUME NEW t \in Tasks, Dispatch(t), ~Publish(t) PROVE queue' = queue
  BY <1>4 DEF Dispatch, RequestRun, ContinueCommand, ContinueView, Inserts, CreateRun, ReuseRun,
              TriggerDies
<1>5. ASSUME NEW w \in Workers, PublishRetry(w) \/ Crash(w) \/ ProcessLost(w) \/ Redeliver(w)
      PROVE  \/ m \in queue
             \/ PublishRetry(w) /\ m = [msg[w] EXCEPT !.retries = @ + 1]
             \/ (Crash(w) \/ Redeliver(w)) /\ m = msg[w]
  BY <1>5 DEF PublishRetry, Crash, ProcessLost, Redeliver
<1>6. ASSUME NEW t \in Tasks, Publish(t)
      PROVE  m \in queue \/ m = [run |-> trig[t].key, task |-> t, retries |-> 0]
  BY <1>6 DEF Publish
<1> QED
  BY <1>1, <1>2, <1>3, <1>4, <1>5, <1>6 DEF Next, vars
=============================================================================
