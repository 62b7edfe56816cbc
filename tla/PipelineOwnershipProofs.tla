---------------------- MODULE PipelineOwnershipProofs ----------------------
(***************************************************************************)
(* One run, one worker: proofs that claim_run's test of the task id is     *)
(* enough for exclusive execution, stable outcomes and monotone progress,  *)
(* with any number of crashes, lost messages and repeated triggers, as     *)
(* long as the broker does not make two messages out of one.               *)
(***************************************************************************)
EXTENDS PipelineExecutionProofs

\* The broker delivers again what is still being executed, or what a worker
\* has answered with a retry of its own: the worker is lost between self.retry()
\* and the acknowledgement.
Duplicates == \E w \in Workers : Redeliver(w) \/ (Crash(w) /\ pc[w] = "ack")

-----------------------------------------------------------------------------
(* Exclusive execution.                                                    *)

Busy(w) == pc[w] \notin {"idle", "ack"}

\* A task id is in one place: its trigger call, one message, or one worker.
OneCarrier ==
  /\ \A m, n \in queue : m.task = n.task => m = n
  /\ \A w \in Workers, m \in queue : Busy(w) => msg[w].task # m.task
  /\ \A v, w \in Workers : v # w /\ Busy(v) /\ Busy(w) => msg[v].task # msg[w].task
  /\ \A t \in Tasks : trig[t].pc # "done" =>
       /\ \A m \in queue : m.task # t
       /\ \A w \in Workers : Busy(w) => msg[w].task # t

Driving(step) ==
  step \in {"start", "fetch", "store", "load", "mark", "save", "succeeded", "failed", "retry"}

\* An open claim transaction has the run to itself.
LocksOK ==
  \A v, w \in Workers :
    v # w /\ pc[v] = "claimed" /\ pc[w] = "claimed" => msg[v].run # msg[w].run

\* The row says who executes the run.
Owns(w) ==
  /\ pc[w] = "claimed" =>
       /\ run[msg[w].run].status \notin TERMINAL_STATUSES
       /\ run[msg[w].run].status = "RUNNING" => run[msg[w].run].owner = msg[w].task
  /\ Driving(pc[w]) =>
       /\ run[msg[w].run].status = "RUNNING"
       /\ run[msg[w].run].owner = msg[w].task

OwnerOK == \A w \in Workers : Owns(w)

OwnInv == TypeInv /\ OneCarrier /\ LocksOK /\ OwnerOK

Engaged(w) == pc[w] = "claimed" \/ Driving(pc[w])

\* Two workers are never engaged with the same run.
LEMMA Alone ==
  ASSUME OwnInv, NEW v \in Workers, NEW w \in Workers, v # w, Engaged(v), Engaged(w)
  PROVE  msg[v].run # msg[w].run
<1>1. Busy(v) /\ Busy(w)
  BY DEF Engaged, Busy, Driving
<1>2. msg[v].task # msg[w].task
  BY <1>1 DEF OwnInv, OneCarrier
<1> QED
  BY <1>2 DEF OwnInv, OwnerOK, Owns, LocksOK, Engaged

\* A worker goes from one step of its task to the next, and changes its run's
\* row only if it is engaged with it.
LEMMA WorkerMoves ==
  ASSUME OwnInv, NEW w \in Workers, NEW s \in Steps \ {"idle"}, NEW x \in RunRecord,
         Busy(w), pc' = [pc EXCEPT ![w] = s], UNCHANGED <<msg, queue, trig>>,
         run' = [run EXCEPT ![msg[w].run] = x],
         x # run[msg[w].run] => Engaged(w),
         s = "claimed" =>
           /\ x.status \notin TERMINAL_STATUSES
           /\ x.status = "RUNNING" => x.owner = msg[w].task
           /\ \A v \in Workers \ {w} : pc[v] = "claimed" => msg[v].run # msg[w].run,
         Driving(s) => x.status = "RUNNING" /\ x.owner = msg[w].task
  PROVE  OneCarrier' /\ LocksOK' /\ OwnerOK'
<1>1. /\ pc'[w] = s
      /\ \A v \in Workers \ {w} : pc'[v] = pc[v]
  BY DEF OwnInv, TypeInv, TypeOK
<1>2. msg[w].run \in Runs
  BY BusyFacts DEF OwnInv, Busy
<1>3. /\ run'[msg[w].run] = x
      /\ \A r \in Runs \ {msg[w].run} : run'[r] = run[r]
  BY <1>2 DEF OwnInv, TypeInv, TypeOK
<1>4. OneCarrier'
  BY <1>1 DEF OwnInv, OneCarrier, Busy
<1>5. LocksOK'
  BY <1>1 DEF OwnInv, LocksOK
<1>6. ASSUME NEW v \in Workers, v # w, Engaged(v)
      PROVE  run'[msg[v].run] = run[msg[v].run]
  <2>1. msg[v].run \in Runs
    BY <1>6, BusyFacts DEF OwnInv, Engaged, Driving
  <2>2. CASE x = run[msg[w].run]
    BY <1>3, <2>1, <2>2
  <2>3. CASE Engaged(w)
    BY <1>3, <1>6, <2>1, <2>3, Alone
  <2> QED
    BY <2>2, <2>3
<1>7. OwnerOK'
  <2>1. ASSUME NEW v \in Workers, v # w
        PROVE  Owns(v)'
    BY <1>1, <1>6, <2>1 DEF OwnInv, OwnerOK, Owns, Engaged
  <2>2. Owns(w)'
    BY <1>1, <1>3 DEF Owns
  <2> QED
    BY <2>1, <2>2 DEF OwnerOK
<1> QED
  BY <1>4, <1>5, <1>7

\* A step that keeps the runs and adds no message keeps the invariant, if it
\* makes no worker busy that was not.
LEMMA CarriersShrink ==
  ASSUME OwnInv, run' = run, queue' \subseteq queue,
         \A w \in Workers : (pc'[w] = pc[w] /\ msg'[w] = msg[w]) \/ ~Busy(w)',
         \A t \in Tasks : trig'[t].pc # "done" => trig[t].pc # "done"
  PROVE  OneCarrier' /\ LocksOK' /\ OwnerOK'
<1>1. OneCarrier'
  BY DEF OwnInv, OneCarrier, Busy
<1>2. LocksOK'
  BY DEF OwnInv, LocksOK, Busy
<1>3. OwnerOK'
  BY DEF OwnInv, OwnerOK, Owns, Busy, Driving
<1> QED
  BY <1>1, <1>2, <1>3

\* The steps of a task but its last two.
LEMMA TaskKeepsOwner ==
  ASSUME OwnInv, NEW w \in Workers, Step(w), ~PublishRetry(w), ~Ack(w)
  PROVE  OneCarrier' /\ LocksOK' /\ OwnerOK'
<1> DEFINE r == msg[w].run
<1> USE DEF runVars, brokerVars, workerVars, Steps, Driving
<1>0. OwnInv /\ TypeInv /\ TypeOK
  BY DEF OwnInv, TypeInv
<1>a. Busy(w) => r \in Runs /\ run[r] \in RunRecord /\ run = [run EXCEPT ![r] = run[r]]
  BY <1>0, BusyFacts DEF Busy, TypeOK
<1>b. Driving(pc[w]) => Busy(w) /\ Engaged(w) /\ run[r].status = "RUNNING" /\ run[r].owner = msg[w].task
  BY DEF Busy, Engaged, OwnInv, OwnerOK, Owns
<1>1. CASE ClaimRejected(w)
  <2>1. Busy(w) /\ pc' = [pc EXCEPT ![w] = "ack"] /\ UNCHANGED <<run, msg, queue, trig>>
    BY <1>1 DEF ClaimRejected, Busy
  <2> QED
    BY <1>a, <2>1, WorkerMoves
<1>2. CASE ClaimLock(w)
  <2>1. /\ Busy(w) /\ pc' = [pc EXCEPT ![w] = "claimed"] /\ UNCHANGED <<run, msg, queue, trig>>
        /\ ~Refused(w)
    BY <1>2 DEF ClaimLock, Busy
  <2>2. \A v \in Workers \ {w} : pc[v] = "claimed" => msg[v].run # r
    BY <2>1 DEF Refused, LockedRows, JoinedRows
  <2> QED
    BY <1>a, <2>1, <2>2, WorkerMoves DEF Refused
<1>3. CASE ClaimCommit(w)
  <2> DEFINE x == [run[r] EXCEPT !.status = "RUNNING", !.owner = msg[w].task,
                                 !.attempt = run[r].attempt + 1]
  <2>1. /\ Busy(w) /\ Engaged(w) /\ pc' = [pc EXCEPT ![w] = "start"]
        /\ UNCHANGED <<msg, queue, trig>> /\ run' = [run EXCEPT ![r] = x]
    BY <1>3 DEF ClaimCommit, Busy, Engaged
  <2>2. x \in RunRecord /\ x.status = "RUNNING" /\ x.owner = msg[w].task
    BY <1>0, <1>a, <2>1, BusyFacts, RunFields, RunClaimed DEF Statuses, RunRecord, Busy
  <2> HIDE DEF x
  <2> QED
    BY <2>1, <2>2, WorkerMoves
<1>4. CASE StartAttempt(w)
  BY <1>4, <1>a, <1>b, WorkerMoves DEF StartAttempt
<1>5. ASSUME NEW v \in Versions, Fetch(w, v) PROVE OneCarrier' /\ LocksOK' /\ OwnerOK'
  BY <1>5, <1>a, <1>b, WorkerMoves DEF Fetch
<1>6. ASSUME NEW e \in Errors, StepFails(w, e) PROVE OneCarrier' /\ LocksOK' /\ OwnerOK'
  BY <1>6, <1>a, <1>b, WorkerMoves DEF StepFails
<1>7. CASE StoreRaw(w)
  BY <1>7, <1>a, <1>b, WorkerMoves DEF StoreRaw
<1>8. CASE Load(w)
  BY <1>8, <1>a, <1>b, WorkerMoves DEF Load
<1>9. CASE LoadInDoubt(w)
  BY <1>9, <1>a, <1>b, WorkerMoves DEF LoadInDoubt
<1>10. CASE MarkLoaded(w)
  BY <1>10, <1>a, <1>b, WorkerMoves DEF MarkLoaded
<1>11. CASE SaveProgress(w)
  <2> DEFINE x == [run[r] EXCEPT !.pages = mem[w].seq, !.cursor = ResumePoint(w)]
  <2>1. /\ Driving(pc[w]) /\ UNCHANGED <<msg, queue, trig>> /\ run' = [run EXCEPT ![r] = x]
        /\ \E s \in {"succeeded", "failed", "fetch"} : pc' = [pc EXCEPT ![w] = s]
    BY <1>11 DEF SaveProgress
  <2>2. mem[w].seq \in Nat /\ ResumePoint(w) \in Cursors
    BY <1>0, <1>11, CursorTypes DEF SaveProgress, ResumePoint, TypeOK, Memory, TypeInv, LocalOK
  <2>3. x \in RunRecord /\ x.status = run[r].status /\ x.owner = run[r].owner
    BY <1>a, <1>b, <2>1, <2>2, RunAdvanced DEF RunRecord
  <2> HIDE DEF x
  <2> QED
    BY <1>b, <2>1, <2>3, WorkerMoves
<1>12. CASE MarkSucceeded(w)
  <2> DEFINE x == [run[r] EXCEPT !.status = "SUCCEEDED", !.error = "NONE"]
  <2>1. /\ Driving(pc[w]) /\ UNCHANGED <<msg, queue, trig>> /\ run' = [run EXCEPT ![r] = x]
        /\ pc' = [pc EXCEPT ![w] = "close"]
    BY <1>12 DEF MarkSucceeded
  <2>2. x \in RunRecord
    BY <1>a, <1>b, <2>1, RunFinished DEF Statuses
  <2> HIDE DEF x
  <2> QED
    BY <1>b, <2>1, <2>2, WorkerMoves
<1>13. CASE MarkFailed(w)
  <2> DEFINE x == [run[r] EXCEPT !.status = "FAILED", !.error = mem[w].error]
  <2>1. /\ Driving(pc[w]) /\ UNCHANGED <<msg, queue, trig>> /\ run' = [run EXCEPT ![r] = x]
        /\ pc' = [pc EXCEPT ![w] = "close"]
    BY <1>13 DEF MarkFailed
  <2>2. x \in RunRecord
    BY <1>0, <1>a, <1>b, <2>1, RunFinished, MemoryFields DEF Statuses, TypeOK
  <2> HIDE DEF x
  <2> QED
    BY <1>b, <2>1, <2>2, WorkerMoves
<1>14. CASE RecordPendingRetry(w)
  <2> DEFINE x == [run[r] EXCEPT !.error = mem[w].error]
  <2>1. /\ Driving(pc[w]) /\ UNCHANGED <<msg, queue, trig>> /\ run' = [run EXCEPT ![r] = x]
        /\ pc' = [pc EXCEPT ![w] = "retry"]
    BY <1>14 DEF RecordPendingRetry
  <2>2. x \in RunRecord /\ x.status = run[r].status /\ x.owner = run[r].owner
    <3>1. mem[w].error \in Errors \cup {"NONE"}
      BY <1>0, MemoryFields DEF TypeOK
    <3> QED
      BY <1>a, <1>b, <2>1, <3>1 DEF RunRecord
  <2> HIDE DEF x
  <2> QED
    BY <1>b, <2>1, <2>2, WorkerMoves
<1>15. CASE CloseAttempt(w)
  <2>1. Busy(w) /\ pc' = [pc EXCEPT ![w] = "ack"] /\ UNCHANGED <<run, msg, queue, trig>>
    BY <1>15 DEF CloseAttempt, Busy
  <2> QED
    BY <1>a, <2>1, WorkerMoves
<1> QED
  BY <1>1, <1>2, <1>3, <1>4, <1>5, <1>6, <1>7, <1>8, <1>9, <1>10, <1>11, <1>12, <1>13, <1>14, <1>15
     DEF Step, Errors

\* The message of task id t comes back to the queue, from a worker that gives
\* the task up or from the trigger call.
LEMMA MessageQueued ==
  ASSUME OwnInv, NEW m \in Message, queue' = queue \cup {m}, run' = run,
         \A n \in queue : n.task # m.task,
         \A w \in Workers : (pc'[w] = pc[w] /\ msg'[w] = msg[w]) \/ ~Busy(w)',
         \A w \in Workers : Busy(w)' => msg'[w].task # m.task,
         \A t \in Tasks : trig'[t].pc # "done" => trig[t].pc # "done" /\ t # m.task
  PROVE  OneCarrier' /\ LocksOK' /\ OwnerOK'
<1>1. OneCarrier'
  BY DEF OwnInv, OneCarrier, Busy
<1>2. LocksOK'
  BY DEF OwnInv, LocksOK, Busy
<1>3. OwnerOK'
  BY DEF OwnInv, OwnerOK, Owns, Busy, Driving
<1> QED
  BY <1>1, <1>2, <1>3

\* The last two steps of a task, and what may happen to it in between.
LEMMA EndKeepsOwner ==
  ASSUME OwnInv, NEW w \in Workers,
         PublishRetry(w) \/ Ack(w) \/ ProcessLost(w) \/ (Crash(w) /\ pc[w] # "ack")
  PROVE  OneCarrier' /\ LocksOK' /\ OwnerOK'
<1> USE DEF runVars, brokerVars, workerVars
<1>0. TypeInv /\ TypeOK
  BY DEF OwnInv, TypeInv
<1>1. ASSUME \/ Ack(w) \/ ProcessLost(w)
             \/ Crash(w) /\ queue' = queue
      PROVE  OneCarrier' /\ LocksOK' /\ OwnerOK'
  <2>1. /\ pc' = [pc EXCEPT ![w] = "idle"] /\ msg' = [msg EXCEPT ![w] = NoMessage]
        /\ UNCHANGED <<run, trig, queue>>
    BY <1>1 DEF Ack, ProcessLost, Crash, Idle
  <2>2. \A v \in Workers : (pc'[v] = pc[v] /\ msg'[v] = msg[v]) \/ ~Busy(v)'
    BY <1>0, <2>1 DEF TypeOK, Busy
  <2> QED
    BY <2>1, <2>2, CarriersShrink
<1>2. ASSUME NEW m \in Message, m.task = msg[w].task, queue' = queue \cup {m}, Busy(w),
             UNCHANGED <<run, trig>>, ~Busy(w)',
             \A v \in Workers \ {w} : pc'[v] = pc[v] /\ msg'[v] = msg[v]
      PROVE  OneCarrier' /\ LocksOK' /\ OwnerOK'
  <2>1. \A n \in queue : n.task # m.task
    BY <1>2 DEF OwnInv, OneCarrier
  <2>2. \A v \in Workers : Busy(v)' => msg'[v].task # m.task
    BY <1>2 DEF OwnInv, OneCarrier, Busy
  <2>3. \A t \in Tasks : trig'[t].pc # "done" => trig[t].pc # "done" /\ t # m.task
    BY <1>2 DEF OwnInv, OneCarrier
  <2> QED
    BY <1>2, <2>1, <2>2, <2>3, MessageQueued
<1>3. CASE PublishRetry(w)
  <2> DEFINE m == [msg[w] EXCEPT !.retries = @ + 1]
  <2>1. m \in Message /\ m.task = msg[w].task
    BY <1>0, <1>3, MessageFacts, BusyFacts DEF PublishRetry, TypeInv, LocalOK, Message
  <2>2. Busy(w) /\ ~Busy(w)' /\ \A v \in Workers \ {w} : pc'[v] = pc[v] /\ msg'[v] = msg[v]
    BY <1>0, <1>3 DEF PublishRetry, TypeOK, Busy
  <2>3. queue' = queue \cup {m} /\ UNCHANGED <<run, trig>>
    BY <1>3 DEF PublishRetry
  <2> HIDE DEF m
  <2> QED
    BY <1>2, <2>1, <2>2, <2>3
<1>4. CASE Crash(w) /\ pc[w] # "ack" /\ queue' # queue
  <2>1. msg[w] \in Message /\ queue' = queue \cup {msg[w]} /\ UNCHANGED <<run, trig>>
    BY <1>0, <1>4, BusyFacts DEF Crash
  <2>2. Busy(w) /\ ~Busy(w)' /\ \A v \in Workers \ {w} : pc'[v] = pc[v] /\ msg'[v] = msg[v]
    BY <1>0, <1>4 DEF Crash, Idle, TypeOK, Busy
  <2> QED
    BY <1>2, <2>1, <2>2
<1> QED
  BY <1>1, <1>3, <1>4

\* The broker hands a message over to a free worker.
LEMMA DeliverKeepsOwner ==
  ASSUME OwnInv, NEW w \in Workers, NEW m \in queue, Deliver(w, m)
  PROVE  OneCarrier' /\ LocksOK' /\ OwnerOK'
<1>1. /\ pc[w] = "idle" /\ pc'[w] = "claim" /\ msg'[w] = m
      /\ \A v \in Workers \ {w} : pc'[v] = pc[v] /\ msg'[v] = msg[v]
      /\ queue' = queue \ {m} /\ UNCHANGED <<run, trig>>
  BY DEF OwnInv, TypeInv, TypeOK, Deliver, runVars
<1>2. OneCarrier'
  BY <1>1 DEF OwnInv, OneCarrier, Busy
<1>3. LocksOK'
  BY <1>1 DEF OwnInv, LocksOK
<1>4. OwnerOK'
  BY <1>1 DEF OwnInv, OwnerOK, Owns, Driving
<1> QED
  BY <1>2, <1>3, <1>4

\* Dispatch creates rows nobody executes and publishes a task id once.
LEMMA DispatchKeepsOwner ==
  ASSUME OwnInv, NEW t \in Tasks, Dispatch(t)
  PROVE  OneCarrier' /\ LocksOK' /\ OwnerOK'
<1> USE DEF runVars, brokerVars, workerVars
<1>0. TypeInv /\ TypeOK
  BY DEF OwnInv, TypeInv
<1>1. trig[t].pc # "done" /\ UNCHANGED <<pc, msg>>
      /\ \E x \in Calls : trig' = [trig EXCEPT ![t] = x]
  <2>1. trig' \in [Tasks -> Calls]
    BY <1>0, TypeStep DEF Next, TypeInv, TypeOK
  <2>2. /\ trig[t].pc # "done" /\ UNCHANGED <<pc, msg>>
        /\ \E x : trig' = [trig EXCEPT ![t] = x]
    BY DEF Dispatch, RequestRun, ContinueCommand, ContinueView, Continues, Inserts, CreateRun,
           ReuseRun, Publish, TriggerDies
  <2> QED
    BY <1>0, <2>1, <2>2 DEF TypeOK
<1>2. \A u \in Tasks : trig'[u].pc # "done" => trig[u].pc # "done"
  BY <1>0, <1>1 DEF TypeOK
<1>3. CASE run' = run /\ queue' = queue
  BY <1>1, <1>2, <1>3, CarriersShrink
<1>4. CASE Publish(t)
  <2> DEFINE m == [run |-> trig[t].key, task |-> t, retries |-> 0]
  <2>1. m \in Message /\ m.task = t /\ trig'[t].pc = "done"
    BY <1>0, <1>4, ExecutionAssumption
       DEF Publish, Message, TypeInv, CallsOK, TypeOK, NoCall, Call
  <2>2. queue' = queue \cup {m} /\ run' = run
    BY <1>4 DEF Publish
  <2>3. (\A n \in queue : n.task # t) /\ (\A w \in Workers : Busy(w) => msg[w].task # t)
    BY <1>1 DEF OwnInv, OneCarrier
  <2> HIDE DEF m
  <2> QED
    BY <1>1, <1>2, <2>1, <2>2, <2>3, MessageQueued DEF Busy
<1>5. ASSUME NEW r \in Runs, CreateRun(t, r) PROVE OneCarrier' /\ LocksOK' /\ OwnerOK'
  <2>1. /\ queue' = queue /\ run[r].status = "NONE"
        /\ run'[r].status = "PENDING" /\ \A q \in Runs \ {r} : run'[q] = run[q]
    BY <1>0, <1>5 DEF Inserts, CreateRun, Exists, SeededRun, TypeOK
  <2>2. OneCarrier' /\ LocksOK'
    BY <1>1, <1>2, <2>1 DEF OwnInv, OneCarrier, LocksOK, Busy
  <2>3. OwnerOK'
    <3> SUFFICES ASSUME NEW w \in Workers, Engaged(w) PROVE Owns(w)'
      BY <1>1 DEF OwnerOK, Owns, Engaged
    <3>1. msg[w].run \in Runs
      BY <1>0, BusyFacts DEF Engaged, Driving
    <3> QED
      BY <1>1, <2>1, <3>1 DEF OwnInv, OwnerOK, Owns, Engaged, TERMINAL_STATUSES
  <2> QED
    BY <2>2, <2>3
<1> QED
  BY <1>3, <1>4, <1>5
     DEF Dispatch, RequestRun, ContinueCommand, ContinueView, ReuseRun, TriggerDies

\* Nothing is claimed or queued when the system starts.
LEMMA OwnInit == Init => OwnInv
<1> SUFFICES ASSUME Init PROVE OwnInv
  OBVIOUS
<1>1. OneCarrier /\ LocksOK /\ OwnerOK
  BY DEF Init, OneCarrier, LocksOK, OwnerOK, Owns, Busy, Driving
<1> QED
  BY <1>1, TypeInit DEF OwnInv

\* Every step but a duplication keeps a task id in one place.
LEMMA OwnStep == OwnInv /\ [Next]_vars /\ [~Duplicates]_vars => OwnInv'
<1> SUFFICES ASSUME OwnInv, [Next]_vars, [~Duplicates]_vars PROVE OwnInv'
  OBVIOUS
<1>1. TypeInv'
  BY TypeStep DEF OwnInv
<1>2. CASE UNCHANGED vars
  BY <1>1, <1>2, CarriersShrink DEF vars, OwnInv
<1>3. ASSUME NEW w \in Workers, Step(w) PROVE OneCarrier' /\ LocksOK' /\ OwnerOK'
  BY <1>3, TaskKeepsOwner, EndKeepsOwner
<1>4. ASSUME NEW w \in Workers, ProcessLost(w) \/ (Crash(w) /\ pc[w] # "ack")
      PROVE  OneCarrier' /\ LocksOK' /\ OwnerOK'
  BY <1>4, EndKeepsOwner
<1>5. CASE ~Duplicates /\ Next
  <2>1. ASSUME NEW w \in Workers, Crash(w) PROVE pc[w] # "ack"
    BY <1>5, <2>1 DEF Duplicates
  <2>2. ASSUME NEW w \in Workers, Redeliver(w) PROVE FALSE
    BY <1>5, <2>2 DEF Duplicates
  <2>3. OneCarrier' /\ LocksOK' /\ OwnerOK'
    BY <1>3, <1>4, <1>5, <2>1, <2>2, DispatchKeepsOwner, DeliverKeepsOwner DEF Next
  <2> QED
    BY <1>1, <2>3 DEF OwnInv
<1> QED
  BY <1>2, <1>5

\* The invariant holds as long as no message is duplicated.
LEMMA Ownership == Spec /\ [][~Duplicates]_vars => []OwnInv
BY OwnInit, OwnStep, PTL DEF Spec

\* Two workers never execute the same run at once: claim_run's test of the task
\* id suffices, whatever is triggered twice, retried, lost or crashes, unless
\* the broker makes two messages out of one.
THEOREM OneWorkerPerRun == Spec /\ [][~Duplicates]_vars => []Exclusive
<1>1. OwnInv => Exclusive
  BY Alone DEF Exclusive, Executing, Engaged, Driving
<1> QED
  BY <1>1, Ownership, PTL

\* In the instance of a broker that never delivers twice and workers that do
\* not crash, nothing is duplicated.
LEMMA NothingDuplicated ==
  ASSUME MaxCrashes = 0, MaxRedeliveries = 0
  PROVE  Spec => [][~Duplicates]_vars
<1>1. TypeInv => ~Duplicates
  BY DEF TypeInv, TypeOK, Duplicates, Redeliver, Crash
<1>2. Spec => []TypeInv
  BY TypeInit, TypeStep, PTL DEF Spec
<1> QED
  BY <1>1, <1>2, PTL

-----------------------------------------------------------------------------
(* Stable outcomes.                                                        *)

\* A worker that writes a row is engaged with its run.
LEMMA WriterEngaged ==
  ASSUME OwnInv, NEW w \in Workers, Writes(w)
  PROVE  /\ Engaged(w) /\ msg[w].run \in Runs
         /\ run[msg[w].run].status \notin TERMINAL_STATUSES
<1>1. Engaged(w)
  BY DEF Writes, ClaimCommit, SaveProgress, MarkSucceeded, MarkFailed, RecordPendingRetry,
         Engaged, Driving
<1>2. pc[w] # "idle"
  BY <1>1 DEF Engaged, Driving
<1> QED
  BY <1>1, <1>2, BusyFacts DEF OwnInv, OwnerOK, Owns, Engaged, TERMINAL_STATUSES

\* No step touches the row of a finished run.
LEMMA TerminalKept ==
  ASSUME OwnInv, [Next]_vars, NEW r \in Runs, run[r].status \in TERMINAL_STATUSES
  PROVE  run'[r] = run[r]
<1>1. ASSUME NEW t \in Tasks, CreateRun(t, r) PROVE FALSE
  BY <1>1 DEF Inserts, CreateRun, Exists, TERMINAL_STATUSES
<1>2. ASSUME NEW w \in Workers, Writes(w), msg[w].run = r PROVE FALSE
  BY <1>2, WriterEngaged
<1> QED
  BY <1>1, <1>2, RowWriters DEF OwnInv

\* mark_run_succeeded and mark_run_failed check the status in the task's own copy
\* of the row, not in the database; still a finished run keeps its outcome,
\* unless the broker makes two messages out of one.
THEOREM OutcomesAreFinal == Spec /\ [][~Duplicates]_vars => TerminalStable
<1> DEFINE Kept == \A r \in Runs : run[r].status \in TERMINAL_STATUSES
                                     => run'[r].status = run[r].status
<1>1. OwnInv /\ [Next]_vars => [Kept]_vars
  BY TerminalKept
<1> QED
  BY <1>1, Ownership, PTL DEF Spec, TerminalStable

-----------------------------------------------------------------------------
(* Monotone progress.                                                      *)

\* A worker's position is that of its run's row: at the page the row's cursor
\* leads to, and one page ahead in its count once the page is fetched.
InStep(w) ==
  /\ pc[w] \in {"start", "fetch", "store", "load", "mark", "save"}
       => mem[w].page = FirstPage(run[msg[w].run].cursor)
  /\ pc[w] \in {"start", "fetch"} => mem[w].seq = run[msg[w].run].pages
  /\ pc[w] \in {"store", "load", "mark", "save"} => mem[w].seq = run[msg[w].run].pages + 1

ProgressInv == OwnInv /\ \A w \in Workers : InStep(w)

\* Another worker's step leaves a worker, and the row it is engaged with, alone.
LEMMA OthersUndisturbed ==
  ASSUME OwnInv, [Next]_vars, NEW u \in Workers, Driving(pc[u]),
         pc'[u] = pc[u], msg'[u] = msg[u], mem'[u] = mem[u]
  PROVE  run'[msg[u].run] = run[msg[u].run]
<1>1. Engaged(u) /\ msg[u].run \in Runs /\ run[msg[u].run].status = "RUNNING"
  BY BusyFacts DEF OwnInv, OwnerOK, Owns, Engaged, Driving
<1>2. ASSUME NEW t \in Tasks, CreateRun(t, msg[u].run) PROVE FALSE
  BY <1>1, <1>2 DEF Inserts, CreateRun, Exists
<1>3. ASSUME NEW w \in Workers, Writes(w), msg[w].run = msg[u].run PROVE w = u
  BY <1>1, <1>3, WriterEngaged, Alone
<1>4. Writes(u) => pc'[u] # pc[u]
  BY DEF Writes, ClaimCommit, SaveProgress, MarkSucceeded, MarkFailed, RecordPendingRetry,
         OwnInv, TypeInv, TypeOK
<1> QED
  BY <1>1, <1>2, <1>3, <1>4, RowWriters DEF OwnInv

\* The row a worker writes, as it is afterwards.
LEMMA SavedRow ==
  ASSUME ProgressInv, NEW w \in Workers, SaveProgress(w)
  PROVE  LET r == msg[w].run IN
         /\ r \in Runs /\ run'[r].pages = run[r].pages + 1
         /\ run'[r].cursor = ResumePoint(w)
         /\ run'[r].cursor >= run[r].cursor
         /\ mem[w].next # None => run'[r].cursor = mem[w].page + 1
<1> DEFINE r == msg[w].run
<1>1. r \in Runs /\ run[r] \in RunRecord /\ mem[w] \in Memory
  BY BusyFacts DEF ProgressInv, OwnInv, TypeInv, TypeOK, SaveProgress
<1>2. run'[r] = [run[r] EXCEPT !.pages = mem[w].seq, !.cursor = ResumePoint(w)]
  BY <1>1 DEF SaveProgress, ProgressInv, OwnInv, TypeInv, TypeOK
<1>3. run'[r].pages = mem[w].seq /\ run'[r].cursor = ResumePoint(w)
  BY <1>1, <1>2 DEF RunRecord
<1>4. /\ mem[w].seq = run[r].pages + 1
      /\ mem[w].page = FirstPage(run[r].cursor)
      /\ mem[w].page \in Pages /\ mem[w].next = NextCursor(mem[w].page)
  BY DEF SaveProgress, ProgressInv, InStep, OwnInv, TypeInv, LocalOK
<1>5. mem[w].next # None => mem[w].next = mem[w].page + 1
  BY <1>4, CursorTypes
<1>6. run[r].cursor \in Cursors /\ run[r].cursor <= mem[w].page
  BY <1>1, <1>4, RunFields, SourceAssumption DEF FirstPage, Cursors, Pages, None
<1>7. ResumePoint(w) >= run[r].cursor
  BY <1>4, <1>5, <1>6, SourceAssumption DEF ResumePoint, Cursors, Pages, None
<1> QED
  BY <1>1, <1>3, <1>4, <1>5, <1>7 DEF ResumePoint

\* A worker's own step keeps it in step with its row.
LEMMA StepInStep ==
  ASSUME ProgressInv, NEW w \in Workers, Step(w)
  PROVE  InStep(w)'
<1> USE DEF runVars, brokerVars, workerVars
<1>0. TypeInv /\ TypeOK /\ InStep(w)
  BY DEF ProgressInv, OwnInv, TypeInv
<1>1. ASSUME pc'[w] \notin {"start", "fetch", "store", "load", "mark", "save"} PROVE InStep(w)'
  BY <1>1 DEF InStep
<1>2. CASE ClaimCommit(w)
  <2> DEFINE r == msg[w].run
  <2>1. r \in Runs /\ run[r] \in RunRecord
    BY <1>0, <1>2, BusyFacts DEF ClaimCommit
  <2>2. /\ mem'[w] = ResumeState(r) /\ pc'[w] = "start" /\ msg'[w] = msg[w]
        /\ run'[r].cursor = run[r].cursor /\ run'[r].pages = run[r].pages
    BY <1>0, <1>2, <2>1 DEF ClaimCommit, TypeOK, RunRecord
  <2> QED
    BY <2>2 DEF InStep, ResumeState
<1>3. CASE StartAttempt(w)
  BY <1>0, <1>3 DEF StartAttempt, TypeOK, InStep
<1>4. ASSUME NEW v \in Versions, Fetch(w, v) PROVE InStep(w)'
  <2>1. CASE Yields(mem[w].page)
    <3>1. /\ pc'[w] = "store" /\ UNCHANGED <<run, msg>>
          /\ mem'[w] = [mem[w] EXCEPT !.next = NextCursor(mem[w].page), !.version = v,
                                      !.seq = mem[w].seq + 1]
      BY <1>0, <1>4, <2>1 DEF Fetch, TypeOK
    <3>2. mem'[w].page = mem[w].page /\ mem'[w].seq = mem[w].seq + 1
      BY <1>0, <3>1 DEF TypeOK, Memory
    <3> QED
      BY <1>0, <1>4, <3>1, <3>2 DEF Fetch, InStep
  <2>2. CASE ~Yields(mem[w].page)
    BY <1>0, <1>1, <1>4, <2>2 DEF Fetch, TypeOK
  <2> QED
    BY <2>1, <2>2
<1>5. CASE StoreRaw(w)
  BY <1>0, <1>5 DEF StoreRaw, TypeOK, InStep
<1>6. CASE Load(w)
  BY <1>0, <1>6 DEF Load, TypeOK, InStep
<1>7. CASE MarkLoaded(w)
  BY <1>0, <1>7 DEF MarkLoaded, TypeOK, InStep
<1>8. CASE SaveProgress(w)
  <2>1. CASE pc'[w] # "fetch"
    BY <1>0, <1>1, <1>8, <2>1 DEF SaveProgress, TypeOK
  <2>2. CASE pc'[w] = "fetch"
    <3>1. /\ mem'[w] = [mem[w] EXCEPT !.page = mem[w].page + 1, !.yielded = mem[w].yielded + 1]
          /\ msg' = msg /\ mem[w].next # None
      BY <1>0, <1>8, <2>2 DEF SaveProgress, TypeOK, AfterYield
    <3>2. mem'[w].page = mem[w].page + 1 /\ mem'[w].seq = mem[w].seq
      BY <1>0, <3>1 DEF TypeOK, Memory
    <3>3. mem[w].seq = run[msg[w].run].pages + 1 /\ mem[w].page \in Pages
      BY <1>0, <1>8 DEF SaveProgress, InStep, TypeInv, LocalOK
    <3>4. FirstPage(mem[w].page + 1) = mem[w].page + 1
      BY <3>3, SourceAssumption DEF FirstPage, Pages, None
    <3> QED
      BY <1>8, <2>2, <3>1, <3>2, <3>3, <3>4, SavedRow DEF InStep
  <2> QED
    BY <2>1, <2>2
<1>9. ASSUME \/ ClaimRejected(w) \/ ClaimLock(w) \/ LoadInDoubt(w) \/ MarkSucceeded(w)
             \/ MarkFailed(w) \/ RecordPendingRetry(w) \/ CloseAttempt(w)
             \/ PublishRetry(w) \/ Ack(w) \/ \E e \in {"Retryable", "Fatal"} : StepFails(w, e)
      PROVE  InStep(w)'
  <2>1. pc'[w] \in {"ack", "claimed", "failed", "close", "retry", "idle"}
    BY <1>0, <1>9 DEF TypeOK, ClaimRejected, ClaimLock, LoadInDoubt, MarkSucceeded,
                      MarkFailed, RecordPendingRetry, CloseAttempt, PublishRetry, Ack,
                      StepFails, Idle
  <2> QED
    BY <1>1, <2>1
<1> QED
  BY <1>2, <1>3, <1>4, <1>5, <1>6, <1>7, <1>8, <1>9 DEF Step

\* Every step but a duplication keeps all workers in step with their rows.
LEMMA ProgressStep == ProgressInv /\ [Next]_vars /\ [~Duplicates]_vars => ProgressInv'
<1> SUFFICES ASSUME ProgressInv, [Next]_vars, [~Duplicates]_vars PROVE ProgressInv'
  OBVIOUS
<1>1. OwnInv'
  BY OwnStep DEF ProgressInv
<1>2. ASSUME NEW u \in Workers PROVE InStep(u)'
  <2>1. CASE Step(u)
    BY <2>1, StepInStep
  <2>2. CASE pc'[u] = "idle" \/ \E m \in queue : Deliver(u, m)
    BY <2>2 DEF InStep, Deliver, ProgressInv, OwnInv, TypeInv, TypeOK
  <2>3. CASE Stays(u)
    BY <2>3, OthersUndisturbed DEF ProgressInv, InStep, Stays, Driving
  <2> QED
    BY <2>1, <2>2, <2>3, ActsOrStays DEF ProgressInv, OwnInv
<1> QED
  BY <1>1, <1>2 DEF ProgressInv

\* The resume point of a run never moves backwards and the page count keeps step
\* with it, across retries, crashes and continuations, unless the broker makes
\* two messages out of one.
THEOREM ProgressIsMonotone == Spec /\ [][~Duplicates]_vars => ProgressMonotone
<1> DEFINE Forward ==
      \A r \in Runs : Exists(r) =>
        /\ run'[r].cursor >= run[r].cursor
        /\ run'[r].pages - run[r].pages \in {0, 1}
        /\ run'[r].cursor # run[r].cursor => run'[r].pages = run[r].pages + 1
<1>1. Init => ProgressInv
  BY OwnInit DEF Init, ProgressInv, InStep
<1>2. Spec /\ [][~Duplicates]_vars => []ProgressInv
  BY <1>1, ProgressStep, PTL DEF Spec
<1>3. ProgressInv /\ [Next]_vars => [Forward]_vars
  <2> SUFFICES ASSUME ProgressInv, [Next]_vars, NEW r \in Runs, Exists(r)
               PROVE  /\ run'[r].cursor >= run[r].cursor
                      /\ run'[r].pages - run[r].pages \in {0, 1}
                      /\ run'[r].cursor # run[r].cursor => run'[r].pages = run[r].pages + 1
    OBVIOUS
  <2>1. /\ run[r] \in RunRecord /\ run[r].cursor \in Int /\ run[r].pages \in Int
        /\ run \in [Runs -> RunRecord]
    BY RunFields, SourceAssumption DEF ProgressInv, OwnInv, TypeInv, TypeOK, Cursors, None
  <2>2. CASE run'[r].cursor = run[r].cursor /\ run'[r].pages = run[r].pages
    BY <2>1, <2>2
  <2>3. ASSUME NEW w \in Workers, msg[w].run = r, Writes(w), ~SaveProgress(w)
        PROVE  run'[r].cursor = run[r].cursor /\ run'[r].pages = run[r].pages
    <3>1. CASE ClaimCommit(w)
      BY <2>1, <2>3, <3>1 DEF ClaimCommit, RunRecord
    <3>2. CASE MarkSucceeded(w)
      BY <2>1, <2>3, <3>2 DEF MarkSucceeded, RunRecord
    <3>3. CASE MarkFailed(w)
      BY <2>1, <2>3, <3>3 DEF MarkFailed, RunRecord
    <3>4. CASE RecordPendingRetry(w)
      BY <2>1, <2>3, <3>4 DEF RecordPendingRetry, RunRecord
    <3> QED
      BY <2>3, <3>1, <3>2, <3>3, <3>4 DEF Writes
  <2>4. ASSUME NEW w \in Workers, msg[w].run = r, SaveProgress(w)
        PROVE  run'[r].cursor >= run[r].cursor /\ run'[r].pages = run[r].pages + 1
    BY <2>4, SavedRow
  <2>5. ASSUME NEW t \in Tasks, CreateRun(t, r) PROVE FALSE
    BY <2>5 DEF Inserts, CreateRun
  <2>6. CASE run'[r] # run[r]
    BY <2>1, <2>2, <2>3, <2>4, <2>5, <2>6, RowWriters DEF ProgressInv, OwnInv
  <2> QED
    BY <2>2, <2>6
<1> QED
  BY <1>2, <1>3, PTL DEF Spec, ProgressMonotone
=============================================================================
