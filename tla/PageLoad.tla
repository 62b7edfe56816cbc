------------------------------ MODULE PageLoad ------------------------------
(***************************************************************************)
(* One page of a run on its way into the destination: map_records          *)
(* (pipelines/mapping.py, core/paths.py), the SQL Server connector's load  *)
(* in batches within one transaction (connectors/destinations/             *)
(* sqlserver.py), and the Celery task's retries with their backoff         *)
(* (execution/tasks.py, retry_policy.py).  Meanwhile the table's owner may *)
(* change its columns, and the worker may die.                             *)
(*                                                                         *)
(* A JSON object is a function from keys to values; every other value, a   *)
(* list included, is an atom.  Times are in quarters of a second.          *)
(***************************************************************************)
EXTENDS Integers, SequencesExt

CONSTANTS
  Documents,          \* JSON values
  Atoms, Null,        \* those that are not objects, null among them
  Missing,            \* get_by_path's found = False
  Inputs,             \* pages of records
  Pipelines,          \* mapping, strict and destination of a pipeline
  ColumnSets,         \* what columns the destination table may have
  NoTable,            \* the table does not exist
  MaxRetries,         \* MAX_RUN_ATTEMPTS - 1
  Base, Cap,          \* BASE_BACKOFF_SECONDS, MAX_BACKOFF_SECONDS
  MaxCrashes, MaxAlters  \* bounds: dying workers, changes of the table

\* Keys of JSON objects and columns of the table.
Names == STRING

\* destination_mapping as a function from columns to paths, strict_mapping, the
\* destination's batch_size, whether its names are SQL identifiers, and what the
\* table itself demands: unique and not-null columns.
IsPipeline(p) ==
  /\ \A c \in DOMAIN p.mapping : p.mapping[c] \in Seq(Names) /\ p.mapping[c] # <<>>
  /\ p.strict \in BOOLEAN /\ p.identifiers \in BOOLEAN
  /\ p.batch \in Nat
  /\ \A c \in p.unique \cup p.notNull : c \in Names

ASSUME LoadAssumption ==
  /\ Null \in Atoms /\ Atoms \subseteq Documents /\ Missing \notin Documents
  /\ \A document \in Documents \ Atoms : \A key \in DOMAIN document :
       key \in Names /\ document[key] \in Documents
  /\ \A page \in Inputs : page \in Seq(Documents)
  /\ \A p \in Pipelines : IsPipeline(p)
  /\ MaxRetries \in Nat /\ MaxCrashes \in Nat /\ MaxAlters \in Nat
  /\ Base \in Nat \ {0} /\ Cap \in Nat /\ Base <= Cap

VARIABLES
  records, pipeline,     \* the page and the pipeline's configuration
  columns,               \* the destination table's columns, or NoTable
  table,                 \* its committed rows
  pc, error,             \* the attempt's next step, the last error's category
  rows, start, loaded,   \* mapped_records, the batch loop and total_loaded
  txn,                   \* rows of the open transaction
  waits,                 \* countdowns of the retries so far
  crashes, alters,       \* counted against their bounds
  lost                   \* history: commits whose attempt never learnt of them

world == <<columns, alters>>
attempt == <<rows, start, loaded>>
vars == <<records, pipeline, world, table, pc, error, attempt, txn, waits, crashes, lost>>

-----------------------------------------------------------------------------
(* Mapping.                                                                *)

IsObject(value) == value \notin Atoms \cup {Missing}

\* Mutant: an absent key is skipped, so a shorter path is answered.
FieldLenient(value, key) ==
  IF IsObject(value) THEN IF key \in DOMAIN value THEN value[key] ELSE value ELSE Missing

\* One segment of a path.
Field(value, key) ==
  IF IsObject(value) THEN IF key \in DOMAIN value THEN value[key] ELSE Missing ELSE Missing

GetByPath(value, path) == FoldLeft(Field, value, path)

\* map_record raises MappingError.
Unmappable(record) ==
  \/ ~IsObject(record)
  \/ /\ pipeline.strict
     /\ \E c \in DOMAIN pipeline.mapping : GetByPath(record, pipeline.mapping[c]) = Missing

MapRecord(record) ==
  [c \in DOMAIN pipeline.mapping |->
     LET value == GetByPath(record, pipeline.mapping[c]) IN
     IF value = Missing THEN Null ELSE value]

\* Mutant: records that cannot be mapped are left out.
MapRecordsSkipping ==
  LET good == SelectSeq(records, LAMBDA r : ~Unmappable(r)) IN
  [ok |-> TRUE, rows |-> [i \in 1 .. Len(good) |-> MapRecord(good[i])]]

\* map_records, which fails with the first record that cannot be mapped; and a
\* pipeline without a mapping (_execute).
MapRecords ==
  IF DOMAIN pipeline.mapping = {} \/ \E i \in DOMAIN records : Unmappable(records[i])
    THEN [ok |-> FALSE, rows |-> <<>>]
    ELSE [ok |-> TRUE, rows |-> [i \in DOMAIN records |-> MapRecord(records[i])]]

-----------------------------------------------------------------------------
(* Errors and retries.                                                     *)

\* Mutant: whatever went wrong is tried again.
IsRetryableAlways(category) == TRUE

\* DataLakeError.retryable: only LoadFailed for an OperationalError.
IsRetryable(category) == category = "OperationalError"

\* Mutant: nothing caps the delay.
ExponentialUncapped(retry) == Base * 2^retry

Exponential(retry) == IF Base * 2^retry < Cap THEN Base * 2^retry ELSE Cap

\* compute_backoff_seconds: the ends of what the jitter may add.
BackoffSeconds(retry) ==
  LET exponential == Exponential(retry) IN {exponential, exponential + exponential \div 4}

\* Mutant: max_retries counts attempts.
RetriesLeftOneMore == Len(waits) <= MaxRetries

\* not is_final_attempt
RetriesLeft == Len(waits) < MaxRetries

\* An error leaves load (the transaction is rolled back) and reaches
\* run_pipeline_task, which publishes a retry or gives up.
Raise(category) ==
  /\ error' = category
  /\ txn' = <<>>
  /\ IF IsRetryable(category) /\ RetriesLeft
       THEN /\ pc' = "waiting"
            /\ \E countdown \in BackoffSeconds(Len(waits)) : waits' = Append(waits, countdown)
       ELSE pc' = "failed" /\ UNCHANGED waits

\* What any statement to the database may raise: OperationalError, or another
\* SQLAlchemyError, which becomes a final LoadFailed.
DatabaseFails == Raise("OperationalError") \/ Raise("SQLAlchemyError")

-----------------------------------------------------------------------------
(* The attempt.                                                            *)

\* The task starts, or a retry's countdown is over: map_records, then the head
\* of load: an empty page is done, the names and batch_size are validated.
Map ==
  /\ pc \in {"ready", "waiting"}
  /\ \/ ~MapRecords.ok /\ Raise("MappingError") /\ UNCHANGED attempt
     \/ /\ MapRecords.ok
        /\ rows' = MapRecords.rows /\ start' = 1 /\ loaded' = 0
        /\ \/ /\ rows' = <<>>
              /\ pc' = "save"
              /\ UNCHANGED <<error, txn, waits>>
           \/ /\ rows' # <<>>
              /\ ~pipeline.identifiers \/ pipeline.batch < 1
              /\ Raise("ConfigurationError")
           \/ /\ rows' # <<>>
              /\ pipeline.identifiers /\ pipeline.batch >= 1
              /\ pc' = "reflect"
              /\ UNCHANGED <<error, txn, waits>>
  /\ UNCHANGED <<records, pipeline, world, table, crashes, lost>>

\* The table exists and has the columns of these rows.
Fits(some) ==
  IF columns = NoTable THEN FALSE
  ELSE \A i \in DOMAIN some : DOMAIN some[i] \subseteq columns

\* _reflect_table and _validate_columns.
Reflect ==
  /\ pc = "reflect"
  /\ \/ DatabaseFails
     \/ ~Fits(rows) /\ Raise("SchemaMismatchError")
     \/ /\ Fits(rows)
        /\ pc' = "insert"
        /\ UNCHANGED <<error, txn, waits>>
  /\ UNCHANGED <<records, pipeline, world, table, attempt, crashes, lost>>

Batch == SubSeq(rows, start, IF start + pipeline.batch > Len(rows) THEN Len(rows)
                             ELSE start + pipeline.batch - 1)

\* The table's constraints hold with these rows added.
Sound(batch) ==
  LET all == table \o txn \o batch IN
  /\ \A c \in pipeline.unique, i, j \in DOMAIN all : i # j => all[i][c] # all[j][c]
  /\ \A c \in pipeline.notNull, i \in DOMAIN batch :
       c \in DOMAIN batch[i] /\ batch[i][c] # Null

\* Mutant: every batch is a transaction of its own.
WriteAtOnce(batch) == table' = table \o batch /\ UNCHANGED txn

\* conn.execute within engine.begin.
Write(batch) == txn' = txn \o batch /\ UNCHANGED table

\* Mutant: every batch counts as a full one.
CountFull(batch) == pipeline.batch

Count(batch) == Len(batch)

\* One iteration of the batch loop.
Insert ==
  /\ pc = "insert"
  /\ \/ /\ Fits(Batch) /\ Sound(Batch)
        /\ Write(Batch)
        /\ loaded' = loaded + Count(Batch)
        /\ start' = start + pipeline.batch
        /\ pc' = IF start' > Len(rows) THEN "commit" ELSE "insert"
        /\ UNCHANGED <<rows, error, waits>>
     \/ /\ \/ DatabaseFails
           \/ Fits(Batch) /\ ~Sound(Batch) /\ Raise("IntegrityError")
        /\ UNCHANGED <<attempt, table>>
  /\ UNCHANGED <<records, pipeline, world, crashes, lost>>

\* The end of engine.begin: the commit is confirmed, fails, or takes effect
\* without being confirmed.
Commit ==
  /\ pc = "commit"
  /\ \/ /\ table' = table \o txn
        /\ txn' = <<>>
        /\ pc' = "save"
        /\ UNCHANGED <<error, waits, lost>>
     \/ DatabaseFails /\ UNCHANGED <<table, lost>>
     \/ DatabaseFails /\ table' = table \o txn /\ lost' = lost + 1
  /\ UNCHANGED <<records, pipeline, world, attempt, crashes>>

\* The run records the page (loaded_successfully, the counters, the cursor).  A
\* failing save is an UnexpectedError.
Save ==
  /\ pc = "save"
  /\ \/ pc' = "saved" /\ UNCHANGED <<error, txn, waits>>
     \/ Raise("UnexpectedError")
  /\ UNCHANGED <<records, pipeline, world, table, attempt, crashes, lost>>

\* Mutant: a task that gave up is not acknowledged either.
UnacknowledgedGivenUp == {"ready", "reflect", "insert", "commit", "save", "failed"}

\* Tasks are acknowledged late, when they return or have published a retry.
Unacknowledged == {"ready", "reflect", "insert", "commit", "save"}

\* The worker dies: the server rolls the transaction back, the broker delivers
\* the unacknowledged task again, with the same number of retries.
Crash ==
  /\ crashes < MaxCrashes
  /\ pc \in Unacknowledged
  /\ crashes' = crashes + 1
  /\ pc' = "ready"
  /\ txn' = <<>>
  /\ rows' = <<>> /\ start' = 1 /\ loaded' = 0
  /\ lost' = IF pc = "save" /\ rows # <<>> THEN lost + 1 ELSE lost
  /\ UNCHANGED <<records, pipeline, world, table, error, waits>>

\* The table is created, altered or dropped; rows being inserted lock it.
Alter ==
  /\ alters < MaxAlters
  /\ pc \notin {"saved", "failed"} /\ txn = <<>>
  /\ alters' = alters + 1
  /\ columns' \in ColumnSets \cup {NoTable}
  /\ UNCHANGED <<records, pipeline, table, pc, error, attempt, txn, waits, crashes, lost>>

Init ==
  /\ records \in Inputs /\ pipeline \in Pipelines
  /\ columns \in ColumnSets
  /\ alters = 0 /\ crashes = 0 /\ lost = 0
  /\ table = <<>> /\ txn = <<>>
  /\ pc = "ready" /\ error = "none"
  /\ rows = <<>> /\ start = 1 /\ loaded = 0
  /\ waits = <<>>

Progress == Map \/ Reflect \/ Insert \/ Commit \/ Save

Next == Progress \/ Crash \/ Alter

\* Statements have timeouts and the broker delivers retries and redelivers what
\* a dead worker held: the attempt goes on.
Spec == Init /\ [][Next]_vars /\ WF_vars(Progress)

-----------------------------------------------------------------------------
(* Properties.                                                             *)

TypeOK ==
  /\ records \in Inputs /\ pipeline \in Pipelines
  /\ columns \in ColumnSets \cup {NoTable}
  /\ pc \in {"ready", "waiting", "reflect", "insert", "commit", "save", "saved", "failed"}
  /\ start \in Nat \ {0} /\ loaded \in Nat
  /\ Len(waits) <= MaxRetries /\ lost \in Nat

\* The reference for get_by_path: all <<path, value>> pairs of a document, by
\* walking the document instead of the path.
Members(document, depth) ==
  LET at[n \in 0 .. depth] ==
        IF n = 0 THEN {<< <<>>, document >>}
        ELSE UNION {{<<Append(m[1], key), m[2][key]>> :
                       key \in IF m[2] \in Atoms THEN {} ELSE DOMAIN m[2]} : m \in at[n - 1]}
  IN at[depth]

Has(document, path) == \E m \in Members(document, Len(path)) : m[1] = path
ValueAt(document, path) == (CHOOSE m \in Members(document, Len(path)) : m[1] = path)[2]

\* The rows the page should become.
PageRows ==
  [i \in DOMAIN records |->
     [c \in DOMAIN pipeline.mapping |->
        IF Has(records[i], pipeline.mapping[c]) THEN ValueAt(records[i], pipeline.mapping[c])
        ELSE Null]]

Copies == IF records = <<>> THEN 0 ELSE Len(table) \div Len(records)

\* Through batches, errors in any of them, retries, crashes and changes of the
\* table, the destination holds whole copies of the page, each the mapping of
\* the page's records in their order ("bounded, single-transaction batches").
WholePages ==
  /\ Len(table) = Copies * Len(records)
  /\ \A i \in DOMAIN table : table[i] = PageRows[((i - 1) % Len(records)) + 1]

\* A second copy appears only when the commit of an earlier one took effect
\* unnoticed: its answer was lost, or the worker died before it saved the
\* progress.  No other error, retried or not, duplicates rows.
DuplicatesExplained == Copies <= 1 + lost

\* One record that is not an object, or in strict mode lacks a mapped field,
\* keeps the whole page out of the destination, on every attempt ("raises
\* MappingError rather than being coerced or skipped").
BadRecordBlocksPage ==
  (\E i \in DOMAIN records :
     \/ records[i] \in Atoms
     \/ /\ pipeline.strict
        /\ \E c \in DOMAIN pipeline.mapping : ~Has(records[i], pipeline.mapping[c]))
  => table = <<>> /\ pc \notin {"save", "saved"}

\* The number that is added to records_loaded is that of the page's rows, and
\* they are in the destination.
CountIsHonest ==
  pc \in {"save", "saved"} => loaded = Len(records) /\ (records # <<>> => Copies >= 1)

\* Each retry waits longer than the one before it, whatever the jitter, until
\* the cap is reached; no wait exceeds the cap by more than the jitter.
BackoffGrows ==
  /\ \A i, j \in DOMAIN waits : i < j => waits[i] < waits[j] \/ waits[i] >= Cap
  /\ \A i \in DOMAIN waits : waits[i] >= Base /\ 4 * waits[i] <= 5 * Cap

\* What the run can see of an attempt.
Status ==
  IF pc = "save" THEN "committed" ELSE IF pc \in {"saved", "failed"} THEN pc ELSE "trying"

\* The load, seen without mapping, batches and retries.
Atomic == INSTANCE AtomicLoad WITH rows <- PageRows, status <- Status

\* load is atomic for the run that calls it, and its attempts end.
ImplementsAtomicLoad == Atomic!Spec
=============================================================================
