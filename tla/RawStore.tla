------------------------------ MODULE RawStore ------------------------------
(***************************************************************************)
(* The raw payload store of one tenant: S3RawPayloadStore.put and get      *)
(* (rawstore/backends/s3.py) on a shared bucket, and store_raw_payload     *)
(* (rawstore/service.py), which writes an object and then its              *)
(* RawPayloadRecord.                                                       *)
(*                                                                         *)
(* A checksum stands for the bytes it is the checksum of, so a             *)
(* content-addressed key carries the data it promises.  Each S3 request    *)
(* and each database statement is one step.                                *)
(***************************************************************************)
EXTENDS Naturals, Sequences

CONSTANTS
  Slots,      \* (run, sequence) positions
  Data,       \* payloads
  Size,       \* their lengths, [Data -> Nat]
  Clients,    \* processes that call put
  Writers,    \* those of them that execute store_raw_payload
  PutAnswers,          \* how the store may answer a conditional put_object
  MaxTampering,        \* bound: changes made outside this code
  Absent, NoUri, ForeignUri

\* The three generations of object key: without a tenant, under the schema
\* name, and under the tenant's UUID.
Generations == {"unprefixed", "schema", "uuid"}

Keys == [gen : Generations, slot : Slots, sum : Data]

\* RawPayloadRecord's unique constraint: (run, sequence, checksum).
Rows == [slot : Slots, sum : Data]

ASSUME RawStoreAssumption ==
  /\ Writers \subseteq Clients
  /\ Size \in [Data -> Nat]
  /\ PutAnswers \subseteq {"conditional", "unsupported"}
  /\ MaxTampering \in Nat
  /\ Absent \notin Data /\ NoUri \notin Keys /\ ForeignUri \notin Keys

VARIABLES
  objects,   \* the bucket's objects by key
  versions,  \* history: who wrote an object since it was created, and from
             \* which step of put()
  bucket,    \* the bucket exists
  uri,       \* storage_uri of each RawPayloadRecord; NoUri: there is no row
  call,      \* each client's put call
  tampered   \* changes made outside this code so far

storeVars == <<objects, versions, bucket, uri, call, tampered>>

-----------------------------------------------------------------------------
\* Mutants: position-addressed keys, as before the key held a checksum, and the
\* tenant's integer id for a prefix.
TenantKeyByPosition(slot, d) ==
  [gen |-> "uuid", slot |-> slot, sum |-> CHOOSE x \in Data : TRUE]

TenantKeyById(slot, d) == [gen |-> "id", slot |-> slot, sum |-> d]

\* The key store_raw_payload builds, under the prefix that put() adds.
TenantKey(slot, d) == [gen |-> "uuid", slot |-> slot, sum |-> d]

PutSteps == {"idle", "put", "check", "write", "verify", "stored", "error"}

PutCalls ==
  [step : PutSteps, key : Keys \cup {NoUri}, data : Data \cup {Absent},
   slot : Slots \cup {Absent}]

\* The versions of an object, in the order they were written.
Histories == Seq([by : Clients, at : PutSteps])

NoPut == [step |-> "idle", key |-> NoUri, data |-> Absent, slot |-> Absent]

PutCall(slot, d) ==
  [step |-> "put", key |-> TenantKey(slot, d), data |-> d, slot |-> slot]

Goto(c, step) == call' = [call EXCEPT ![c] = [@ EXCEPT !.step = step]]

\* A write of this call takes effect: it creates the object or replaces it.
Wrote(c) ==
  /\ objects' = [objects EXCEPT ![call[c].key] = call[c].data]
  /\ versions' = [versions EXCEPT ![call[c].key] =
                   Append(@, [by |-> c, at |-> call[c].step])]

\* Mutant: put_object without IfNoneMatch.
PutUnconditional(c) ==
  /\ call[c].step = "put"
  /\ bucket
  /\ \/ "conditional" \in PutAnswers /\ Wrote(c) /\ Goto(c, "stored")
     \/ "unsupported" \in PutAnswers /\ Goto(c, "check") /\ UNCHANGED <<objects, versions>>
  /\ UNCHANGED <<bucket, uri, tampered>>

\* put_object with IfNoneMatch="*": the store itself writes or refuses, or the
\* answer is one of those taken for "conditional writes are not supported", and
\* this one call takes the fallback.
PutCreateOnly(c) ==
  /\ call[c].step = "put"
  /\ bucket
  /\ \/ /\ "conditional" \in PutAnswers
        /\ objects[call[c].key] = Absent
        /\ Wrote(c)
        /\ Goto(c, "stored")
     \/ /\ "conditional" \in PutAnswers
        /\ objects[call[c].key] # Absent
        /\ Goto(c, "verify")
        /\ UNCHANGED <<objects, versions>>
     \/ /\ "unsupported" \in PutAnswers
        /\ Goto(c, "check")
        /\ UNCHANGED <<objects, versions>>
  /\ UNCHANGED <<bucket, uri, tampered>>

\* Mutant: the fallback writes without head_object.
PutUnchecked(c) ==
  /\ call[c].step = "check"
  /\ Goto(c, "write")
  /\ UNCHANGED <<objects, versions, bucket, uri, tampered>>

\* The fallback: head_object, then an unconditional put_object.
PutCheck(c) ==
  /\ call[c].step = "check"
  /\ Goto(c, IF objects[call[c].key] = Absent THEN "write" ELSE "verify")
  /\ UNCHANGED <<objects, versions, bucket, uri, tampered>>

PutWrite(c) ==
  /\ call[c].step = "write"
  /\ Wrote(c)
  /\ Goto(c, "stored")
  /\ UNCHANGED <<bucket, uri, tampered>>

\* The size of the object at this key is that of d; a vanished object fails.
SameSize(key, d) == objects[key] # Absent /\ Size[objects[key]] = Size[d]

\* _verify_existing_object, otherwise RawPayloadIntegrityError.
PutVerify(c) ==
  /\ call[c].step = "verify"
  /\ Goto(c, IF SameSize(call[c].key, call[c].data) THEN "stored" ELSE "error")
  /\ UNCHANGED <<objects, versions, bucket, uri, tampered>>

\* A request fails: there is no bucket (ConfigurationError), or any other
\* ClientError, after which a write may still have taken effect.
PutFails(c) ==
  /\ call[c].step \in {"put", "check", "write", "verify"}
  /\ Goto(c, "error")
  /\ \/ UNCHANGED <<objects, versions>>
     \/ call[c].step = "write" /\ Wrote(c)
     \/ /\ call[c].step = "put" /\ bucket /\ "conditional" \in PutAnswers
        /\ objects[call[c].key] = Absent
        /\ Wrote(c)
  /\ UNCHANGED <<bucket, uri, tampered>>

PutStep(c) ==
  PutCreateOnly(c) \/ PutCheck(c) \/ PutWrite(c) \/ PutVerify(c) \/ PutFails(c)

-----------------------------------------------------------------------------
(* store_raw_payload.                                                      *)

\* A worker stores what it fetched for a position: on a retry, the same bytes
\* or others.
StoreRawPayload(c, slot, d) ==
  /\ call[c].step = "idle"
  /\ call' = [call EXCEPT ![c] = PutCall(slot, d)]
  /\ UNCHANGED <<objects, versions, bucket, uri, tampered>>

\* get_or_create on (run, sequence, checksum): an existing row is kept as it is.
RecordPayload(c) ==
  LET row == [slot |-> call[c].slot, sum |-> call[c].data] IN
  /\ call[c].step = "stored"
  /\ uri' = IF uri[row] = NoUri THEN [uri EXCEPT ![row] = call[c].key] ELSE uri
  /\ call' = [call EXCEPT ![c] = NoPut]
  /\ UNCHANGED <<objects, versions, bucket, tampered>>

\* put raised, or the process died: nothing more happens to this call.
StoreAborted(c) ==
  /\ call[c].step # "idle"
  /\ call' = [call EXCEPT ![c] = NoPut]
  /\ UNCHANGED <<objects, versions, bucket, uri, tampered>>

WriterStep(c) ==
  \/ \E slot \in Slots, d \in Data : StoreRawPayload(c, slot, d)
  \/ PutStep(c) \/ RecordPayload(c) \/ StoreAborted(c)

\* provision_raw_store: ensure_bucket().
EnsureBucket ==
  /\ ~bucket
  /\ bucket' = TRUE
  /\ UNCHANGED <<objects, versions, uri, call, tampered>>

\* Someone with credentials for the bucket, or a fault of the store, changes
\* or deletes an object.
Tamper(k, v) ==
  /\ tampered < MaxTampering
  /\ objects[k] # Absent
  /\ objects' = [objects EXCEPT ![k] = v]
  /\ versions' = [versions EXCEPT ![k] = IF v = Absent THEN << >> ELSE @]
  /\ tampered' = tampered + 1
  /\ UNCHANGED <<bucket, uri, call>>

StoreInit ==
  /\ objects = [k \in Keys |-> Absent]
  /\ versions = [k \in Keys |-> << >>]
  /\ bucket = FALSE
  /\ uri = [row \in Rows |-> NoUri]
  /\ call = [c \in Clients |-> NoPut]
  /\ tampered = 0

StoreNext ==
  \/ \E c \in Writers : WriterStep(c)
  \/ EnsureBucket
  \/ \E k \in Keys, v \in Data \cup {Absent} : Tamper(k, v)

StoreSpec == StoreInit /\ [][StoreNext]_storeVars

-----------------------------------------------------------------------------
(* S3RawPayloadStore.get.                                                  *)

\* Mutant: the bytes are returned as they come.
getUnverified(u) ==
  IF u.gen # "uuid" \/ objects[u] = Absent THEN Absent ELSE objects[u]

\* get(): refuses a key outside the tenant's prefix, and bytes that are not
\* those the key promises; Absent stands for every refusal and error.
get(u) ==
  IF u.gen # "uuid" \/ objects[u] = Absent \/ objects[u] # u.sum
    THEN Absent ELSE objects[u]

-----------------------------------------------------------------------------
(* Properties.                                                             *)

\* Keys, rows and calls are those that store_raw_payload and put build.
StoreTypeOK ==
  /\ objects \in [Keys -> Data \cup {Absent}]
  /\ versions \in [Keys -> Histories]
  /\ bucket \in BOOLEAN
  /\ uri \in [Rows -> Keys \cup {NoUri, ForeignUri}]
  /\ call \in [Clients -> PutCalls]
  /\ tampered \in Nat

\* put() "Never overwrites": as long as an object exists, whatever calls are
\* made for its key and however they interleave, fail or are cut short, a
\* conditional put only ever creates it.  A later version comes from the
\* fallback alone, from a call whose head_object preceded the first version, and
\* so at most once from each client.
NeverOverwritten ==
  \A k \in Keys : \A i, j \in DOMAIN versions[k] :
    i < j => versions[k][j].at = "write" /\ versions[k][i].by # versions[k][j].by

\* A record is written after its object: as long as nobody tampers with the
\* bucket, every record under the tenant's prefix can be read and yields the
\* payload its checksum names, also when two versions of a page are stored.
RecordBacked ==
  tampered = 0 =>
    \A row \in Rows : uri[row] \in Keys /\ uri[row].gen = "uuid" => get(uri[row]) = row.sum

\* Whatever happens to the bucket, reading a record yields its own payload or
\* an error, never other bytes.
ReadsOwnPayload ==
  \A row \in Rows : uri[row] \in Keys => get(uri[row]) \in {row.sum, Absent}
=============================================================================
