--------------------------- MODULE RawStoreProofs ---------------------------
(***************************************************************************)
(* Proofs about RawStore, for any number of clients, payloads and          *)
(* positions, and either answer of the backend.                            *)
(***************************************************************************)
EXTENDS RawStore, TLAPS

\* A put call in progress writes data under the key that promises it.
CallsOK ==
  \A c \in Clients : call[c].step # "idle" =>
    /\ call[c].slot \in Slots /\ call[c].data \in Data
    /\ call[c].key = TenantKey(call[c].slot, call[c].data)

\* A record points at a key that promises its own payload.
UrisOK == \A row \in Rows : uri[row] \in Keys => uri[row].sum = row.sum

\* While nobody tampers with the bucket, an object under the tenant's prefix is
\* what its key promises, and what a record under that prefix or a finished put
\* call points at exists.  Objects of the older generations are not this code's.
Clean ==
  tampered = 0 =>
    /\ \A k \in Keys : k.gen = "uuid" => objects[k] \in {k.sum, Absent}
    /\ \A row \in Rows : uri[row] \in Keys /\ uri[row].gen = "uuid" => objects[uri[row]] # Absent
    /\ \A c \in Clients : call[c].step = "stored" => objects[call[c].key] # Absent

StoreInv ==
  /\ StoreTypeOK /\ CallsOK /\ UrisOK /\ Clean
  /\ tampered <= MaxTampering

\* The key that store_raw_payload computes names its payload.
LEMMA KeyFacts ==
  ASSUME NEW slot \in Slots, NEW d \in Data
  PROVE  /\ TenantKey(slot, d) \in Keys
         /\ TenantKey(slot, d).sum = d /\ TenantKey(slot, d).gen = "uuid"
         /\ [slot |-> slot, sum |-> d] \in Rows
BY DEF TenantKey, Keys, Generations, Rows

\* No call under way.
LEMMA NoPutType == NoPut \in PutCalls /\ NoPut.step = "idle"
BY DEF NoPut, PutCalls, PutSteps

\* A call that goes on keeps what it is about.
LEMMA CallMoves ==
  ASSUME NEW x \in PutCalls, NEW s \in PutSteps
  PROVE  /\ [x EXCEPT !.step = s] \in PutCalls
         /\ [x EXCEPT !.step = s].step = s
         /\ [x EXCEPT !.step = s].key = x.key
         /\ [x EXCEPT !.step = s].data = x.data
         /\ [x EXCEPT !.step = s].slot = x.slot
BY DEF PutCalls

\* A call under way is about the payload that its key names.
LEMMA CallKey ==
  ASSUME StoreInv, NEW c \in Clients, call[c].step # "idle"
  PROVE  call[c].key \in Keys /\ call[c].key.sum = call[c].data /\ call[c].data \in Data
<1>1. /\ call[c].slot \in Slots /\ call[c].data \in Data
      /\ call[c].key = TenantKey(call[c].slot, call[c].data)
  BY DEF StoreInv, CallsOK
<1> QED
  BY <1>1, KeyFacts

\* The history of an object that does not exist.
LEMMA NoVersions == << >> \in Histories
BY DEF Histories

\* The history of an object that is written once more.
LEMMA VersionAdded ==
  ASSUME NEW c \in Clients, NEW x \in PutCalls, NEW h \in Histories
  PROVE  LET g == Append(h, [by |-> c, at |-> x.step]) IN
         /\ g \in Histories
         /\ Len(h) \in Nat /\ DOMAIN h = 1 .. Len(h) /\ DOMAIN g = 1 .. Len(h) + 1
         /\ \A i \in 1 .. Len(h) : g[i] = h[i]
         /\ g[Len(h) + 1].by = c /\ g[Len(h) + 1].at = x.step
<1>1. [by |-> c, at |-> x.step] \in [by : Clients, at : PutSteps]
  BY DEF PutCalls
<1> QED
  BY <1>1 DEF Histories

\* The initial states.
LEMMA StoreInvInit == StoreInit => StoreInv
<1> SUFFICES ASSUME StoreInit PROVE StoreInv
  OBVIOUS
<1>1. StoreTypeOK
  BY NoPutType, NoVersions DEF StoreInit, StoreTypeOK
<1>2. CallsOK
  BY NoPutType DEF StoreInit, CallsOK
<1>3. UrisOK /\ Clean
  BY NoPutType, RawStoreAssumption DEF StoreInit, UrisOK, Clean
<1> QED
  BY <1>1, <1>2, <1>3, RawStoreAssumption DEF StoreInit, StoreInv

\* A client's call advances to step s and objects are written, if at all, by
\* that call: enough for the part of the invariant about calls.
LEMMA GotoFacts ==
  ASSUME StoreInv, NEW c \in Clients, NEW s \in PutSteps, Goto(c, s), call[c].step # "idle"
  PROVE  /\ call' \in [Clients -> PutCalls]
         /\ \A b \in Clients \ {c} : call'[b] = call[b]
         /\ call'[c].step = s /\ call'[c].key = call[c].key
         /\ call'[c].data = call[c].data /\ call'[c].slot = call[c].slot
         /\ call[c].key \in Keys /\ call[c].key.sum = call[c].data
         /\ call[c].data \in Data
<1>1. call[c] \in PutCalls
  BY DEF StoreInv, StoreTypeOK
<1>2. call' = [call EXCEPT ![c] = [call[c] EXCEPT !.step = s]]
  BY DEF Goto
<1>3. call'[c] = [call[c] EXCEPT !.step = s]
  BY <1>2 DEF StoreInv, StoreTypeOK
<1>4. /\ call' \in [Clients -> PutCalls]
      /\ \A b \in Clients \ {c} : call'[b] = call[b]
  BY <1>1, <1>2, CallMoves DEF StoreInv, StoreTypeOK
<1>5. /\ call'[c].step = s /\ call'[c].key = call[c].key
      /\ call'[c].data = call[c].data /\ call'[c].slot = call[c].slot
  BY <1>1, <1>3, CallMoves
<1> QED
  BY <1>4, <1>5, CallKey

\* Every step of a put call preserves the invariant, in one of two ways: the
\* call moves on and the objects stay, or its data is written under its key.
LEMMA PutMoves ==
  ASSUME StoreInv, NEW c \in Clients, NEW s \in PutSteps \ {"idle"}, Goto(c, s),
         call[c].step # "idle", UNCHANGED <<objects, versions, bucket, uri, tampered>>,
         s = "stored" => objects[call[c].key] # Absent
  PROVE  StoreInv'
<1>1. StoreTypeOK'
  BY GotoFacts DEF StoreInv, StoreTypeOK
<1>2. CallsOK'
  BY GotoFacts DEF StoreInv, CallsOK
<1>3. UrisOK'
  BY GotoFacts DEF StoreInv, UrisOK
<1>4. Clean'
  BY GotoFacts DEF StoreInv, Clean
<1> QED
  BY <1>1, <1>2, <1>3, <1>4 DEF StoreInv

\* Both kinds of write put the named payload under the key.
LEMMA PutWrites ==
  ASSUME StoreInv, NEW c \in Clients, NEW s \in {"stored", "error"}, Goto(c, s),
         call[c].step # "idle", Wrote(c), UNCHANGED <<bucket, uri, tampered>>
  PROVE  StoreInv'
<1>1. s \in PutSteps
  BY DEF PutSteps
<1>2. /\ objects' \in [Keys -> Data \cup {Absent}]
      /\ objects'[call[c].key] = call[c].data
      /\ \A k \in Keys : k # call[c].key => objects'[k] = objects[k]
      /\ call[c].data # Absent
  BY <1>1, GotoFacts, RawStoreAssumption DEF Wrote, StoreInv, StoreTypeOK
<1>3. StoreTypeOK'
  <2>1. versions' \in [Keys -> Histories]
    BY <1>1, GotoFacts, VersionAdded DEF Wrote, StoreInv, StoreTypeOK
  <2> QED
    BY <1>1, <1>2, <2>1, GotoFacts DEF StoreInv, StoreTypeOK
<1>4. CallsOK'
  BY <1>1, GotoFacts DEF StoreInv, CallsOK
<1>5. UrisOK'
  BY <1>1, GotoFacts DEF StoreInv, UrisOK
<1>6. Clean'
  <2> SUFFICES ASSUME tampered = 0
               PROVE  /\ \A k \in Keys : k.gen = "uuid" => objects'[k] \in {k.sum, Absent}
                      /\ \A row \in Rows :
                           uri[row] \in Keys /\ uri[row].gen = "uuid" => objects'[uri[row]] # Absent
                      /\ \A b \in Clients : call'[b].step = "stored" => objects'[call'[b].key] # Absent
    BY DEF Clean
  <2>1. \A k \in Keys : k.gen = "uuid" => objects'[k] \in {k.sum, Absent}
    BY <1>1, <1>2, GotoFacts DEF StoreInv, Clean
  <2>2. \A row \in Rows : uri[row] \in Keys /\ uri[row].gen = "uuid" => objects'[uri[row]] # Absent
    BY <1>2 DEF StoreInv, Clean
  <2>3. \A b \in Clients : call[b].step # "idle" => call[b].key \in Keys
    BY KeyFacts DEF StoreInv, CallsOK
  <2>4. \A b \in Clients : call'[b].step = "stored" => objects'[call'[b].key] # Absent
    BY <1>1, <1>2, <2>3, GotoFacts DEF StoreInv, Clean
  <2> QED
    BY <2>1, <2>2, <2>4
<1> QED
  BY <1>3, <1>4, <1>5, <1>6 DEF StoreInv

\* Every step of put keeps the invariant.
LEMMA PutPreserves ==
  ASSUME StoreInv, NEW c \in Clients, PutStep(c)
  PROVE  StoreInv'
<1> USE DEF PutSteps
<1>1. CASE PutCreateOnly(c)
  BY <1>1, PutMoves, PutWrites DEF PutCreateOnly
<1>2. CASE PutCheck(c)
  BY <1>2, PutMoves DEF PutCheck
<1>3. CASE PutWrite(c)
  BY <1>3, PutWrites DEF PutWrite
<1>4. CASE PutVerify(c)
  BY <1>4, PutMoves DEF PutVerify, SameSize
<1>5. CASE PutFails(c)
  BY <1>5, PutMoves, PutWrites DEF PutFails
<1> QED
  BY <1>1, <1>2, <1>3, <1>4, <1>5 DEF PutStep

\* A call that ends, or one that begins.
LEMMA CallReplaced ==
  ASSUME StoreInv, NEW c \in Clients, NEW x \in PutCalls,
         call' = [call EXCEPT ![c] = x], UNCHANGED <<objects, versions, bucket, uri, tampered>>,
         \/ x.step = "idle"
         \/ /\ x.step = "put" /\ x.slot \in Slots /\ x.data \in Data
            /\ x.key = TenantKey(x.slot, x.data)
  PROVE  StoreInv'
<1>1. /\ call' \in [Clients -> PutCalls] /\ call'[c] = x
      /\ \A b \in Clients \ {c} : call'[b] = call[b]
  BY DEF StoreInv, StoreTypeOK
<1>2. StoreTypeOK' /\ UrisOK'
  BY <1>1 DEF StoreInv, StoreTypeOK, UrisOK
<1>3. CallsOK'
  BY <1>1 DEF StoreInv, CallsOK
<1>4. Clean'
  BY <1>1 DEF StoreInv, Clean
<1> QED
  BY <1>2, <1>3, <1>4 DEF StoreInv

\* A record is saved with the key of its own payload.
LEMMA RecordPreserves ==
  ASSUME StoreInv, NEW c \in Clients, RecordPayload(c)
  PROVE  StoreInv'
<1> DEFINE row == [slot |-> call[c].slot, sum |-> call[c].data]
<1>1. /\ row \in Rows /\ row.sum = call[c].data
      /\ call[c].key \in Keys /\ call[c].key.sum = row.sum
  BY KeyFacts DEF RecordPayload, StoreInv, CallsOK
<1>2. \/ uri' = uri
      \/ uri' = [uri EXCEPT ![row] = call[c].key]
  BY DEF RecordPayload
<1>3. /\ call' \in [Clients -> PutCalls] /\ call'[c].step = "idle"
      /\ \A b \in Clients \ {c} : call'[b] = call[b]
      /\ UNCHANGED <<objects, versions, bucket, tampered>>
  BY NoPutType DEF RecordPayload, StoreInv, StoreTypeOK
<1>4. StoreTypeOK'
  BY <1>1, <1>2, <1>3 DEF StoreInv, StoreTypeOK
<1>5. CallsOK'
  BY <1>3 DEF StoreInv, CallsOK
<1>6. UrisOK'
  BY <1>1, <1>2 DEF StoreInv, StoreTypeOK, UrisOK
<1>7. Clean'
  <2>1. tampered = 0 => objects[call[c].key] # Absent
    BY DEF RecordPayload, StoreInv, Clean
  <2> QED
    BY <1>1, <1>2, <1>3, <2>1 DEF StoreInv, StoreTypeOK, Clean
<1> QED
  BY <1>3, <1>4, <1>5, <1>6, <1>7 DEF StoreInv

\* The steps of store_raw_payload keep the invariant.
LEMMA WriterPreserves ==
  ASSUME StoreInv, NEW c \in Clients, WriterStep(c)
  PROVE  StoreInv'
<1>1. ASSUME NEW slot \in Slots, NEW d \in Data, StoreRawPayload(c, slot, d)
      PROVE  StoreInv'
  <2>1. PutCall(slot, d) \in PutCalls
    BY KeyFacts DEF PutCall, PutCalls, PutSteps
  <2>2. /\ PutCall(slot, d).step = "put" /\ PutCall(slot, d).slot = slot
        /\ PutCall(slot, d).data = d /\ PutCall(slot, d).key = TenantKey(slot, d)
    BY DEF PutCall
  <2> QED
    BY <1>1, <2>1, <2>2, CallReplaced DEF StoreRawPayload
<1>2. CASE PutStep(c)
  BY <1>2, PutPreserves
<1>3. CASE RecordPayload(c)
  BY <1>3, RecordPreserves
<1>4. CASE StoreAborted(c)
  BY <1>4, NoPutType, CallReplaced DEF StoreAborted
<1> QED
  BY <1>1, <1>2, <1>3, <1>4 DEF WriterStep

\* Together: every step keeps the invariant.
LEMMA StoreInvStep == StoreInv /\ [StoreNext]_storeVars => StoreInv'
<1> SUFFICES ASSUME StoreInv, [StoreNext]_storeVars PROVE StoreInv'
  OBVIOUS
<1>1. ASSUME NEW c \in Writers, WriterStep(c) PROVE StoreInv'
  BY <1>1, WriterPreserves, RawStoreAssumption
<1>2. CASE EnsureBucket
  BY <1>2 DEF EnsureBucket, StoreInv, StoreTypeOK, CallsOK, UrisOK, Clean
<1>3. ASSUME NEW k \in Keys, NEW v \in Data \cup {Absent}, Tamper(k, v) PROVE StoreInv'
  <2>1. StoreTypeOK'
    <3>1. versions' \in [Keys -> Histories]
      BY <1>3, NoVersions DEF Tamper, StoreInv, StoreTypeOK
    <3> QED
      BY <1>3, <3>1 DEF Tamper, StoreInv, StoreTypeOK
  <2>2. tampered' # 0 /\ tampered' <= MaxTampering
    BY <1>3, RawStoreAssumption DEF Tamper, StoreInv, StoreTypeOK
  <2> QED
    BY <1>3, <2>1, <2>2 DEF Tamper, StoreInv, CallsOK, UrisOK, Clean
<1>4. CASE UNCHANGED storeVars
  BY <1>4 DEF storeVars, StoreInv, StoreTypeOK, CallsOK, UrisOK, Clean
<1> QED
  BY <1>1, <1>2, <1>3, <1>4 DEF StoreNext

\* The invariant holds in every reachable state.
LEMMA StoreInvariant == StoreSpec => []StoreInv
BY StoreInvInit, StoreInvStep, PTL DEF StoreSpec

\* Keys, rows and put calls are well formed in every reachable state.
THEOREM StoreTypeCorrect == StoreSpec => []StoreTypeOK
<1>1. StoreInv => StoreTypeOK
  BY DEF StoreInv
<1> QED
  BY <1>1, StoreInvariant, PTL

\* store_raw_payload puts before it records: every record can be read back and
\* yields its own payload, as long as nobody tampers with the bucket, with
\* conditional writes and with the check-then-write fallback alike.
THEOREM RecordsAreBacked == StoreSpec => []RecordBacked
<1>1. StoreInv => RecordBacked
  BY DEF StoreInv, RecordBacked, Clean, UrisOK, get
<1> QED
  BY <1>1, StoreInvariant, PTL

\* Whatever happens to the bucket, get() yields the payload of the record or an
\* error.
THEOREM ReadsAreSound == StoreSpec => []ReadsOwnPayload
<1>1. StoreInv => ReadsOwnPayload
  BY DEF StoreInv, ReadsOwnPayload, UrisOK, get
<1> QED
  BY <1>1, StoreInvariant, PTL

-----------------------------------------------------------------------------
(* put() never overwrites.                                                 *)

\* An object that does not exist has no history, and a call that is about to
\* write in the fallback has not written the object yet.
FreshWriters ==
  /\ \A k \in Keys : objects[k] = Absent => versions[k] = << >>
  /\ \A c \in Clients : call[c].step = "write" =>
       \A i \in DOMAIN versions[call[c].key] : versions[call[c].key][i].by # c

VersionInv == StoreInv /\ NeverOverwritten /\ FreshWriters

\* A write from the fallback, or one that creates the object.
LEMMA VersionsGrow ==
  ASSUME VersionInv, NEW c \in Clients, call[c].step # "idle", Wrote(c),
         call[c].step = "write" \/ objects[call[c].key] = Absent,
         NEW s \in {"stored", "error"}, Goto(c, s)
  PROVE  NeverOverwritten' /\ FreshWriters'
<1> DEFINE key == call[c].key
<1>1. s \in PutSteps /\ key \in Keys /\ StoreInv
  BY GotoFacts DEF VersionInv, PutSteps
<1>2. /\ versions[key] \in Histories /\ call[c] \in PutCalls
      /\ versions'[key] = Append(versions[key], [by |-> c, at |-> call[c].step])
      /\ \A k \in Keys \ {key} : versions'[k] = versions[k]
  BY <1>1 DEF StoreInv, StoreTypeOK, Wrote
<1>3. /\ Len(versions[key]) \in Nat
      /\ DOMAIN versions[key] = 1 .. Len(versions[key])
      /\ DOMAIN versions'[key] = 1 .. Len(versions[key]) + 1
      /\ \A i \in 1 .. Len(versions[key]) : versions'[key][i] = versions[key][i]
      /\ versions'[key][Len(versions[key]) + 1].by = c
      /\ versions'[key][Len(versions[key]) + 1].at = call[c].step
  BY <1>2, VersionAdded
<1>4. \A i \in 1 .. Len(versions[key]) : call[c].step = "write" /\ versions[key][i].by # c
  <2>1. CASE call[c].step = "write"
    BY <1>1, <1>3, <2>1 DEF VersionInv, FreshWriters
  <2>2. CASE objects[key] = Absent
    <3>1. versions[key] = << >>
      BY <1>1, <2>2 DEF VersionInv, FreshWriters
    <3>2. Len(versions[key]) = 0
      BY <3>1
    <3> QED
      BY <3>2
  <2> QED
    BY <2>1, <2>2
<1>5. NeverOverwritten'
  <2> SUFFICES ASSUME NEW k \in Keys, NEW i \in DOMAIN versions'[k], NEW j \in DOMAIN versions'[k],
                      i < j
               PROVE  versions'[k][j].at = "write" /\ versions'[k][i].by # versions'[k][j].by
    BY DEF NeverOverwritten
  <2>1. CASE k # key
    BY <1>2, <2>1 DEF VersionInv, NeverOverwritten
  <2>2. CASE k = key
    <3>1. i \in 1 .. Len(versions[key]) /\ j \in 1 .. Len(versions[key]) + 1
      BY <1>3, <2>2
    <3>2. CASE j = Len(versions[key]) + 1
      BY <1>3, <1>4, <2>2, <3>1, <3>2
    <3>3. CASE j \in 1 .. Len(versions[key])
      <4>1. versions[key][j].at = "write" /\ versions[key][i].by # versions[key][j].by
        BY <1>1, <1>3, <3>1, <3>3 DEF VersionInv, NeverOverwritten
      <4> QED
        BY <1>3, <2>2, <3>1, <3>3, <4>1
    <3> QED
      BY <1>3, <3>1, <3>2, <3>3
  <2> QED
    BY <2>1, <2>2
<1>6. \A k \in Keys : objects'[k] = Absent => versions'[k] = << >>
  <2>1. objects'[key] # Absent /\ \A k \in Keys \ {key} : objects'[k] = objects[k]
    BY <1>1, GotoFacts, RawStoreAssumption DEF Wrote, StoreInv, StoreTypeOK
  <2> QED
    BY <1>2, <2>1 DEF VersionInv, FreshWriters
<1>7. ASSUME NEW b \in Clients, call'[b].step = "write",
             NEW i \in DOMAIN versions'[call'[b].key]
      PROVE  versions'[call'[b].key][i].by # b
  <2>1. b # c /\ call'[b] = call[b]
    BY <1>1, <1>7, GotoFacts
  <2>2. call[b].key \in Keys
    BY <1>1, <1>7, <2>1, CallKey
  <2>3. \A n \in DOMAIN versions[call[b].key] : versions[call[b].key][n].by # b
    <3>1. call[b].step = "write"
      BY <1>7, <2>1
    <3> QED
      BY <3>1 DEF VersionInv, FreshWriters
  <2>4. i \in DOMAIN versions'[call[b].key]
    BY <1>7, <2>1
  <2>5. versions'[call[b].key][i].by # b
    <3>1. CASE call[b].key # key
      <4>1. versions'[call[b].key] = versions[call[b].key]
        BY <1>2, <2>2, <3>1
      <4> QED
        BY <2>3, <2>4, <4>1
    <3>2. CASE call[b].key = key
      <4>1. i \in 1 .. Len(versions[key]) + 1
        BY <1>3, <2>4, <3>2
      <4>2. CASE i = Len(versions[key]) + 1
        <5>1. versions'[key][i].by = c
          BY <1>3, <4>2
        <5> QED
          BY <2>1, <3>2, <5>1
      <4>3. CASE i \in 1 .. Len(versions[key])
        <5>1. versions'[key][i] = versions[key][i] /\ i \in DOMAIN versions[key]
          BY <1>3, <4>3
        <5> QED
          BY <2>3, <3>2, <5>1
      <4>4. i = Len(versions[key]) + 1 \/ i \in 1 .. Len(versions[key])
        BY <1>3, <4>1
      <4> QED
        BY <4>2, <4>3, <4>4
    <3> QED
      BY <3>1, <3>2
  <2>6. call'[b].key = call[b].key
    BY <2>1
  <2> QED
    BY <2>5, <2>6
<1> QED
  BY <1>5, <1>6, <1>7 DEF FreshWriters

\* Objects stay, and a call reaches the fallback's write only if its object is
\* absent.
LEMMA VersionsStay ==
  ASSUME VersionInv, UNCHANGED <<objects, versions>>, NEW c \in Clients,
         \A b \in Clients \ {c} : call'[b] = call[b],
         call'[c].step = "write" => /\ call'[c].key \in Keys
                                    /\ objects[call'[c].key] = Absent
  PROVE  NeverOverwritten' /\ FreshWriters'
BY DEF VersionInv, NeverOverwritten, FreshWriters

\* Every step of put() keeps the history as it should be.
LEMMA PutVersions ==
  ASSUME VersionInv, NEW c \in Clients, PutStep(c)
  PROVE  NeverOverwritten' /\ FreshWriters'
<1> USE DEF PutSteps
<1>1. StoreInv
  BY DEF VersionInv
<1>2. CASE PutCreateOnly(c)
  BY <1>1, <1>2, GotoFacts, VersionsGrow, VersionsStay DEF PutCreateOnly
<1>3. CASE PutCheck(c)
  BY <1>1, <1>3, GotoFacts, VersionsStay DEF PutCheck
<1>4. CASE PutWrite(c)
  BY <1>4, VersionsGrow DEF PutWrite
<1>5. CASE PutVerify(c)
  BY <1>1, <1>5, GotoFacts, VersionsStay DEF PutVerify
<1>6. CASE PutFails(c)
  BY <1>1, <1>6, GotoFacts, VersionsGrow, VersionsStay DEF PutFails
<1> QED
  BY <1>2, <1>3, <1>4, <1>5, <1>6 DEF PutStep

\* So does everything else that happens to the store.
LEMMA VersionInvStep == VersionInv /\ [StoreNext]_storeVars => VersionInv'
<1> SUFFICES ASSUME VersionInv, [StoreNext]_storeVars PROVE NeverOverwritten' /\ FreshWriters'
  BY StoreInvStep DEF VersionInv
<1>1. ASSUME NEW c \in Clients, WriterStep(c) PROVE NeverOverwritten' /\ FreshWriters'
  <2>1. ASSUME NEW slot \in Slots, NEW d \in Data, StoreRawPayload(c, slot, d)
        PROVE  NeverOverwritten' /\ FreshWriters'
    BY <2>1, VersionsStay DEF StoreRawPayload, PutCall, VersionInv, StoreInv, StoreTypeOK
  <2>2. CASE RecordPayload(c)
    BY <2>2, NoPutType, VersionsStay DEF RecordPayload, VersionInv, StoreInv, StoreTypeOK
  <2>3. CASE StoreAborted(c)
    BY <2>3, NoPutType, VersionsStay DEF StoreAborted, VersionInv, StoreInv, StoreTypeOK
  <2> QED
    BY <1>1, <2>1, <2>2, <2>3, PutVersions DEF WriterStep
<1>2. CASE EnsureBucket
  BY <1>2 DEF EnsureBucket, VersionInv, NeverOverwritten, FreshWriters
<1>3. ASSUME NEW k \in Keys, NEW v \in Data \cup {Absent}, Tamper(k, v)
      PROVE  NeverOverwritten' /\ FreshWriters'
  <2>1. /\ objects'[k] = v /\ \A x \in Keys \ {k} : objects'[x] = objects[x]
        /\ versions'[k] = IF v = Absent THEN << >> ELSE versions[k]
        /\ \A x \in Keys \ {k} : versions'[x] = versions[x]
        /\ call' = call
    BY <1>3 DEF Tamper, VersionInv, StoreInv, StoreTypeOK
  <2>2. DOMAIN << >> = {}
    OBVIOUS
  <2>3. \A c \in Clients : call[c].step = "write" => call[c].key \in Keys
    BY CallKey DEF VersionInv
  <2>4. \A x \in Keys : versions'[x] = versions[x] \/ versions'[x] = << >>
    BY <2>1
  <2>5. NeverOverwritten'
    BY <2>2, <2>4 DEF VersionInv, NeverOverwritten
  <2> QED
    BY <2>1, <2>2, <2>3, <2>4, <2>5 DEF VersionInv, FreshWriters
<1>4. CASE UNCHANGED storeVars
  BY <1>4 DEF storeVars, VersionInv, NeverOverwritten, FreshWriters
<1> QED
  BY <1>1, <1>2, <1>3, <1>4, RawStoreAssumption DEF StoreNext

\* The history is as it should be in every reachable state.
LEMMA VersionInvariant == StoreSpec => []VersionInv
<1>1. StoreInit => VersionInv
  <2> SUFFICES ASSUME StoreInit PROVE NeverOverwritten /\ FreshWriters
    BY StoreInvInit DEF VersionInv
  <2>1. DOMAIN << >> = {}
    OBVIOUS
  <2> QED
    BY <2>1, NoPutType DEF StoreInit, NeverOverwritten, FreshWriters
<1> QED
  BY <1>1, VersionInvStep, PTL DEF StoreSpec

\* put() replaces no object through a conditional write, and in the fallback only
\* what appeared between a call's own head_object and its put_object: IfNoneMatch
\* and head_object are what the proof rests on, not the content of the key.
THEOREM ObjectsAreImmutable == StoreSpec => []NeverOverwritten
<1>1. VersionInv => NeverOverwritten
  BY DEF VersionInv
<1> QED
  BY <1>1, VersionInvariant, PTL

\* No call is in the fallback and none has written from there.
NoFallback ==
  /\ \A c \in Clients : call[c].step \notin {"check", "write"}
  /\ \A k \in Keys : \A i \in DOMAIN versions[k] : versions[k][i].at # "write"

\* A store that decides every conditional put itself keeps the fallback unused.
LEMMA NoFallbackStep ==
  ASSUME "unsupported" \notin PutAnswers, StoreInv, NoFallback, [StoreNext]_storeVars
  PROVE  NoFallback'
<1>1. ASSUME NEW c \in Clients, \A b \in Clients \ {c} : call'[b] = call[b],
             call'[c].step \notin {"check", "write"}, UNCHANGED versions
      PROVE  NoFallback'
  BY <1>1 DEF NoFallback
<1>2. ASSUME NEW c \in Clients, NEW s \in {"stored", "error"}, Goto(c, s), Wrote(c),
             call[c].step # "idle"
      PROVE  NoFallback'
  <2> DEFINE key == call[c].key
  <2>1. /\ s \in PutSteps /\ key \in Keys /\ call'[c].step = s
        /\ \A b \in Clients \ {c} : call'[b] = call[b]
    BY <1>2, GotoFacts DEF PutSteps
  <2>2. /\ versions[key] \in Histories /\ call[c] \in PutCalls
        /\ versions'[key] = Append(versions[key], [by |-> c, at |-> call[c].step])
        /\ \A k \in Keys \ {key} : versions'[k] = versions[k]
    BY <1>2, <2>1 DEF StoreInv, StoreTypeOK, Wrote
  <2>3. /\ DOMAIN versions[key] = 1 .. Len(versions[key]) /\ Len(versions[key]) \in Nat
        /\ DOMAIN versions'[key] = 1 .. Len(versions[key]) + 1
        /\ \A i \in 1 .. Len(versions[key]) : versions'[key][i] = versions[key][i]
        /\ versions'[key][Len(versions[key]) + 1].at = call[c].step
    BY <2>2, VersionAdded
  <2>4. \A i \in DOMAIN versions'[key] : versions'[key][i].at # "write"
    <3>1. \A i \in 1 .. Len(versions[key]) : versions[key][i].at # "write"
      BY <2>1, <2>3 DEF NoFallback
    <3>2. call[c].step # "write"
      BY DEF NoFallback
    <3>3. \A i \in DOMAIN versions'[key] : i \in 1 .. Len(versions[key]) \/ i = Len(versions[key]) + 1
      BY <2>3
    <3> QED
      BY <2>3, <3>1, <3>2, <3>3
  <2> QED
    BY <2>1, <2>2, <2>4 DEF NoFallback
<1>3. ASSUME NEW c \in Clients, PutStep(c) PROVE NoFallback'
  <2> USE DEF PutSteps
  <2>1. CASE PutCreateOnly(c)
    BY <1>1, <1>2, <2>1, GotoFacts DEF PutCreateOnly
  <2>2. ~PutCheck(c) /\ ~PutWrite(c)
    BY DEF PutCheck, PutWrite, NoFallback
  <2>3. CASE PutVerify(c)
    BY <1>1, <2>3, GotoFacts DEF PutVerify
  <2>4. CASE PutFails(c)
    BY <1>1, <1>2, <2>4, GotoFacts DEF PutFails
  <2> QED
    BY <1>3, <2>1, <2>2, <2>3, <2>4 DEF PutStep
<1>4. ASSUME NEW c \in Clients, WriterStep(c) PROVE NoFallback'
  <2>1. ASSUME NEW slot \in Slots, NEW d \in Data, StoreRawPayload(c, slot, d)
        PROVE  NoFallback'
    BY <1>1, <2>1 DEF StoreRawPayload, PutCall, StoreInv, StoreTypeOK
  <2>2. CASE RecordPayload(c)
    BY <1>1, <2>2, NoPutType DEF RecordPayload, StoreInv, StoreTypeOK
  <2>3. CASE StoreAborted(c)
    BY <1>1, <2>3, NoPutType DEF StoreAborted, StoreInv, StoreTypeOK
  <2> QED
    BY <1>3, <1>4, <2>1, <2>2, <2>3 DEF WriterStep
<1>5. CASE EnsureBucket
  BY <1>5 DEF EnsureBucket, NoFallback
<1>6. ASSUME NEW k \in Keys, NEW v \in Data \cup {Absent}, Tamper(k, v) PROVE NoFallback'
  <2>1. /\ call' = call
        /\ \A x \in Keys : versions'[x] = versions[x] \/ versions'[x] = << >>
    BY <1>6 DEF Tamper, StoreInv, StoreTypeOK
  <2>2. DOMAIN << >> = {}
    OBVIOUS
  <2> QED
    BY <2>1, <2>2 DEF NoFallback
<1>7. CASE UNCHANGED storeVars
  BY <1>7 DEF storeVars, NoFallback
<1> QED
  BY <1>4, <1>5, <1>6, <1>7, RawStoreAssumption DEF StoreNext

\* Where the store honours conditional writes, put() writes an object once:
\* whatever calls are repeated, fail after their write or run at the same time,
\* an object that exists has one version until somebody else deletes it.
THEOREM WrittenOnce ==
  ASSUME "unsupported" \notin PutAnswers
  PROVE  StoreSpec => [](\A k \in Keys : Len(versions[k]) <= 1)
<1>1. StoreInit => NoFallback
  <2>1. DOMAIN << >> = {}
    OBVIOUS
  <2> QED
    BY <2>1, NoPutType DEF StoreInit, NoFallback
<1>2. StoreInv /\ NoFallback /\ [StoreNext]_storeVars => NoFallback'
  BY NoFallbackStep
<1>3. VersionInv /\ NoFallback => \A k \in Keys : Len(versions[k]) <= 1
  <2> SUFFICES ASSUME VersionInv, NoFallback, NEW k \in Keys, ~(Len(versions[k]) <= 1)
               PROVE  FALSE
    OBVIOUS
  <2>1. Len(versions[k]) \in Nat /\ DOMAIN versions[k] = 1 .. Len(versions[k])
    <3>1. versions[k] \in Histories
      BY DEF VersionInv, StoreInv, StoreTypeOK
    <3> QED
      BY <3>1 DEF Histories
  <2>2. 1 \in DOMAIN versions[k] /\ 2 \in DOMAIN versions[k] /\ 1 < 2
    BY <2>1
  <2>3. versions[k][2].at = "write"
    BY <2>2 DEF VersionInv, NeverOverwritten
  <2> QED
    BY <2>2, <2>3 DEF NoFallback
<1> QED
  BY <1>1, <1>2, <1>3, StoreInvariant, VersionInvariant, PTL DEF StoreSpec
=============================================================================
