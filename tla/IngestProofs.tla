---------------------------- MODULE IngestProofs ----------------------------
(***************************************************************************)
(* Machine-checked proofs about Ingest, for every set of environments,     *)
(* requests and bodies and every value of the bounds.                      *)
(***************************************************************************)
EXTENDS Ingest, TLAPS

-----------------------------------------------------------------------------
(* Facts about requests.                                                   *)

(* A request has a finite sequence of items, whatever its route.           *)
LEMMA ItemsOfType ==
    ASSUME NEW q \in Requests
    PROVE  ItemsOf(q) \in Seq(Item)
<1>1. q.body \in Bodies
  BY IngestAssumption DEF Request
<1>2. CASE q.route = "store"
  <2>1. StoreEventId[q.body] \in EventIds \cup {NoId}
    BY <1>1, IngestAssumption
  <2>2. [type |-> "event", id |-> StoreEventId[q.body]] \in Item
    BY <2>1 DEF Item, ItemTypes
  <2>3. ItemsOf(q) = << [type |-> "event", id |-> StoreEventId[q.body]] >>
    BY <1>2 DEF ItemsOf
  <2> QED
    BY <2>2, <2>3
<1>3. CASE q.route # "store"
  BY <1>1, <1>3, IngestAssumption DEF ItemsOf
<1> QED
  BY <1>2, <1>3

(* The loop of persist visits the naturals below the number of items.      *)
LEMMA SeqsType ==
    ASSUME NEW q \in Requests
    PROVE  /\ Len(ItemsOf(q)) \in Nat
           /\ Seqs(q) \subseteq Nat
           /\ \A i \in Nat : i \in Seqs(q) <=> i < Len(ItemsOf(q))
<1>1. Len(ItemsOf(q)) \in Nat
  BY ItemsOfType
<1> QED
  BY <1>1 DEF Seqs

LEMMA RestingType == Resting \in Invocation /\ Resting.pc = "idle"
<1>1. (CHOOSE q \in Requests : TRUE) \in Requests
  BY IngestAssumption
<1>2. 0 \in Days
  BY IngestAssumption DEF Days
<1> QED
  BY <1>1, <1>2 DEF Resting, Invocation, Pcs

-----------------------------------------------------------------------------
(* Type correctness.                                                       *)

(* The call in progress writes what a request owns.                        *)
LEMMA CallsInProgress ==
    ASSUME TypeOK, NEW e \in Envs
    PROVE  /\ IsEnvelope(EnvelopeWrite(e).key, EnvelopeWrite(e).value)
           /\ inv[e].item \in Seqs(inv[e].req) =>
                /\ IsPayload(ItemWrite(e).key, ItemWrite(e).value)
                /\ IsRow(RowWrite(e).key, RowWrite(e).value)
<1>1. inv[e].req \in Requests /\ inv[e].date \in Days
  BY DEF TypeOK, Invocation
<1> QED
  BY <1>1 DEF EnvelopeWrite, ItemWrite, RowWrite, IsEnvelope, IsPayload, IsRow

(* An invocation sent to another position of its loop stays well formed.   *)
LEMMA GoToType ==
    ASSUME TypeOK, NEW e \in Envs, NEW i \in Nat, NEW f \in SUBSET Nat, GoTo(e, i, f)
    PROVE  inv' \in [Envs -> Invocation]
<1>1. inv[e] \in Invocation
  BY DEF TypeOK
<1>2. inv'[e] \in Invocation
  BY <1>1 DEF GoTo, TypeOK, Invocation, Pcs
<1> QED
  BY <1>2 DEF GoTo, TypeOK

(* An environment that answers, or is killed, is free again.               *)
LEMMA StopType ==
    ASSUME TypeOK, NEW e \in Envs, Stop(e)
    PROVE  inv' \in [Envs -> Invocation]
BY RestingType DEF TypeOK, Stop

(* A call that fails leaves only calls that requests make.                 *)
LEMMA LateType ==
    ASSUME TypeOK, NEW w, IsWrite(w), NoEffectOrLate(w)
    PROVE  \A x \in late' : IsWrite(x)
BY DEF TypeOK, NoEffectOrLate

(* IsWrite for the three calls of an invocation.                           *)
LEMMA CallsAreWrites ==
    ASSUME TypeOK, NEW e \in Envs
    PROVE  /\ IsWrite(EnvelopeWrite(e))
           /\ inv[e].item \in Seqs(inv[e].req) => IsWrite(ItemWrite(e)) /\ IsWrite(RowWrite(e))
<1>1. /\ EnvelopeWrite(e).to = "envelopes"
      /\ ItemWrite(e).to = "payloads"
      /\ RowWrite(e).to = "rows"
  BY DEF EnvelopeWrite, ItemWrite, RowWrite
<1> QED
  BY <1>1, CallsInProgress DEF IsWrite

-----------------------------------------------------------------------------
(* The inductive invariant.                                                *)

SourceOf(k) == [project |-> k.project, date |-> k.date, id |-> k.id]

\* The parts of NoOrphanedItems, RowsPointToObjects and AckedIsStored that
\* say what exists, for shared event ids too.
StorageOrder ==
    /\ \A k \in DOMAIN payloads : SourceOf(k) \in DOMAIN envelopes
    /\ \A k \in DOMAIN rows : rows[k].s3_path \in DOMAIN payloads
    /\ \A a \in acked :
         /\ EnvKey(a.req, a.date) \in DOMAIN envelopes
         /\ Seqs(a.req) # {} => Seqs(a.req) \ a.failed # {}
         /\ \A i \in Seqs(a.req) \ a.failed :
              /\ ItemKey(a.req, a.date, i) \in DOMAIN payloads
              /\ RowKey(a.req, i) \in DOMAIN rows

IInv == TypeOK /\ StorageOrder /\ NothingOutOfOrder

(* No step removes an archive, an object or a row.                         *)
NothingRemoved ==
    /\ DOMAIN envelopes \subseteq DOMAIN envelopes'
    /\ DOMAIN payloads \subseteq DOMAIN payloads'
    /\ DOMAIN rows \subseteq DOMAIN rows'

LEMMA Growth ==
    ASSUME [Next]_vars
    PROVE  NothingRemoved
<1>1. ASSUME NEW e \in Envs, PutEnvelope(e)
      PROVE  NothingRemoved
  BY <1>1 DEF Put, PutEnvelope, NothingRemoved
<1>2. ASSUME NEW e \in Envs, PutItem(e)
      PROVE  NothingRemoved
  BY <1>2 DEF Put, PutItem, NothingRemoved
<1>3. ASSUME NEW e \in Envs, PutEvent(e)
      PROVE  NothingRemoved
  BY <1>3 DEF Put, PutEvent, NothingRemoved
<1>4. ASSUME NEW w \in late, Deliver(w)
      PROVE  NothingRemoved
  BY <1>4 DEF Put, Deliver, NothingRemoved
<1>5. CASE UNCHANGED <<envelopes, payloads, rows>>
  BY <1>5 DEF NothingRemoved
<1> QED
  BY <1>1, <1>2, <1>3, <1>4, <1>5
  DEF Next, Proceed, vars, Receive, Refuse, Admit, PutEnvelopeFails, PutItemFails,
      PutEventFails, RespondError, RespondId, Kill, Midnight

(* Initially nothing is stored and nobody runs.                            *)
LEMMA InitIInv == Init => IInv
<1> SUFFICES ASSUME Init PROVE IInv
  OBVIOUS
<1>1. TypeOK
  BY RestingType, IngestAssumption DEF Init, TypeOK, Days
<1>2. StorageOrder
  BY DEF Init, StorageOrder
<1>3. NothingOutOfOrder
  BY RestingType DEF Init, NothingOutOfOrder, Accounted
<1> QED
  BY <1>1, <1>2, <1>3 DEF IInv

(* The position of an invocation that is writing an item is one of its     *)
(* items.                                                                  *)
LEMMA AtAnItem ==
    ASSUME IInv, NEW e \in Envs, inv[e].pc \in {"object", "row"}
    PROVE  /\ inv[e].item \in Seqs(inv[e].req)
           /\ inv[e].item \in Nat
           /\ inv[e].item + 1 \in Nat
           /\ inv[e].failed \in SUBSET Nat
           /\ inv[e].failed \cup {inv[e].item} \in SUBSET Nat
<1>1. inv[e].item \in Nat /\ inv[e].failed \in SUBSET Nat
  BY DEF IInv, TypeOK, Invocation
<1> QED
  BY <1>1 DEF IInv, NothingOutOfOrder, Accounted

(* Type correctness is preserved by every step.                            *)
LEMMA TypeStep ==
    ASSUME IInv, [Next]_vars
    PROVE  TypeOK'
<1> USE DEF IInv
<1>1. ASSUME NEW e \in Envs, NEW q \in Requests, Receive(e, q)
      PROVE  TypeOK'
  <2>1. [pc |-> "admit", req |-> q, date |-> day, item |-> 0, failed |-> {}] \in Invocation
    BY DEF TypeOK, Invocation, Pcs
  <2> QED
    BY <1>1, <2>1, IngestAssumption DEF Receive, TypeOK
<1>2. ASSUME NEW e \in Envs, Refuse(e) \/ RespondError(e) \/ Kill(e)
      PROVE  TypeOK'
  BY <1>2, StopType DEF Refuse, RespondError, Kill, TypeOK
<1>3. ASSUME NEW e \in Envs, Admit(e)
      PROVE  TypeOK'
  BY <1>3 DEF Admit, TypeOK, Invocation, Pcs
<1>4. ASSUME NEW e \in Envs, PutEnvelope(e)
      PROVE  TypeOK'
  <2>1. inv' \in [Envs -> Invocation]
    BY <1>4, GoToType DEF PutEnvelope
  <2>2. \A k \in DOMAIN envelopes' : IsEnvelope(k, envelopes'[k])
    BY <1>4, CallsInProgress DEF Put, PutEnvelope, TypeOK
  <2> QED
    BY <1>4, <2>1, <2>2 DEF PutEnvelope, TypeOK
<1>5. ASSUME NEW e \in Envs, PutEnvelopeFails(e)
      PROVE  TypeOK'
  <2>1. \A x \in late' : IsWrite(x)
    BY <1>5, LateType, CallsAreWrites DEF PutEnvelopeFails
  <2> QED
    BY <1>5, <2>1, StopType DEF PutEnvelopeFails, TypeOK
<1>6. ASSUME NEW e \in Envs, PutItem(e)
      PROVE  TypeOK'
  <2>1. \A k \in DOMAIN payloads' : IsPayload(k, payloads'[k])
    BY <1>6, AtAnItem, CallsInProgress DEF Put, PutItem, TypeOK
  <2>2. inv' \in [Envs -> Invocation]
    BY <1>6 DEF PutItem, TypeOK, Invocation, Pcs
  <2> QED
    BY <1>6, <2>1, <2>2 DEF PutItem, TypeOK
<1>7. ASSUME NEW e \in Envs, PutItemFails(e)
      PROVE  TypeOK'
  <2>1. inv' \in [Envs -> Invocation]
    BY <1>7, AtAnItem, GoToType DEF PutItemFails
  <2>2. \A x \in late' : IsWrite(x)
    BY <1>7, AtAnItem, LateType, CallsAreWrites DEF PutItemFails
  <2> QED
    BY <1>7, <2>1, <2>2 DEF PutItemFails, TypeOK
<1>8. ASSUME NEW e \in Envs, PutEvent(e)
      PROVE  TypeOK'
  <2>1. inv' \in [Envs -> Invocation]
    BY <1>8, AtAnItem, GoToType DEF PutEvent
  <2>2. \A k \in DOMAIN rows' : IsRow(k, rows'[k])
    BY <1>8, AtAnItem, CallsInProgress DEF Put, PutEvent, TypeOK
  <2> QED
    BY <1>8, <2>1, <2>2 DEF PutEvent, TypeOK
<1>9. ASSUME NEW e \in Envs, PutEventFails(e)
      PROVE  TypeOK'
  <2>1. inv' \in [Envs -> Invocation]
    BY <1>9, AtAnItem, GoToType DEF PutEventFails
  <2>2. \A x \in late' : IsWrite(x)
    BY <1>9, AtAnItem, LateType, CallsAreWrites DEF PutEventFails
  <2> QED
    BY <1>9, <2>1, <2>2 DEF PutEventFails, TypeOK
<1>10. ASSUME NEW e \in Envs, RespondId(e)
       PROVE  TypeOK'
  <2>1. [req |-> inv[e].req, date |-> inv[e].date, failed |-> inv[e].failed]
          \in [req: Requests, date: Days, failed: SUBSET Nat]
    BY DEF TypeOK, Invocation
  <2> QED
    BY <1>10, <2>1, StopType DEF RespondId, TypeOK
<1>11. ASSUME NEW w \in late, Deliver(w)
       PROVE  TypeOK'
  <2>1. IsWrite(w)
    BY DEF TypeOK
  <2>2. \A k \in DOMAIN envelopes' : IsEnvelope(k, envelopes'[k])
    BY <1>11, <2>1 DEF Put, Deliver, TypeOK, IsWrite
  <2>3. \A k \in DOMAIN payloads' : IsPayload(k, payloads'[k])
    BY <1>11, <2>1 DEF Put, Deliver, TypeOK, IsWrite
  <2>4. \A k \in DOMAIN rows' : IsRow(k, rows'[k])
    BY <1>11, <2>1 DEF Put, Deliver, TypeOK, IsWrite
  <2> QED
    BY <1>11, <2>2, <2>3, <2>4 DEF Deliver, TypeOK
<1>12. CASE Midnight
  BY <1>12, IngestAssumption DEF Midnight, TypeOK, Days
<1>13. CASE UNCHANGED vars
  BY <1>13 DEF vars, TypeOK
<1> QED
  BY <1>1, <1>2, <1>3, <1>4, <1>5, <1>6, <1>7, <1>8, <1>9, <1>10, <1>11, <1>12, <1>13
  DEF Next, Proceed
(* Archives before objects before rows before acknowledgments: preserved.  *)
LEMMA OrderStep ==
    ASSUME IInv, [Next]_vars
    PROVE  StorageOrder'
<1> USE DEF IInv
<1>1. NothingRemoved
  BY Growth
<1>2. ASSUME UNCHANGED <<payloads, rows, acked>>
      PROVE  StorageOrder'
  BY <1>1, <1>2 DEF StorageOrder, NothingRemoved
<1>3. ASSUME NEW e \in Envs, PutItem(e)
      PROVE  StorageOrder'
  <2>1. SourceOf(ItemWrite(e).key) = EnvKey(inv[e].req, inv[e].date)
    BY DEF SourceOf, ItemWrite, ItemKey, EnvKey
  <2>2. SourceOf(ItemWrite(e).key) \in DOMAIN envelopes
    BY <1>3, <2>1 DEF PutItem, NothingOutOfOrder, Accounted
  <2>3. \A k \in DOMAIN payloads' : SourceOf(k) \in DOMAIN envelopes'
    BY <1>3, <2>2 DEF PutItem, Put, StorageOrder
  <2> QED
    BY <1>1, <1>3, <2>3 DEF PutItem, StorageOrder, NothingRemoved
<1>4. ASSUME NEW e \in Envs, PutEvent(e)
      PROVE  StorageOrder'
  <2>1. RowWrite(e).value.s3_path = ItemKey(inv[e].req, inv[e].date, inv[e].item)
    BY DEF RowWrite, EventRow
  <2>2. RowWrite(e).value.s3_path \in DOMAIN payloads
    BY <1>4, <2>1 DEF PutEvent, NothingOutOfOrder, Accounted
  <2>3. \A k \in DOMAIN rows' : rows'[k].s3_path \in DOMAIN payloads'
    BY <1>4, <2>2 DEF PutEvent, Put, StorageOrder
  <2> QED
    BY <1>1, <1>4, <2>3 DEF PutEvent, StorageOrder, NothingRemoved
<1>5. ASSUME NEW e \in Envs, RespondId(e)
      PROVE  StorageOrder'
  <2> DEFINE a == [req |-> inv[e].req, date |-> inv[e].date, failed |-> inv[e].failed]
  <2>1. /\ EnvKey(a.req, a.date) \in DOMAIN envelopes
        /\ \A i \in Seqs(a.req) \ a.failed :
             /\ ItemKey(a.req, a.date, i) \in DOMAIN payloads
             /\ RowKey(a.req, i) \in DOMAIN rows
    BY <1>5 DEF RespondId, NothingOutOfOrder, Accounted
  <2>2. Seqs(a.req) # {} => Seqs(a.req) \ a.failed # {}
    BY <1>5 DEF RespondId, AllFailed, NothingOutOfOrder, Accounted
  <2>3. acked' = acked \cup {a}
    BY <1>5 DEF RespondId
  <2> HIDE DEF a
  <2> QED
    BY <1>5, <2>1, <2>2, <2>3 DEF RespondId, StorageOrder
<1>6. ASSUME NEW w \in late, Deliver(w)
      PROVE  StorageOrder'
  <2>1. InOrder(w)
    BY DEF NothingOutOfOrder
  <2>2. \A k \in DOMAIN payloads' : SourceOf(k) \in DOMAIN envelopes'
    BY <1>1, <1>6, <2>1 DEF Deliver, Put, StorageOrder, InOrder, SourceOf, NothingRemoved
  <2>3. \A k \in DOMAIN rows' : rows'[k].s3_path \in DOMAIN payloads'
    BY <1>1, <1>6, <2>1 DEF Deliver, Put, StorageOrder, InOrder, NothingRemoved
  <2> QED
    BY <1>1, <1>6, <2>2, <2>3 DEF Deliver, StorageOrder, NothingRemoved
<1> QED
  BY <1>2, <1>3, <1>4, <1>5, <1>6
  DEF Next, Proceed, vars, Receive, Refuse, Admit, PutEnvelope, PutEnvelopeFails,
      PutItemFails, PutEventFails, RespondError, Kill, Midnight

(* A late call stays in order; the one that joins it is in order.          *)
LEMMA LateInOrder ==
    ASSUME IInv, NothingRemoved, NEW w, InOrder(w), late' \subseteq late \cup {w}
    PROVE  \A x \in late' : InOrder(x)'
BY DEF IInv, NothingOutOfOrder, InOrder, NothingRemoved

(* An invocation that does not move stays accounted for.                   *)
LEMMA OthersAccounted ==
    ASSUME IInv, NothingRemoved, NEW f \in Envs, inv'[f] = inv[f]
    PROVE  Accounted(inv[f])'
BY DEF IInv, NothingOutOfOrder, Accounted, NothingRemoved

(* A free environment is accounted for.                                    *)
LEMMA StoppedAccounted ==
    ASSUME IInv, NothingRemoved, NEW e \in Envs, Stop(e)
    PROVE  \A f \in Envs : Accounted(inv[f])'
<1> SUFFICES ASSUME NEW f \in Envs PROVE Accounted(inv[f])'
  OBVIOUS
<1>1. CASE f = e
  <2>1. inv'[f] = Resting
    BY <1>1 DEF Stop, IInv, TypeOK
  <2> QED
    BY <2>1, RestingType DEF Accounted
<1>2. CASE f # e
  BY <1>2, OthersAccounted DEF Stop, IInv, TypeOK
<1> QED
  BY <1>1, <1>2

(* The loop goes from item i to i + 1: item i has failed or is complete.   *)
LEMMA GoToAccounted ==
    ASSUME IInv, NothingRemoved, NEW e \in Envs, NEW i \in Nat, NEW f \in SUBSET Nat,
           GoTo(e, i, f),
           EnvKey(inv[e].req, inv[e].date) \in DOMAIN envelopes',
           i <= Len(ItemsOf(inv[e].req)),
           f \subseteq Seqs(inv[e].req),
           \A j \in Seqs(inv[e].req) \ f : j < i =>
             /\ ItemKey(inv[e].req, inv[e].date, j) \in DOMAIN payloads'
             /\ RowKey(inv[e].req, j) \in DOMAIN rows'
    PROVE  \A g \in Envs : Accounted(inv[g])'
<1> SUFFICES ASSUME NEW g \in Envs PROVE Accounted(inv[g])'
  OBVIOUS
<1>1. CASE g = e
  <2>1. inv[e].req \in Requests
    BY DEF IInv, TypeOK, Invocation
  <2>2. inv'[e] = [pc     |-> IF i \in Seqs(inv[e].req) THEN "object" ELSE "respond",
                   req    |-> inv[e].req,
                   date   |-> inv[e].date,
                   item   |-> i,
                   failed |-> f]
    BY DEF GoTo, IInv, TypeOK
  <2>3. i \notin Seqs(inv[e].req) => \A j \in Seqs(inv[e].req) : j < i
    BY <2>1, SeqsType
  <2> QED
    BY <1>1, <2>2, <2>3 DEF Accounted
<1>2. CASE g # e
  BY <1>2, OthersAccounted DEF GoTo, IInv, TypeOK
<1> QED
  BY <1>1, <1>2

(* The same for the three ways the loop goes on from the current item.     *)
LEMMA NextItemAccounted ==
    ASSUME IInv, NothingRemoved, NEW e \in Envs, inv[e].pc \in {"object", "row"},
           NEW f \in SUBSET Nat, f \in {inv[e].failed, inv[e].failed \cup {inv[e].item}},
           GoTo(e, inv[e].item + 1, f),
           inv[e].item \notin f =>
             /\ ItemKey(inv[e].req, inv[e].date, inv[e].item) \in DOMAIN payloads'
             /\ RowKey(inv[e].req, inv[e].item) \in DOMAIN rows'
    PROVE  \A g \in Envs : Accounted(inv[g])'
<1>1. /\ inv[e].item \in Seqs(inv[e].req)
      /\ inv[e].item \in Nat
      /\ inv[e].item + 1 \in Nat
  BY AtAnItem
<1>2. inv[e].req \in Requests
  BY DEF IInv, TypeOK, Invocation
<1>3. inv[e].item + 1 <= Len(ItemsOf(inv[e].req))
  BY <1>1, <1>2, SeqsType
<1>4. Accounted(inv[e])
  BY DEF IInv, NothingOutOfOrder
<1>5. f \subseteq Seqs(inv[e].req)
  BY <1>1, <1>4 DEF Accounted
<1>6. EnvKey(inv[e].req, inv[e].date) \in DOMAIN envelopes'
  BY <1>4 DEF Accounted, NothingRemoved
<1>7. ASSUME NEW j \in Seqs(inv[e].req) \ f, j < inv[e].item + 1
      PROVE  /\ ItemKey(inv[e].req, inv[e].date, j) \in DOMAIN payloads'
             /\ RowKey(inv[e].req, j) \in DOMAIN rows'
  <2>1. j \in Nat
    BY <1>2, SeqsType
  <2>2. CASE j = inv[e].item
    BY <2>2, <1>7
  <2>3. CASE j < inv[e].item
    BY <2>3, <1>4 DEF Accounted, NothingRemoved
  <2> QED
    BY <1>1, <1>7, <2>1, <2>2, <2>3
<1> QED
  BY <1>1, <1>3, <1>5, <1>6, <1>7, GoToAccounted

(* Every running invocation stays accounted for and every late call in     *)
(* order.                                                                  *)
LEMMA AccountStep ==
    ASSUME IInv, [Next]_vars
    PROVE  NothingOutOfOrder'
<1>1. NothingRemoved
  BY Growth
<1>2. late' \subseteq late => \A x \in late' : InOrder(x)'
  BY <1>1 DEF IInv, NothingOutOfOrder, InOrder, NothingRemoved
<1>3. ASSUME NEW e \in Envs, NEW q \in Requests, Receive(e, q)
      PROVE  NothingOutOfOrder'
  <2>1. ASSUME NEW f \in Envs PROVE Accounted(inv[f])'
    <3>1. CASE f = e
      <4>1. inv'[f].pc = "admit"
        BY <1>3, <3>1 DEF Receive, IInv, TypeOK
      <4> QED
        BY <4>1 DEF Accounted
    <3>2. CASE f # e
      BY <1>1, <1>3, <3>2, OthersAccounted DEF Receive, IInv, TypeOK
    <3> QED
      BY <3>1, <3>2
  <2> QED
    BY <1>2, <1>3, <2>1 DEF Receive, NothingOutOfOrder
<1>4. ASSUME NEW e \in Envs, Refuse(e) \/ RespondError(e) \/ RespondId(e) \/ Kill(e)
      PROVE  NothingOutOfOrder'
  BY <1>1, <1>2, <1>4, StoppedAccounted
  DEF Refuse, RespondError, RespondId, Kill, NothingOutOfOrder
<1>5. ASSUME NEW e \in Envs, Admit(e)
      PROVE  NothingOutOfOrder'
  <2>1. ASSUME NEW f \in Envs PROVE Accounted(inv[f])'
    <3>1. CASE f = e
      <4>1. inv'[f].pc = "archive"
        BY <1>5, <3>1 DEF Admit, IInv, TypeOK, Invocation
      <4> QED
        BY <4>1 DEF Accounted
    <3>2. CASE f # e
      BY <1>1, <1>5, <3>2, OthersAccounted DEF Admit, IInv, TypeOK
    <3> QED
      BY <3>1, <3>2
  <2> QED
    BY <1>2, <1>5, <2>1 DEF Admit, NothingOutOfOrder
<1>6. ASSUME NEW e \in Envs, PutEnvelope(e)
      PROVE  NothingOutOfOrder'
  <2>1. inv[e].req \in Requests
    BY DEF IInv, TypeOK, Invocation
  <2>2. EnvKey(inv[e].req, inv[e].date) \in DOMAIN envelopes'
    BY <1>6 DEF PutEnvelope, Put, EnvelopeWrite
  <2>3. 0 <= Len(ItemsOf(inv[e].req))
    BY <2>1, SeqsType
  <2>4. \A j \in Seqs(inv[e].req) : ~(j < 0)
    BY <2>1, SeqsType
  <2>5. \A g \in Envs : Accounted(inv[g])'
    BY <1>1, <1>6, <2>2, <2>3, <2>4, GoToAccounted DEF PutEnvelope
  <2> QED
    BY <1>2, <1>6, <2>5 DEF PutEnvelope, NothingOutOfOrder
<1>7. ASSUME NEW e \in Envs, PutEnvelopeFails(e)
      PROVE  NothingOutOfOrder'
  <2>1. InOrder(EnvelopeWrite(e))
    BY DEF InOrder, EnvelopeWrite
  <2>2. \A x \in late' : InOrder(x)'
    BY <1>1, <1>7, <2>1, LateInOrder DEF PutEnvelopeFails, NoEffectOrLate
  <2> QED
    BY <1>1, <1>7, <2>2, StoppedAccounted DEF PutEnvelopeFails, NothingOutOfOrder
<1>8. ASSUME NEW e \in Envs, PutItem(e)
      PROVE  NothingOutOfOrder'
  <2>1. ASSUME NEW f \in Envs PROVE Accounted(inv[f])'
    <3>1. CASE f = e
      <4>1. inv'[e] = [inv[e] EXCEPT !.pc = "row"]
        BY <1>8 DEF PutItem, IInv, TypeOK
      <4>2. inv'[e].pc = "row" /\ inv'[e].req = inv[e].req /\ inv'[e].date = inv[e].date
            /\ inv'[e].item = inv[e].item /\ inv'[e].failed = inv[e].failed
        BY <4>1 DEF IInv, TypeOK, Invocation
      <4>3. ItemKey(inv[e].req, inv[e].date, inv[e].item) \in DOMAIN payloads'
        BY <1>8 DEF PutItem, Put, ItemWrite
      <4>4. Accounted(inv[e])
        BY DEF IInv, NothingOutOfOrder
      <4> QED
        BY <1>1, <1>8, <3>1, <4>2, <4>3, <4>4 DEF PutItem, Accounted, NothingRemoved
    <3>2. CASE f # e
      BY <1>1, <1>8, <3>2, OthersAccounted DEF PutItem, IInv, TypeOK
    <3> QED
      BY <3>1, <3>2
  <2> QED
    BY <1>2, <1>8, <2>1 DEF PutItem, NothingOutOfOrder
<1>9. ASSUME NEW e \in Envs, PutItemFails(e)
      PROVE  NothingOutOfOrder'
  <2>1. InOrder(ItemWrite(e))
    <3>1. EnvKey(inv[e].req, inv[e].date) \in DOMAIN envelopes
      BY <1>9 DEF PutItemFails, IInv, NothingOutOfOrder, Accounted
    <3> QED
      BY <3>1 DEF InOrder, ItemWrite, ItemKey, EnvKey
  <2>2. \A x \in late' : InOrder(x)'
    BY <1>1, <1>9, <2>1, LateInOrder DEF PutItemFails, NoEffectOrLate
  <2>3. \A g \in Envs : Accounted(inv[g])'
    BY <1>1, <1>9, AtAnItem, NextItemAccounted DEF PutItemFails
  <2> QED
    BY <2>2, <2>3 DEF NothingOutOfOrder
<1>10. ASSUME NEW e \in Envs, PutEvent(e)
       PROVE  NothingOutOfOrder'
  <2>1. ItemKey(inv[e].req, inv[e].date, inv[e].item) \in DOMAIN payloads'
    BY <1>10 DEF PutEvent, IInv, NothingOutOfOrder, Accounted
  <2>2. RowKey(inv[e].req, inv[e].item) \in DOMAIN rows'
    BY <1>10 DEF PutEvent, Put, RowWrite
  <2>3. \A g \in Envs : Accounted(inv[g])'
    BY <1>1, <1>10, <2>1, <2>2, AtAnItem, NextItemAccounted DEF PutEvent
  <2> QED
    BY <1>2, <1>10, <2>3 DEF PutEvent, NothingOutOfOrder
<1>11. ASSUME NEW e \in Envs, PutEventFails(e)
       PROVE  NothingOutOfOrder'
  <2>1. InOrder(RowWrite(e))
    <3>1. ItemKey(inv[e].req, inv[e].date, inv[e].item) \in DOMAIN payloads
      BY <1>11 DEF PutEventFails, IInv, NothingOutOfOrder, Accounted
    <3> QED
      BY <3>1 DEF InOrder, RowWrite, EventRow
  <2>2. \A x \in late' : InOrder(x)'
    BY <1>1, <1>11, <2>1, LateInOrder DEF PutEventFails, NoEffectOrLate
  <2>3. \A g \in Envs : Accounted(inv[g])'
    BY <1>1, <1>11, AtAnItem, NextItemAccounted DEF PutEventFails
  <2> QED
    BY <2>2, <2>3 DEF NothingOutOfOrder
<1>12. CASE (\E w \in late : Deliver(w)) \/ Midnight \/ UNCHANGED vars
  <2>1. inv' = inv /\ late' \subseteq late
    BY <1>12 DEF Deliver, Midnight, vars
  <2> QED
    BY <1>1, <1>2, <2>1, OthersAccounted DEF NothingOutOfOrder
<1> QED
  BY <1>3, <1>4, <1>5, <1>6, <1>7, <1>8, <1>9, <1>10, <1>11, <1>12 DEF Next, Proceed

-----------------------------------------------------------------------------
(* The theorems.                                                           *)

(* IInv holds in every reachable state.                                    *)
THEOREM Invariance == Spec => []IInv
<1>1. Init => IInv
  BY InitIInv
<1>2. IInv /\ [Next]_vars => IInv'
  BY TypeStep, OrderStep, AccountStep DEF IInv
<1> QED
  BY <1>1, <1>2, PTL DEF Spec

(* Whatever requests, failures, kills and late calls: every variable keeps *)
(* its type and every stored value lies under a key its request owns.      *)
THEOREM TypeCorrect == Spec => []TypeOK
<1>1. IInv => TypeOK
  BY DEF IInv
<1> QED
  BY <1>1, Invariance, PTL

(* Every invocation is accounted for and no late call is out of order.     *)
THEOREM Accounting == Spec => []NothingOutOfOrder
<1>1. IInv => NothingOutOfOrder
  BY DEF IInv
<1> QED
  BY <1>1, Invariance, PTL
-----------------------------------------------------------------------------
(* What is stored for a request that shares its event id with no other.    *)

LEMMA EnvelopeContent ==
    ASSUME TypeOK, NEW q \in Requests, NEW d \in Days, Unshared(q),
           EnvKey(q, d) \in DOMAIN envelopes
    PROVE  envelopes[EnvKey(q, d)] = q.body
<1>1. PICK r \in Requests, c \in Days :
        EnvKey(q, d) = EnvKey(r, c) /\ envelopes[EnvKey(q, d)] = r.body
  BY DEF TypeOK, IsEnvelope
<1>2. r.project = q.project /\ EventIdOf(r) = EventIdOf(q)
  BY <1>1 DEF EnvKey
<1> QED
  BY <1>1, <1>2 DEF Unshared

LEMMA PayloadContent ==
    ASSUME TypeOK, NEW q \in Requests, NEW d \in Days, NEW i \in Seqs(q), Unshared(q),
           ItemKey(q, d, i) \in DOMAIN payloads
    PROVE  payloads[ItemKey(q, d, i)] = Part(q, i)
<1>1. PICK r \in Requests, c \in Days : \E j \in Seqs(r) :
        ItemKey(q, d, i) = ItemKey(r, c, j) /\ payloads[ItemKey(q, d, i)] = Part(r, j)
  BY DEF TypeOK, IsPayload
<1>2. PICK j \in Seqs(r) :
        ItemKey(q, d, i) = ItemKey(r, c, j) /\ payloads[ItemKey(q, d, i)] = Part(r, j)
  BY <1>1
<1>3. r.project = q.project /\ EventIdOf(r) = EventIdOf(q) /\ j = i
  BY <1>2 DEF ItemKey
<1>4. r = q
  BY <1>3 DEF Unshared
<1> QED
  BY <1>2, <1>3, <1>4

(* Two row keys are equal only if project, event id and position are.      *)
LEMMA RowKeyInjective ==
    ASSUME NEW q \in Requests, NEW r \in Requests, NEW i \in Seqs(q), NEW j \in Seqs(r),
           RowKey(q, i) = RowKey(r, j)
    PROVE  q.project = r.project /\ EventIdOf(q) = EventIdOf(r) /\ i = j
<1> DEFINE s == SortKeyOf(EventIdOf(q), TypeOfItem(q, i), i)
           t == SortKeyOf(EventIdOf(r), TypeOfItem(r, j), j)
<1>1. q.project = r.project /\ s = t
  BY DEF RowKey
<1>2. s = IF i = 0 THEN <<EventIdOf(q)>> ELSE <<EventIdOf(q), TypeOfItem(q, i), i>>
  BY DEF SortKeyOf
<1>3. t = IF j = 0 THEN <<EventIdOf(r)>> ELSE <<EventIdOf(r), TypeOfItem(r, j), j>>
  BY DEF SortKeyOf
<1> HIDE DEF s, t
<1>4. s[1] = EventIdOf(q) /\ t[1] = EventIdOf(r)
  BY <1>2, <1>3
<1>5. Len(s) = (IF i = 0 THEN 1 ELSE 3) /\ Len(t) = (IF j = 0 THEN 1 ELSE 3)
  BY <1>2, <1>3
<1>6. (i # 0 => s[3] = i) /\ (j # 0 => t[3] = j)
  BY <1>2, <1>3
<1> QED
  BY <1>1, <1>4, <1>5, <1>6

LEMMA RowContent ==
    ASSUME TypeOK, NEW q \in Requests, NEW i \in Seqs(q), Unshared(q),
           RowKey(q, i) \in DOMAIN rows
    PROVE  rows[RowKey(q, i)].of = Part(q, i)
<1>1. PICK r \in Requests, c \in Days : \E j \in Seqs(r) :
        RowKey(q, i) = RowKey(r, j) /\ rows[RowKey(q, i)] = EventRow(r, c, j)
  BY DEF TypeOK, IsRow
<1>2. PICK j \in Seqs(r) :
        RowKey(q, i) = RowKey(r, j) /\ rows[RowKey(q, i)] = EventRow(r, c, j)
  BY <1>1
<1>3. r.project = q.project /\ EventIdOf(r) = EventIdOf(q) /\ j = i
  BY <1>2, RowKeyInjective
<1>4. r = q
  BY <1>3 DEF Unshared
<1> QED
  BY <1>2, <1>3, <1>4 DEF EventRow

(* A payload or a row names the request it came from.                      *)
LEMMA OriginOfPart ==
    ASSUME NEW q \in Requests, NEW i
    PROVE  Origin(q.project, Part(q, i)) = q
BY IngestAssumption DEF Origin, Part, Request

-----------------------------------------------------------------------------
(* The safety properties.                                                  *)

(* "We never leave orphaned items without their raw source" (main.go:164), *)
(* for every schedule, failure and late call.                              *)
THEOREM Sources == Spec => []NoOrphanedItems
<1>1. IInv => NoOrphanedItems
  <2> SUFFICES ASSUME IInv, NEW k \in DOMAIN payloads
               PROVE  /\ SourceOf(k) \in DOMAIN envelopes
                      /\ Unshared(Origin(k.project, payloads[k])) =>
                           envelopes[SourceOf(k)] = payloads[k].body
    BY DEF NoOrphanedItems, SourceOf
  <2>1. SourceOf(k) \in DOMAIN envelopes
    BY DEF IInv, StorageOrder
  <2>2. PICK q \in Requests, d \in Days : \E i \in Seqs(q) :
          k = ItemKey(q, d, i) /\ payloads[k] = Part(q, i)
    BY DEF IInv, TypeOK, IsPayload
  <2>3. PICK i \in Seqs(q) : k = ItemKey(q, d, i) /\ payloads[k] = Part(q, i)
    BY <2>2
  <2>4. SourceOf(k) = EnvKey(q, d)
    BY <2>3 DEF SourceOf, ItemKey, EnvKey
  <2>5. Origin(k.project, payloads[k]) = q
    BY <2>3, OriginOfPart DEF ItemKey
  <2>6. payloads[k].body = q.body
    BY <2>3 DEF Part
  <2> QED
    BY <2>1, <2>4, <2>5, <2>6, EnvelopeContent DEF IInv
<1> QED
  BY <1>1, Invariance, PTL

(* The object a row names exists and is the item that the row describes.   *)
THEOREM Pointers == Spec => []RowsPointToObjects
<1>1. IInv => RowsPointToObjects
  <2> SUFFICES ASSUME IInv, NEW k \in DOMAIN rows
               PROVE  /\ rows[k].s3_path \in DOMAIN payloads
                      /\ Unshared(Origin(k.project, rows[k].of)) =>
                           payloads[rows[k].s3_path] = rows[k].of
    BY DEF RowsPointToObjects
  <2>1. rows[k].s3_path \in DOMAIN payloads
    BY DEF IInv, StorageOrder
  <2>2. PICK q \in Requests, d \in Days : \E i \in Seqs(q) :
          k = RowKey(q, i) /\ rows[k] = EventRow(q, d, i)
    BY DEF IInv, TypeOK, IsRow
  <2>3. PICK i \in Seqs(q) : k = RowKey(q, i) /\ rows[k] = EventRow(q, d, i)
    BY <2>2
  <2>4. rows[k].s3_path = ItemKey(q, d, i) /\ rows[k].of = Part(q, i)
    BY <2>3 DEF EventRow
  <2>5. Origin(k.project, rows[k].of) = q
    BY <2>3, <2>4, OriginOfPart DEF RowKey
  <2> QED
    BY <2>1, <2>4, <2>5, PayloadContent DEF IInv
<1> QED
  BY <1>1, Invariance, PTL

(* Retries, concurrent or on other days, never give an item a second row.  *)
THEOREM Idempotence == Spec => []OneRowPerItem
<1>1. IInv => OneRowPerItem
  <2> SUFFICES ASSUME IInv, NEW j \in DOMAIN rows, NEW k \in DOMAIN rows,
                      j.project = k.project, rows[j].of = rows[k].of
               PROVE  j = k
    BY DEF OneRowPerItem
  <2>1. \A x \in DOMAIN rows : \E q \in Requests : \E i \in Seqs(q) :
          x = RowKey(q, i) /\ rows[x].of = Part(q, i)
    BY DEF IInv, TypeOK, IsRow, EventRow
  <2>2. PICK q \in Requests : \E i \in Seqs(q) : j = RowKey(q, i) /\ rows[j].of = Part(q, i)
    BY <2>1
  <2>3. PICK i \in Seqs(q) : j = RowKey(q, i) /\ rows[j].of = Part(q, i)
    BY <2>2
  <2>4. PICK r \in Requests : \E n \in Seqs(r) : k = RowKey(r, n) /\ rows[k].of = Part(r, n)
    BY <2>1
  <2>5. PICK n \in Seqs(r) : k = RowKey(r, n) /\ rows[k].of = Part(r, n)
    BY <2>4
  <2>6. q.project = r.project
    BY <2>3, <2>5 DEF RowKey
  <2>7. q = r
    BY <2>3, <2>5, <2>6, OriginOfPart
  <2>8. i = n
    BY <2>3, <2>5 DEF Part
  <2> QED
    BY <2>3, <2>5, <2>7, <2>8
<1> QED
  BY <1>1, Invariance, PTL

(* What a 200 acknowledged is stored, and stays stored.                    *)
THEOREM Durability == Spec => []AckedIsStored
<1>1. IInv => AckedIsStored
  <2> SUFFICES ASSUME IInv, NEW a \in acked
               PROVE  /\ EnvKey(a.req, a.date) \in DOMAIN envelopes
                      /\ Seqs(a.req) # {} => Seqs(a.req) \ a.failed # {}
                      /\ \A i \in Seqs(a.req) \ a.failed :
                           /\ ItemKey(a.req, a.date, i) \in DOMAIN payloads
                           /\ RowKey(a.req, i) \in DOMAIN rows
                      /\ Unshared(a.req) =>
                           /\ envelopes[EnvKey(a.req, a.date)] = a.req.body
                           /\ \A i \in Seqs(a.req) \ a.failed :
                                /\ payloads[ItemKey(a.req, a.date, i)] = Part(a.req, i)
                                /\ rows[RowKey(a.req, i)].of = Part(a.req, i)
    BY DEF AckedIsStored
  <2>1. a.req \in Requests /\ a.date \in Days
    BY DEF IInv, TypeOK
  <2>2. /\ EnvKey(a.req, a.date) \in DOMAIN envelopes
        /\ Seqs(a.req) # {} => Seqs(a.req) \ a.failed # {}
        /\ \A i \in Seqs(a.req) \ a.failed :
             /\ ItemKey(a.req, a.date, i) \in DOMAIN payloads
             /\ RowKey(a.req, i) \in DOMAIN rows
    BY DEF IInv, StorageOrder
  <2>3. ASSUME Unshared(a.req)
        PROVE  envelopes[EnvKey(a.req, a.date)] = a.req.body
    BY <2>1, <2>2, <2>3, EnvelopeContent DEF IInv
  <2>4. ASSUME Unshared(a.req), NEW i \in Seqs(a.req) \ a.failed
        PROVE  /\ payloads[ItemKey(a.req, a.date, i)] = Part(a.req, i)
               /\ rows[RowKey(a.req, i)].of = Part(a.req, i)
    BY <2>1, <2>2, <2>4, PayloadContent, RowContent DEF IInv
  <2> QED
    BY <2>2, <2>3, <2>4
<1> QED
  BY <1>1, Invariance, PTL

-----------------------------------------------------------------------------
(* Ingest implements its contract.                                         *)

LEMMA Arrivals ==
    ASSUME NEW q \in Requests, NEW d, NEW v, envelopes' = Put(envelopes, EnvKey(q, d), v)
    PROVE  Archived' = Archived \cup {DocumentIn(q)}
<1>1. DOMAIN envelopes' = DOMAIN envelopes \cup {EnvKey(q, d)}
  BY DEF Put
<1>2. DocumentIn(q) = [project |-> EnvKey(q, d).project, id |-> EnvKey(q, d).id]
  BY DEF DocumentIn, EnvKey
<1> QED
  BY <1>1, <1>2 DEF Archived

(* An archive in the bucket is a document in the contract.                 *)
LEMMA ArchivedDocument ==
    ASSUME NEW q \in Requests, NEW d, EnvKey(q, d) \in DOMAIN envelopes
    PROVE  DocumentIn(q) \in Archived
<1>1. DocumentIn(q) = [project |-> EnvKey(q, d).project, id |-> EnvKey(q, d).id]
  BY DEF DocumentIn, EnvKey
<1> QED
  BY <1>1 DEF Archived

LEMMA DocumentOfRow ==
    ASSUME NEW q \in Requests, NEW i
    PROVE  DocumentOf(RowKey(q, i)) = DocumentIn(q)
BY DEF DocumentOf, RowKey, SortKeyOf, DocumentIn

(* A row written for a request whose object exists is a step of the        *)
(* contract.                                                               *)
LEMMA RowIsIndexed ==
    ASSUME IInv, NEW q \in Requests, NEW d \in Days, NEW i \in Seqs(q), NEW v,
           ItemKey(q, d, i) \in DOMAIN payloads,
           rows' = Put(rows, RowKey(q, i), v), UNCHANGED <<envelopes, acked>>
    PROVE  Contract!Next
<1>1. EnvKey(q, d) \in DOMAIN envelopes
  <2>1. SourceOf(ItemKey(q, d, i)) = EnvKey(q, d)
    BY DEF SourceOf, ItemKey, EnvKey
  <2> QED
    BY <2>1 DEF IInv, StorageOrder
<1>2. DocumentOf(RowKey(q, i)) \in Archived
  BY <1>1, ArchivedDocument, DocumentOfRow
<1>3. DOMAIN rows' = DOMAIN rows \cup {RowKey(q, i)}
  BY DEF Put
<1>4. Archived' = Archived /\ Promised' = Promised
  BY DEF Archived, Promised
<1>5. Contract!Index(RowKey(q, i))
  BY <1>2, <1>3, <1>4 DEF Contract!Index
<1>6. RowKey(q, i) \in AllRowKeys
  BY DEF RowKeysOf, AllRowKeys
<1> QED
  BY <1>5, <1>6 DEF Contract!Next

LEMMA EnvelopeIsArchived ==
    ASSUME NEW q \in Requests, NEW d, NEW v,
           envelopes' = Put(envelopes, EnvKey(q, d), v), UNCHANGED <<rows, acked>>
    PROVE  Contract!Next
<1>1. Contract!Archive(DocumentIn(q))
  BY Arrivals DEF Contract!Archive, Promised
<1> QED
  BY <1>1 DEF Contract!Next, AllDocuments

LEMMA ContractStep ==
    ASSUME IInv, [Next]_vars
    PROVE  [Contract!Next]_(Contract!vars)
<1>1. ASSUME UNCHANGED <<envelopes, rows, acked>>
      PROVE  UNCHANGED Contract!vars
  BY <1>1 DEF Contract!vars, Archived, Promised
<1>2. ASSUME NEW e \in Envs, PutEnvelope(e)
      PROVE  Contract!Next
  <2>1. inv[e].req \in Requests
    BY DEF IInv, TypeOK, Invocation
  <2> QED
    BY <1>2, <2>1, EnvelopeIsArchived DEF PutEnvelope, EnvelopeWrite
<1>3. ASSUME NEW e \in Envs, PutEvent(e)
      PROVE  Contract!Next
  <2>1. inv[e].req \in Requests /\ inv[e].date \in Days /\ inv[e].item \in Seqs(inv[e].req)
    BY <1>3, AtAnItem DEF PutEvent, IInv, TypeOK, Invocation
  <2>2. ItemKey(inv[e].req, inv[e].date, inv[e].item) \in DOMAIN payloads
    BY <1>3 DEF PutEvent, IInv, NothingOutOfOrder, Accounted
  <2> QED
    BY <1>3, <2>1, <2>2, RowIsIndexed DEF PutEvent, RowWrite
<1>4. ASSUME NEW e \in Envs, RespondId(e)
      PROVE  Contract!Next
  <2> DEFINE q == inv[e].req
  <2>1. q \in Requests
    BY DEF IInv, TypeOK, Invocation
  <2>2. DocumentIn(q) \in Archived
    BY <1>4, <2>1, ArchivedDocument DEF RespondId, IInv, NothingOutOfOrder, Accounted
  <2>3. RowKeysOf(q) # {} => RowKeysOf(q) \cap DOMAIN rows # {}
    <3>1. Accounted(inv[e])
      BY DEF IInv, NothingOutOfOrder
    <3>2. Seqs(q) # {} => \E i \in Seqs(q) : RowKey(q, i) \in DOMAIN rows
      BY <1>4, <3>1 DEF RespondId, AllFailed, Accounted
    <3> QED
      BY <3>2 DEF RowKeysOf
  <2>4. Promised' = Promised \cup {PromiseTo(q)}
    <3> DEFINE a == [req |-> q, date |-> inv[e].date, failed |-> inv[e].failed]
    <3>1. acked' = acked \cup {a}
      BY <1>4 DEF RespondId
    <3>2. a.req = q
      OBVIOUS
    <3> HIDE DEF a, q
    <3> QED
      BY <3>1, <3>2 DEF Promised
  <2>5. PromiseTo(q).document = DocumentIn(q) /\ PromiseTo(q).rows = RowKeysOf(q)
    BY DEF PromiseTo
  <2>6. Archived' = Archived /\ DOMAIN rows' = DOMAIN rows
    BY <1>4 DEF RespondId, Archived
  <2> HIDE DEF q
  <2>7. Contract!Promise(PromiseTo(q))
    BY <2>2, <2>3, <2>4, <2>5, <2>6 DEF Contract!Promise
  <2> QED
    BY <2>1, <2>7 DEF Contract!Next, AllPromises
<1>5. ASSUME NEW w \in late, Deliver(w)
      PROVE  Contract!Next \/ UNCHANGED Contract!vars
  <2>1. IsWrite(w) /\ InOrder(w)
    BY DEF IInv, TypeOK, NothingOutOfOrder
  <2>2. CASE w.to = "envelopes"
    <3>1. PICK q \in Requests, d \in Days : w.key = EnvKey(q, d)
      BY <2>1, <2>2 DEF IsWrite, IsEnvelope
    <3> QED
      BY <1>5, <2>2, <3>1, EnvelopeIsArchived DEF Deliver
  <2>3. CASE w.to = "rows"
    <3>1. PICK q \in Requests, d \in Days : \E i \in Seqs(q) :
            w.key = RowKey(q, i) /\ w.value = EventRow(q, d, i)
      BY <2>1, <2>3 DEF IsWrite, IsRow
    <3>2. PICK i \in Seqs(q) : w.key = RowKey(q, i) /\ w.value = EventRow(q, d, i)
      BY <3>1
    <3>3. ItemKey(q, d, i) \in DOMAIN payloads
      BY <2>1, <2>3, <3>2 DEF InOrder, EventRow
    <3> QED
      BY <1>5, <2>3, <3>2, <3>3, RowIsIndexed DEF Deliver
  <2>4. CASE w.to = "payloads"
    BY <1>1, <1>5, <2>4 DEF Deliver
  <2> QED
    BY <2>1, <2>2, <2>3, <2>4 DEF IsWrite
<1> QED
  BY <1>1, <1>2, <1>3, <1>4, <1>5
  DEF Next, Proceed, vars, Receive, Refuse, Admit, PutEnvelopeFails, PutItem, PutItemFails,
      PutEventFails, RespondError, Kill, Midnight

(* The Lambda, call by call, with retries, failures, kills and late calls, *)
(* does nothing the contract does not allow.                               *)
THEOREM Implementation == Spec => ImplementsContract
<1>1. Init => Contract!Init
  BY DEF Init, Contract!Init, Archived, Promised
<1>2. IInv /\ [Next]_vars => [Contract!Next]_(Contract!vars)
  BY ContractStep
<1> QED
  BY <1>1, <1>2, Invariance, PTL DEF Spec, ImplementsContract, Contract!Spec

-----------------------------------------------------------------------------
(* Ingest feeds the processor.                                             *)

\* No object is written under a date to come: neither by an invocation, which
\* has read the clock, nor by a call of an earlier day that comes late.
NoDateToCome ==
    /\ \A e \in Envs : inv[e].date <= day
    /\ \A w \in late : w.to = "payloads" => w.key.date <= day

LEMMA DaysType ==
    ASSUME TypeOK
    PROVE  /\ day \in Nat
           /\ \A e \in Envs : inv[e].date \in Nat
           /\ \A w \in late : w.to = "payloads" => w.key.date \in Nat
<1>1. Days \subseteq Nat
  BY IngestAssumption DEF Days
<1>2. ASSUME NEW w \in late, w.to = "payloads"
      PROVE  w.key.date \in Days
  <2>1. PICK q \in Requests, d \in Days : \E i \in Seqs(q) : w.key = ItemKey(q, d, i)
    BY <1>2 DEF TypeOK, IsWrite, IsPayload
  <2> QED
    BY <2>1 DEF ItemKey
<1> QED
  BY <1>1, <1>2 DEF TypeOK, Invocation

(* A call that fails and comes late carries the date of its invocation.    *)
LEMMA LateDate ==
    ASSUME NoDateToCome, NEW e \in Envs, NEW w,
           w \in {EnvelopeWrite(e), ItemWrite(e), RowWrite(e)}, NoEffectOrLate(w)
    PROVE  \A x \in late' : x.to = "payloads" => x.key.date <= day
<1>1. w.to = "payloads" => w.key.date = inv[e].date
  BY DEF EnvelopeWrite, ItemWrite, RowWrite, ItemKey
<1> QED
  BY <1>1 DEF NoDateToCome, NoEffectOrLate

LEMMA NoDateToComeStep ==
    ASSUME IInv, NoDateToCome, [Next]_vars
    PROVE  NoDateToCome'
<1>1. TypeOK
  BY DEF IInv
<1>2. Resting.date = 0 /\ 0 <= day
  BY <1>1, DaysType DEF Resting
<1>3. ASSUME NEW e \in Envs, NEW q \in Requests, Receive(e, q)
      PROVE  NoDateToCome'
  BY <1>1, <1>3, DaysType DEF Receive, NoDateToCome, TypeOK
<1>4. ASSUME NEW e \in Envs, Stop(e), late' = late, day' = day
      PROVE  NoDateToCome'
  BY <1>1, <1>2, <1>4 DEF Stop, NoDateToCome, TypeOK
<1>5. ASSUME NEW e \in Envs, PutEnvelopeFails(e)
      PROVE  NoDateToCome'
  BY <1>1, <1>2, <1>5, LateDate DEF PutEnvelopeFails, Stop, NoDateToCome, TypeOK
<1>6. ASSUME NEW e \in Envs, Admit(e) \/ PutItem(e)
      PROVE  NoDateToCome'
  BY <1>1, <1>6 DEF Admit, PutItem, NoDateToCome, TypeOK, Invocation
<1>7. ASSUME NEW e \in Envs, PutEnvelope(e) \/ PutEvent(e)
      PROVE  NoDateToCome'
  BY <1>1, <1>7 DEF PutEnvelope, PutEvent, GoTo, NoDateToCome, TypeOK
<1>8. ASSUME NEW e \in Envs, PutItemFails(e)
      PROVE  NoDateToCome'
  BY <1>1, <1>8, LateDate DEF PutItemFails, GoTo, NoDateToCome, TypeOK
<1>9. ASSUME NEW e \in Envs, PutEventFails(e)
      PROVE  NoDateToCome'
  BY <1>1, <1>9, LateDate DEF PutEventFails, GoTo, NoDateToCome, TypeOK
<1>10. CASE \E w \in late : Deliver(w)
  BY <1>10 DEF Deliver, NoDateToCome
<1>11. CASE Midnight
  BY <1>1, <1>11, DaysType DEF Midnight, NoDateToCome
<1>12. CASE UNCHANGED vars
  BY <1>12 DEF vars, NoDateToCome
<1> QED
  BY <1>3, <1>4, <1>5, <1>6, <1>7, <1>8, <1>9, <1>10, <1>11, <1>12
  DEF Next, Proceed, Refuse, RespondError, RespondId, Kill

(* An object written is one of the feed, under a date that has come, or    *)
(* none of its business.                                                   *)
LEMMA ObjectIsFed ==
    ASSUME NEW q \in Requests, NEW d \in Days, NEW i \in Seqs(q), d <= day,
           payloads' = Put(payloads, ItemKey(q, d, i), Part(q, i)), UNCHANGED <<day, rows>>
    PROVE  [Feed!Next]_(Feed!vars)
<1> DEFINE k == ItemKey(q, d, i)
<1>1. /\ k.type = TypeOfItem(q, i)
      /\ k.date = d
      /\ KeyOfPath(k) = RowKey(q, i)
  BY DEF ItemKey, KeyOfPath, RowKey
<1>2. EventRows' = EventRows
  BY DEF EventRows
<1>3. CASE TypeOfItem(q, i) = "event"
  <2>1. k \in EventPaths
    <3>1. k \in UNION {{ItemKey(r, c, j) : c \in Days, j \in Seqs(r)} : r \in Requests}
      OBVIOUS
    <3> QED
      BY <1>1, <1>3, <3>1 DEF EventPaths
  <2>2. Part(q, i) \in EventParts[KeyOfPath(k)]
    <3>1. RowKey(q, i) \in AllRowKeys
      BY DEF AllRowKeys, RowKeysOf
    <3>2. i \in {j \in Seqs(q) : RowKey(q, j) = RowKey(q, i) /\ TypeOfItem(q, j) = "event"}
      BY <1>3
    <3>3. Part(q, i) \in
            UNION {{Part(r, n) : n \in {j \in Seqs(r) : RowKey(r, j) = RowKey(q, i)
                                                        /\ TypeOfItem(r, j) = "event"}} :
                   r \in Requests}
      BY <3>2
    <3> QED
      BY <1>1, <3>1, <3>3 DEF EventParts
  <2>3. EventObjects' = Feed!Put(EventObjects, k, Part(q, i))
    BY <1>1, <1>3 DEF EventObjects, Feed!Put, Put
  <2> HIDE DEF k
  <2>4. Feed!Archive(k, Part(q, i))
    BY <1>1, <1>2, <2>2, <2>3 DEF Feed!Archive, DateOfPath
  <2> QED
    BY <2>1, <2>2, <2>4 DEF Feed!Next
<1>4. CASE TypeOfItem(q, i) # "event"
  <2>1. EventObjects' = EventObjects
    BY <1>1, <1>4 DEF EventObjects, Put
  <2> QED
    BY <1>2, <2>1 DEF Feed!vars
<1> QED
  BY <1>3, <1>4

(* A row written for an item whose object exists is that of the object, or *)
(* one of another type.                                                    *)
LEMMA RowIsFed ==
    ASSUME NEW q \in Requests, NEW d \in Days, NEW i \in Seqs(q),
           ItemKey(q, d, i) \in DOMAIN payloads,
           rows' = Put(rows, RowKey(q, i), EventRow(q, d, i)), UNCHANGED <<day, payloads>>
    PROVE  Feed!Next
<1> DEFINE k == ItemKey(q, d, i)
<1>1. /\ k.type = TypeOfItem(q, i)
      /\ KeyOfPath(k) = RowKey(q, i)
      /\ EventRow(q, d, i).s3_path = k
  BY DEF ItemKey, KeyOfPath, RowKey, EventRow
<1>2. EventObjects' = EventObjects
  BY DEF EventObjects
<1>3. CASE TypeOfItem(q, i) = "event"
  <2>1. k \in EventPaths
    <3>1. k \in UNION {{ItemKey(r, c, j) : c \in Days, j \in Seqs(r)} : r \in Requests}
      OBVIOUS
    <3> QED
      BY <1>1, <1>3, <3>1 DEF EventPaths
  <2>2. k \in DOMAIN EventObjects
    BY <1>1, <1>3 DEF EventObjects
  <2>3. EventRows' = Feed!Put(EventRows, KeyOfPath(k), PathOfRow(k))
    BY <1>1, <1>3 DEF EventRows, Feed!Put, Put
  <2> HIDE DEF k
  <2>4. Feed!PutRow(k)
    BY <1>2, <2>2, <2>3 DEF Feed!PutRow
  <2> QED
    BY <2>1, <2>4 DEF Feed!Next
<1>4. CASE TypeOfItem(q, i) # "event"
  <2>1. RowKey(q, i) \in AllRowKeys
    BY DEF AllRowKeys, RowKeysOf
  <2>2. EventRows' = Feed!Put(EventRows, RowKey(q, i), NoEvent)
    BY <1>1, <1>4 DEF EventRows, Feed!Put, Put
  <2>3. Feed!PutOther(RowKey(q, i))
    BY <1>2, <2>2 DEF Feed!PutOther
  <2> QED
    BY <2>1, <2>3 DEF Feed!Next
<1> QED
  BY <1>3, <1>4

LEMMA FeedStep ==
    ASSUME IInv, NoDateToCome, [Next]_vars
    PROVE  [Feed!Next]_(Feed!vars)
<1>1. ASSUME UNCHANGED <<day, payloads, rows>>
      PROVE  UNCHANGED Feed!vars
  BY <1>1 DEF Feed!vars, EventObjects, EventRows
<1>2. ASSUME NEW e \in Envs, PutItem(e)
      PROVE  [Feed!Next]_(Feed!vars)
  <2>1. /\ inv[e].req \in Requests
        /\ inv[e].date \in Days
        /\ inv[e].date <= day
        /\ inv[e].item \in Seqs(inv[e].req)
    BY <1>2, AtAnItem DEF PutItem, IInv, TypeOK, Invocation, NoDateToCome
  <2> QED
    BY <1>2, <2>1, ObjectIsFed DEF PutItem, ItemWrite
<1>3. ASSUME NEW e \in Envs, PutEvent(e)
      PROVE  Feed!Next
  <2>1. inv[e].req \in Requests /\ inv[e].date \in Days /\ inv[e].item \in Seqs(inv[e].req)
    BY <1>3, AtAnItem DEF PutEvent, IInv, TypeOK, Invocation
  <2>2. ItemKey(inv[e].req, inv[e].date, inv[e].item) \in DOMAIN payloads
    BY <1>3 DEF PutEvent, IInv, NothingOutOfOrder, Accounted
  <2> QED
    BY <1>3, <2>1, <2>2, RowIsFed DEF PutEvent, RowWrite
<1>4. ASSUME NEW w \in late, Deliver(w)
      PROVE  [Feed!Next]_(Feed!vars)
  <2>1. IsWrite(w) /\ InOrder(w)
    BY DEF IInv, TypeOK, NothingOutOfOrder
  <2>2. CASE w.to = "envelopes"
    BY <1>1, <1>4, <2>2 DEF Deliver
  <2>3. CASE w.to = "payloads"
    <3>1. PICK q \in Requests, d \in Days : \E i \in Seqs(q) :
            w.key = ItemKey(q, d, i) /\ w.value = Part(q, i)
      BY <2>1, <2>3 DEF IsWrite, IsPayload
    <3>2. PICK i \in Seqs(q) : w.key = ItemKey(q, d, i) /\ w.value = Part(q, i)
      BY <3>1
    <3>3. d <= day
      BY <2>3, <3>2 DEF NoDateToCome, ItemKey
    <3> QED
      BY <1>4, <2>3, <3>2, <3>3, ObjectIsFed DEF Deliver
  <2>4. CASE w.to = "rows"
    <3>1. PICK q \in Requests, d \in Days : \E i \in Seqs(q) :
            w.key = RowKey(q, i) /\ w.value = EventRow(q, d, i)
      BY <2>1, <2>4 DEF IsWrite, IsRow
    <3>2. PICK i \in Seqs(q) : w.key = RowKey(q, i) /\ w.value = EventRow(q, d, i)
      BY <3>1
    <3>3. ItemKey(q, d, i) \in DOMAIN payloads
      BY <2>1, <2>4, <3>2 DEF InOrder, EventRow
    <3> QED
      BY <1>4, <2>4, <3>2, <3>3, RowIsFed DEF Deliver
  <2> QED
    BY <2>1, <2>2, <2>3, <2>4 DEF IsWrite
<1>5. CASE Midnight
  <2>1. Feed!Midnight
    BY <1>5 DEF Midnight, Feed!Midnight, EventObjects, EventRows
  <2> QED
    BY <2>1 DEF Feed!Next
<1> QED
  BY <1>1, <1>2, <1>3, <1>4, <1>5
  DEF Next, Proceed, vars, Receive, Refuse, Admit, PutEnvelope, PutEnvelopeFails,
      PutItemFails, PutEventFails, RespondError, RespondId, Kill

(* What ingest stores for the processor, it stores as the processor's      *)
(* model assumes.                                                          *)
THEOREM Feeding == Spec => FeedsTheProcessor
<1>1. Init => NoDateToCome
  BY IngestAssumption DEF Init, Resting, NoDateToCome
<1>2. IInv /\ NoDateToCome /\ [Next]_vars => NoDateToCome'
  BY NoDateToComeStep
<1>3. Spec => []NoDateToCome
  BY <1>1, <1>2, Invariance, PTL DEF Spec
<1>4. Init => Feed!Init
  BY DEF Init, Feed!Init, EventObjects, EventRows
<1>5. IInv /\ NoDateToCome /\ [Next]_vars => [Feed!Next]_(Feed!vars)
  BY FeedStep
<1> QED
  BY <1>3, <1>4, <1>5, Invariance, PTL DEF Spec, FeedsTheProcessor, Feed!Spec

(* Where no other request of the project has the event id, the processor   *)
(* can find under a row's key but one event, that of the request.          *)
THEOREM OneEvent ==
    ASSUME NEW q \in Requests, NEW i \in Seqs(q), Unshared(q), TypeOfItem(q, i) = "event"
    PROVE  EventParts[RowKey(q, i)] = {Part(q, i)}
<1> DEFINE Here(r) == {j \in Seqs(r) : RowKey(r, j) = RowKey(q, i) /\ TypeOfItem(r, j) = "event"}
<1>1. EventParts[RowKey(q, i)] = UNION {{Part(r, j) : j \in Here(r)} : r \in Requests}
  <2>1. RowKey(q, i) \in AllRowKeys
    BY DEF AllRowKeys, RowKeysOf
  <2> QED
    BY <2>1 DEF EventParts
<1>2. ASSUME NEW r \in Requests, NEW j \in Here(r)
      PROVE  r = q /\ j = i
  <2>1. r.project = q.project /\ EventIdOf(r) = EventIdOf(q) /\ j = i
    BY <1>2, RowKeyInjective
  <2> QED
    BY <2>1 DEF Unshared
<1>3. i \in Here(q)
  OBVIOUS
<1> HIDE DEF Here
<1> QED
  BY <1>1, <1>2, <1>3

(* The path of an event's object is told by its key and its date, which is *)
(* how the model of the processor writes it.                               *)
THEOREM PathIsKeyAndDate ==
    ASSUME NEW x \in EventPaths, NEW y \in EventPaths,
           KeyOfPath(x) = KeyOfPath(y), DateOfPath(x) = DateOfPath(y)
    PROVE  x = y
<1>1. PICK q \in Requests, d \in Days : \E i \in Seqs(q) : x = ItemKey(q, d, i)
  BY DEF EventPaths
<1>2. PICK i \in Seqs(q) : x = ItemKey(q, d, i)
  BY <1>1
<1>3. PICK r \in Requests, c \in Days : \E j \in Seqs(r) : y = ItemKey(r, c, j)
  BY DEF EventPaths
<1>4. PICK j \in Seqs(r) : y = ItemKey(r, c, j)
  BY <1>3
<1>5. RowKey(q, i) = RowKey(r, j) /\ c = d
  BY <1>2, <1>4 DEF KeyOfPath, DateOfPath, RowKey, ItemKey
<1>6. q.project = r.project /\ EventIdOf(q) = EventIdOf(r) /\ i = j
  BY <1>5, RowKeyInjective
<1>7. TypeOfItem(q, i) = "event" /\ TypeOfItem(r, j) = "event"
  BY <1>2, <1>4 DEF EventPaths, ItemKey
<1> QED
  BY <1>2, <1>4, <1>5, <1>6, <1>7 DEF ItemKey

-----------------------------------------------------------------------------
(* Invocations advance.                                                    *)

LEMMA StepsAfterGoTo ==
    ASSUME IInv, NEW e \in Envs, NEW i \in Nat, NEW f, GoTo(e, i, f)
    PROVE  StepsLeft(inv'[e]) = IF i < Len(ItemsOf(inv[e].req))
                                THEN 2 * (Len(ItemsOf(inv[e].req)) - i) + 1 ELSE 1
<1>1. inv[e].req \in Requests
  BY DEF IInv, TypeOK, Invocation
<1>2. i \in Seqs(inv[e].req) <=> i < Len(ItemsOf(inv[e].req))
  BY <1>1, SeqsType
<1>3. /\ inv'[e].pc = IF i \in Seqs(inv[e].req) THEN "object" ELSE "respond"
      /\ inv'[e].req = inv[e].req
      /\ inv'[e].item = i
  BY DEF GoTo, IInv, TypeOK
<1> QED
  BY <1>2, <1>3 DEF StepsLeft

LEMMA StepsAfterStop ==
    ASSUME IInv, NEW e \in Envs, Stop(e)
    PROVE  StepsLeft(inv'[e]) = 0
<1>1. inv'[e] = Resting
  BY DEF Stop, IInv, TypeOK
<1> QED
  BY <1>1, RestingType DEF StepsLeft

(* An invocation has steps left, finitely many, until it is over.          *)
LEMMA StepsLeftType ==
    ASSUME IInv, NEW e \in Envs
    PROVE  /\ StepsLeft(inv[e]) \in Nat
           /\ StepsLeft(inv[e]) = 0 <=> inv[e].pc = "idle"
<1> DEFINE n == Len(ItemsOf(inv[e].req))
<1>1. inv[e].req \in Requests /\ inv[e].item \in Nat /\ inv[e].pc \in Pcs
  BY DEF IInv, TypeOK, Invocation
<1>2. n \in Nat
  BY <1>1, SeqsType
<1>3. inv[e].pc \in {"object", "row"} => inv[e].item < n
  BY <1>1, AtAnItem, SeqsType
<1>4. StepsLeft(inv[e]) = CASE inv[e].pc = "admit"   -> 2 * n + 3
                            [] inv[e].pc = "archive" -> 2 * n + 2
                            [] inv[e].pc = "object"  -> 2 * (n - inv[e].item) + 1
                            [] inv[e].pc = "row"     -> 2 * (n - inv[e].item)
                            [] inv[e].pc = "respond" -> 1
                            [] OTHER                 -> 0
  BY DEF StepsLeft
<1> HIDE DEF n
<1> QED
  BY <1>1, <1>2, <1>3, <1>4 DEF Pcs

LEMMA InvocationAdvances ==
    ASSUME IInv, NEW e \in Envs, Proceed(e) \/ Kill(e)
    PROVE  StepsLeft(inv'[e]) < StepsLeft(inv[e])
<1> DEFINE n == Len(ItemsOf(inv[e].req))
<1>1. inv[e].req \in Requests /\ inv[e].item \in Nat /\ inv[e].failed \in SUBSET Nat
  BY DEF IInv, TypeOK, Invocation
<1>2. n \in Nat
  BY <1>1, SeqsType
<1>3. CASE Stop(e) /\ inv[e].pc # "idle"
  BY <1>3, StepsAfterStop, StepsLeftType
<1>4. CASE Admit(e)
  <2>1. inv'[e].pc = "archive" /\ inv'[e].req = inv[e].req
    BY <1>4 DEF Admit, IInv, TypeOK, Invocation
  <2>2. StepsLeft(inv'[e]) = 2 * n + 2 /\ StepsLeft(inv[e]) = 2 * n + 3
    BY <1>4, <2>1 DEF Admit, StepsLeft
  <2> HIDE DEF n
  <2> QED
    BY <1>2, <2>2
<1>5. CASE PutEnvelope(e)
  <2>1. StepsLeft(inv[e]) = 2 * n + 2
    BY <1>5 DEF PutEnvelope, StepsLeft
  <2>2. StepsLeft(inv'[e]) = IF 0 < n THEN 2 * (n - 0) + 1 ELSE 1
    BY <1>5, StepsAfterGoTo DEF PutEnvelope
  <2> HIDE DEF n
  <2> QED
    BY <1>2, <2>1, <2>2
<1>6. CASE PutItem(e)
  <2>1. inv'[e].pc = "row" /\ inv'[e].req = inv[e].req /\ inv'[e].item = inv[e].item
    BY <1>6 DEF PutItem, IInv, TypeOK, Invocation
  <2>2. /\ StepsLeft(inv[e]) = 2 * (n - inv[e].item) + 1
        /\ StepsLeft(inv'[e]) = 2 * (n - inv[e].item)
    BY <1>6, <2>1 DEF PutItem, StepsLeft
  <2> HIDE DEF n
  <2> QED
    BY <1>1, <1>2, <2>2
<1>7. CASE PutItemFails(e) \/ PutEvent(e) \/ PutEventFails(e)
  <2>1. inv[e].pc \in {"object", "row"}
    BY <1>7 DEF PutItemFails, PutEvent, PutEventFails
  <2>2. inv[e].item < n /\ inv[e].item + 1 \in Nat
    BY <1>1, <2>1, AtAnItem, SeqsType
  <2>3. StepsLeft(inv[e]) \in {2 * (n - inv[e].item) + 1, 2 * (n - inv[e].item)}
    BY <2>1 DEF StepsLeft
  <2>4. StepsLeft(inv'[e]) =
          IF inv[e].item + 1 < n THEN 2 * (n - (inv[e].item + 1)) + 1 ELSE 1
    BY <1>7, <2>2, StepsAfterGoTo DEF PutItemFails, PutEvent, PutEventFails
  <2> HIDE DEF n
  <2> QED
    BY <1>1, <1>2, <2>2, <2>3, <2>4
<1> QED
  BY <1>3, <1>4, <1>5, <1>6, <1>7
  DEF Proceed, Refuse, PutEnvelopeFails, RespondError, RespondId, Kill

(* The measure of InvocationsAdvance is a natural number, zero only when   *)
(* the environment is free.                                                *)
THEOREM Measure ==
    Spec => [](\A e \in Envs : /\ StepsLeft(inv[e]) \in Nat
                               /\ StepsLeft(inv[e]) = 0 <=> inv[e].pc = "idle")
<1>1. IInv => \A e \in Envs : /\ StepsLeft(inv[e]) \in Nat
                              /\ StepsLeft(inv[e]) = 0 <=> inv[e].pc = "idle"
  BY StepsLeftType
<1> QED
  BY <1>1, Invariance, PTL

(* An invocation never repeats a call, whatever fails: with the fairness   *)
(* that is left to TLC, each one ends.                                     *)
THEOREM Advance == Spec => InvocationsAdvance
<1>1. ASSUME IInv, [Next]_vars, NEW e \in Envs, inv[e].pc # "idle", inv'[e] # inv[e]
      PROVE  StepsLeft(inv'[e]) < StepsLeft(inv[e])
  <2>1. ASSUME NEW f \in Envs, Proceed(f) \/ Kill(f)
        PROVE  \A g \in Envs : inv'[g] # inv[g] => g = f
    BY <1>1, <2>1
    DEF IInv, TypeOK, Proceed, Kill, Stop, GoTo, Refuse, Admit, PutEnvelope, PutEnvelopeFails,
        PutItem, PutItemFails, PutEvent, PutEventFails, RespondError, RespondId
  <2>2. ASSUME NEW f \in Envs, NEW q \in Requests, Receive(f, q)
        PROVE  FALSE
    BY <1>1, <2>2 DEF IInv, TypeOK, Receive
  <2>3. inv' # inv
    BY <1>1
  <2>4. \E f \in Envs : Proceed(f) \/ Kill(f)
    BY <1>1, <2>2, <2>3 DEF Next, vars, Deliver, Midnight
  <2> QED
    BY <1>1, <2>1, <2>4, InvocationAdvances
<1>2. IInv /\ [Next]_vars =>
        \A e \in Envs :
          inv[e].pc # "idle" /\ inv'[e] # inv[e] => StepsLeft(inv'[e]) < StepsLeft(inv[e])
  BY <1>1
<1> QED
  BY <1>2, Invariance, PTL DEF Spec, InvocationsAdvance
=============================================================================
