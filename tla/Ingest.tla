------------------------------- MODULE Ingest -------------------------------
(***************************************************************************)
(* The ingest Lambda's write path: handleRequest and persist of            *)
(* src/lambda/ingest/main.go, run by several execution environments over   *)
(* one S3 bucket and one DynamoDB events table.                            *)
(*                                                                         *)
(* Every S3 and DynamoDB call is a step of its own, so that invocations of *)
(* the same (retried) body interleave call by call, and a call can         *)
(*   - succeed,                                                            *)
(*   - return an error without effect, or                                  *)
(*   - return an error and still take effect, at any later moment: it sits *)
(*     in `late` until Deliver applies it.                                 *)
(* An invocation may also be killed between two calls (the 30 s timeout of *)
(* infra/main.tf:235, or a crash of the environment), and midnight UTC     *)
(* may pass at any moment.                                                 *)
(*                                                                         *)
(* Authentication, the rate limiter and decompression store nothing: here  *)
(* they are the choice between Admit and Refuse.                           *)
(***************************************************************************)
EXTENDS Integers, Sequences, FiniteSets

CONSTANTS
    Envs,            \* Lambda execution environments; each runs one invocation at a time
    Requests,        \* the requests that reach the handler
    Projects,        \* project ids
    Bodies,          \* decompressed request bodies
    Parses,          \* the bodies ParseEnvelope accepts
    EnvelopeItems,   \* body -> the items ParseEnvelope returns for it
    StoreEventId,    \* body -> the event_id found in it by the store route
    DeterministicId, \* body -> hex of the first half of its SHA-256
    EventIds,        \* strings validEventID accepts
    NoId,            \* no event_id, or one validEventID rejects
    MaxDay,          \* bound: UTC midnights that pass
    MaxSends,        \* bound: requests delivered in a behaviour
    MaxLate          \* bound: calls that are late at the same time

VARIABLES
    day,             \* the current UTC date
    inv,             \* environment -> the state of its invocation
    envelopes,       \* S3: envelope key -> body
    payloads,        \* S3: item key -> the item whose payload it holds
    rows,            \* DynamoDB events table: key -> row
    late,            \* calls that returned an error and will still take effect
    acked,           \* history: the 200 responses
    sends            \* number of requests delivered so far

vars == <<day, inv, envelopes, payloads, rows, late, acked, sends>>

-----------------------------------------------------------------------------
(* The data of a request.                                                  *)

\* Item types as sent: " event" is a type with surrounding space, "" a blank
\* or missing one, "session" any other.
ItemTypes == {"event", " event", "", "session"}

Item == [type: ItemTypes, id: EventIds \cup {NoId}]

Request == [project: Projects, route: {"envelope", "store"}, body: Bodies]

Days == 0 .. MaxDay

SanitizeItemType(t) ==
    CASE t = ""       -> "unknown"
      [] t = " event" -> "event"
      [] OTHER        -> t

\* The store route wraps the whole body as the payload of one event item.
ItemsOf(q) ==
    IF q.route = "store"
    THEN << [type |-> "event", id |-> StoreEventId[q.body]] >>
    ELSE EnvelopeItems[q.body]

\* The positions `for i, item := range items` visits.
Seqs(q) == 0 .. Len(ItemsOf(q)) - 1

\* The id of the first item whose type is exactly "event" and whose id is valid.
EventIdFromItems(items) ==
    LET named == {i \in DOMAIN items :
                    items[i].type = "event" /\ items[i].id # NoId}
        first == {i \in named : \A j \in named : i <= j}
    IN  IF first = {} THEN NoId ELSE items[CHOOSE i \in first : TRUE].id

EventId ==
    [q \in Requests |->
        LET id == EventIdFromItems(ItemsOf(q))
        IN  IF id = NoId THEN DeterministicId[q.body] ELSE id]

EventIdOf(q) == EventId[q]

ASSUME IngestAssumption ==
    /\ Envs # {}
    /\ Requests # {}
    /\ Requests \subseteq Request
    /\ Parses \subseteq Bodies
    /\ NoId \notin EventIds
    /\ EnvelopeItems \in [Bodies -> Seq(Item)]
    /\ StoreEventId \in [Bodies -> EventIds \cup {NoId}]
    /\ DeterministicId \in [Bodies -> EventIds]
    /\ MaxDay \in Nat
    /\ MaxSends \in Nat
    /\ MaxLate \in Nat

-----------------------------------------------------------------------------
(* Storage keys.                                                           *)

TypeOfItem(q, i) == SanitizeItemType(ItemsOf(q)[i + 1].type)

EnvKey(q, d) == [project |-> q.project, date |-> d, id |-> EventIdOf(q)]

ItemKey(q, d, i) ==
    [project |-> q.project, date |-> d, id |-> EventIdOf(q),
     seq |-> i, type |-> TypeOfItem(q, i)]

SortKeyOf(id, type, seq) == IF seq = 0 THEN <<id>> ELSE <<id, type, seq>>

RowKey(q, i) ==
    [project |-> q.project, event_id |-> SortKeyOf(EventIdOf(q), TypeOfItem(q, i), i)]

\* Which bytes a payload is: item i of a body as its route reads it.
Part(q, i) == [route |-> q.route, body |-> q.body, seq |-> i]

\* A row carries the path of its object and, in `of`, the item that its
\* level, platform and timestamp were read from.
EventRow(q, d, i) == [s3_path |-> ItemKey(q, d, i), of |-> Part(q, i)]

-----------------------------------------------------------------------------
(* Storage calls.                                                          *)

\* PutObject and PutItem replace whatever the key held.
Put(store, k, v) ==
    [x \in DOMAIN store \cup {k} |-> IF x = k THEN v ELSE store[x]]

\* What the call in progress at environment e writes.
EnvelopeWrite(e) ==
    [to |-> "envelopes", key |-> EnvKey(inv[e].req, inv[e].date), value |-> inv[e].req.body]

ItemWrite(e) ==
    [to |-> "payloads", key |-> ItemKey(inv[e].req, inv[e].date, inv[e].item),
     value |-> Part(inv[e].req, inv[e].item)]

\* Bug: every row carries the path and the metadata of the first item.
RowWrite_FirstItem(e) ==
    [to |-> "rows", key |-> RowKey(inv[e].req, inv[e].item),
     value |-> EventRow(inv[e].req, inv[e].date, 0)]

\* Bug: the sort key carries the date, as the S3 keys do.
RowWrite_DatedKey(e) ==
    [to |-> "rows",
     key |-> [project |-> inv[e].req.project,
              event_id |-> << EventIdOf(inv[e].req), inv[e].date, inv[e].item >>],
     value |-> EventRow(inv[e].req, inv[e].date, inv[e].item)]

RowWrite(e) ==
    [to |-> "rows", key |-> RowKey(inv[e].req, inv[e].item),
     value |-> EventRow(inv[e].req, inv[e].date, inv[e].item)]

\* A call that returns an error has no effect, or has it later.
NoEffectOrLate(write) ==
    \/ late' = late
    \/ Cardinality(late) < MaxLate /\ late' = late \cup {write}

-----------------------------------------------------------------------------
(* An invocation.                                                          *)

Resting == [pc |-> "idle", req |-> CHOOSE q \in Requests : TRUE,
            date |-> 0, item |-> 0, failed |-> {}]

Init ==
    /\ day = 0
    /\ inv = [e \in Envs |-> Resting]
    /\ envelopes = << >>
    /\ payloads = << >>
    /\ rows = << >>
    /\ late = {}
    /\ acked = {}
    /\ sends = 0

Stop(e) == inv' = [inv EXCEPT ![e] = Resting]

\* handleRequest reads the clock before anything else; the date of every
\* storage key is the date of that moment.
Receive(e, q) ==
    /\ inv[e].pc = "idle"
    /\ sends < MaxSends
    /\ sends' = sends + 1
    /\ inv' = [inv EXCEPT ![e] =
         [pc |-> "admit", req |-> q, date |-> day, item |-> 0, failed |-> {}]]
    /\ UNCHANGED <<day, envelopes, payloads, rows, late, acked>>

\* Every response before persist (400, 401, 403, 429, 500) stores nothing.
Refuse(e) ==
    /\ inv[e].pc = "admit"
    /\ Stop(e)
    /\ UNCHANGED <<day, envelopes, payloads, rows, late, acked, sends>>

Admit(e) ==
    /\ inv[e].pc = "admit"
    /\ inv[e].req.route = "store" \/ inv[e].req.body \in Parses
    /\ inv' = [inv EXCEPT ![e].pc = "archive"]
    /\ UNCHANGED <<day, envelopes, payloads, rows, late, acked, sends>>

\* Bug: the loop stops one item early.
GoTo_OneShort(e, i, failed) ==
    inv' = [inv EXCEPT ![e] =
        [pc     |-> IF i + 1 \in Seqs(inv[e].req) THEN "object" ELSE "respond",
         req    |-> inv[e].req,
         date   |-> inv[e].date,
         item   |-> i,
         failed |-> failed]]

\* The loop of persist goes to item i, or past the last one.
GoTo(e, i, failed) ==
    inv' = [inv EXCEPT ![e] =
        [pc     |-> IF i \in Seqs(inv[e].req) THEN "object" ELSE "respond",
         req    |-> inv[e].req,
         date   |-> inv[e].date,
         item   |-> i,
         failed |-> failed]]

PutEnvelope(e) ==
    /\ inv[e].pc = "archive"
    /\ envelopes' = Put(envelopes, EnvelopeWrite(e).key, EnvelopeWrite(e).value)
    /\ GoTo(e, 0, {})
    /\ UNCHANGED <<day, payloads, rows, late, acked, sends>>

\* Bug: a failed archive is logged and the items are stored all the same.
PutEnvelopeFails_GoesOn(e) ==
    /\ inv[e].pc = "archive"
    /\ NoEffectOrLate(EnvelopeWrite(e))
    /\ GoTo(e, 0, {})
    /\ UNCHANGED <<day, envelopes, payloads, rows, acked, sends>>

\* 500: nothing else of the request is stored.
PutEnvelopeFails(e) ==
    /\ inv[e].pc = "archive"
    /\ NoEffectOrLate(EnvelopeWrite(e))
    /\ Stop(e)
    /\ UNCHANGED <<day, envelopes, payloads, rows, acked, sends>>

PutItem(e) ==
    /\ inv[e].pc = "object"
    /\ payloads' = Put(payloads, ItemWrite(e).key, ItemWrite(e).value)
    /\ inv' = [inv EXCEPT ![e].pc = "row"]
    /\ UNCHANGED <<day, envelopes, rows, late, acked, sends>>

\* Bug: the `continue` after a failed object is missing.
PutItemFails_NoContinue(e) ==
    /\ inv[e].pc = "object"
    /\ NoEffectOrLate(ItemWrite(e))
    /\ inv' = [inv EXCEPT ![e] = [inv[e] EXCEPT !.pc = "row",
                                               !.failed = @ \cup {inv[e].item}]]
    /\ UNCHANGED <<day, envelopes, payloads, rows, acked, sends>>

PutItemFails(e) ==
    /\ inv[e].pc = "object"
    /\ NoEffectOrLate(ItemWrite(e))
    /\ GoTo(e, inv[e].item + 1, inv[e].failed \cup {inv[e].item})
    /\ UNCHANGED <<day, envelopes, payloads, rows, acked, sends>>

PutEvent(e) ==
    /\ inv[e].pc = "row"
    /\ rows' = Put(rows, RowWrite(e).key, RowWrite(e).value)
    /\ GoTo(e, inv[e].item + 1, inv[e].failed)
    /\ UNCHANGED <<day, envelopes, payloads, late, acked, sends>>

\* Bug: a failed row is not counted.
PutEventFails_NotCounted(e) ==
    /\ inv[e].pc = "row"
    /\ NoEffectOrLate(RowWrite(e))
    /\ GoTo(e, inv[e].item + 1, inv[e].failed)
    /\ UNCHANGED <<day, envelopes, payloads, rows, acked, sends>>

\* Bug: a failed row sends the loop back to the first item.
PutEventFails_StartsOver(e) ==
    /\ inv[e].pc = "row"
    /\ NoEffectOrLate(RowWrite(e))
    /\ GoTo(e, 0, {})
    /\ UNCHANGED <<day, envelopes, payloads, rows, acked, sends>>

PutEventFails(e) ==
    /\ inv[e].pc = "row"
    /\ NoEffectOrLate(RowWrite(e))
    /\ GoTo(e, inv[e].item + 1, inv[e].failed \cup {inv[e].item})
    /\ UNCHANGED <<day, envelopes, payloads, rows, acked, sends>>

\* Bug: 200 however many items failed.
AllFailed_Ignored(e) == FALSE

\* `failed == len(items) && len(items) > 0` is the 500 of persist.
AllFailed(e) == inv[e].failed = Seqs(inv[e].req) /\ Seqs(inv[e].req) # {}

RespondError(e) ==
    /\ inv[e].pc = "respond"
    /\ AllFailed(e)
    /\ Stop(e)
    /\ UNCHANGED <<day, envelopes, payloads, rows, late, acked, sends>>

RespondId(e) ==
    /\ inv[e].pc = "respond"
    /\ ~AllFailed(e)
    /\ acked' = acked \cup {[req |-> inv[e].req, date |-> inv[e].date, failed |-> inv[e].failed]}
    /\ Stop(e)
    /\ UNCHANGED <<day, envelopes, payloads, rows, late, sends>>

\* The Lambda time limit, or a crash: no response, and no further call.
Kill(e) ==
    /\ inv[e].pc # "idle"
    /\ Stop(e)
    /\ UNCHANGED <<day, envelopes, payloads, rows, late, acked, sends>>

-----------------------------------------------------------------------------
(* The storage services and the clock.                                     *)

Deliver(w) ==
    /\ late' = late \ {w}
    /\ envelopes' = IF w.to = "envelopes" THEN Put(envelopes, w.key, w.value) ELSE envelopes
    /\ payloads' = IF w.to = "payloads" THEN Put(payloads, w.key, w.value) ELSE payloads
    /\ rows' = IF w.to = "rows" THEN Put(rows, w.key, w.value) ELSE rows
    /\ UNCHANGED <<day, inv, acked, sends>>

Midnight ==
    /\ day < MaxDay
    /\ day' = day + 1
    /\ UNCHANGED <<inv, envelopes, payloads, rows, late, acked, sends>>

\* What the handler does by itself once it runs.
Proceed(e) ==
    \/ Refuse(e) \/ Admit(e)
    \/ PutEnvelope(e) \/ PutEnvelopeFails(e)
    \/ PutItem(e) \/ PutItemFails(e)
    \/ PutEvent(e) \/ PutEventFails(e)
    \/ RespondError(e) \/ RespondId(e)

Next ==
    \/ \E e \in Envs : \/ \E q \in Requests : Receive(e, q)
                       \/ Proceed(e)
                       \/ Kill(e)
    \/ \E w \in late : Deliver(w)
    \/ Midnight

Spec == Init /\ [][Next]_vars

\* A started invocation runs on: the SDK calls return (each has a client
\* timeout) and the handler waits for nothing else.
FairSpec == Spec /\ \A e \in Envs : WF_vars(Proceed(e))

-----------------------------------------------------------------------------
(* Type correctness.                                                       *)


\* The writes that requests make.
IsEnvelope(k, v) ==
    \E q \in Requests, d \in Days : k = EnvKey(q, d) /\ v = q.body

IsPayload(k, v) ==
    \E q \in Requests, d \in Days : \E i \in Seqs(q) :
        k = ItemKey(q, d, i) /\ v = Part(q, i)

IsRow(k, v) ==
    \E q \in Requests, d \in Days : \E i \in Seqs(q) :
        k = RowKey(q, i) /\ v = EventRow(q, d, i)

IsWrite(w) ==
    \/ w.to = "envelopes" /\ IsEnvelope(w.key, w.value)
    \/ w.to = "payloads" /\ IsPayload(w.key, w.value)
    \/ w.to = "rows" /\ IsRow(w.key, w.value)

Pcs == {"idle", "admit", "archive", "object", "row", "respond"}

Invocation == [pc: Pcs, req: Requests, date: Days, item: Nat, failed: SUBSET Nat]

(* Every variable has its type; what a key of the bucket or of the table   *)
(* holds was written there by a request that owns that key.                *)
TypeOK ==
    /\ day \in Days
    /\ inv \in [Envs -> Invocation]
    /\ \A k \in DOMAIN envelopes : IsEnvelope(k, envelopes[k])
    /\ \A k \in DOMAIN payloads : IsPayload(k, payloads[k])
    /\ \A k \in DOMAIN rows : IsRow(k, rows[k])
    /\ \A w \in late : IsWrite(w)
    /\ acked \subseteq [req: Requests, date: Days, failed: SUBSET Nat]
    /\ sends \in 0 .. MaxSends

-----------------------------------------------------------------------------
(* Safety.                                                                 *)

\* No other request of the project has this request's event id.
Unshared(q) ==
    \A r \in Requests :
        r.project = q.project /\ EventIdOf(r) = EventIdOf(q) => r = q

\* The request of project p that a payload or a row came from.
Origin(p, part) == [project |-> p, route |-> part.route, body |-> part.body]

(* "We never leave orphaned items without their raw source" (main.go:164): *)
(* beside every archived item lies the envelope archive of its id and      *)
(* date, and it is the very body the item came from unless another request *)
(* has the same event id.                                                  *)
NoOrphanedItems ==
    \A k \in DOMAIN payloads :
        LET source == [project |-> k.project, date |-> k.date, id |-> k.id]
        IN  /\ source \in DOMAIN envelopes
            /\ Unshared(Origin(k.project, payloads[k])) =>
                 envelopes[source] = payloads[k].body

(* The processor fetches the object that a row names (processor/main.go    *)
(* fetch): it exists, whatever call failed, came late or was retried, and  *)
(* it is the item the row describes unless event ids are shared.           *)
RowsPointToObjects ==
    \A k \in DOMAIN rows :
        /\ rows[k].s3_path \in DOMAIN payloads
        /\ Unshared(Origin(k.project, rows[k].of)) =>
             payloads[rows[k].s3_path] = rows[k].of

(* Identical retries, concurrent, on another day or after a failure,       *)
(* collapse onto the same rows (ARCHITECTURE.md:87-90): two rows of a      *)
(* project never describe the same item.                                   *)
OneRowPerItem ==
    \A j, k \in DOMAIN rows :
        j.project = k.project /\ rows[j].of = rows[k].of => j = k

(* A 200 means: the raw body is archived, every item that did not fail has *)
(* its object and its row, and at least one item did not fail              *)
(* (main.go:166-168).  It stays so whatever later retries, crashes and     *)
(* late calls do.  Where no other request has the id, the contents are     *)
(* those of the acknowledged request, item by item.                        *)
AckedIsStored ==
    \A a \in acked :
        LET q == a.req
            stored == Seqs(q) \ a.failed
        IN  /\ EnvKey(q, a.date) \in DOMAIN envelopes
            /\ Seqs(q) # {} => stored # {}
            /\ \A i \in stored :
                 /\ ItemKey(q, a.date, i) \in DOMAIN payloads
                 /\ RowKey(q, i) \in DOMAIN rows
            /\ Unshared(q) =>
                 /\ envelopes[EnvKey(q, a.date)] = q.body
                 /\ \A i \in stored :
                      /\ payloads[ItemKey(q, a.date, i)] = Part(q, i)
                      /\ rows[RowKey(q, i)].of = Part(q, i)

(* How far an invocation is, told from what is stored: the archive came    *)
(* first, every item passed in the loop either failed or is complete, and  *)
(* the object of the current item precedes its row.                        *)
Accounted(v) ==
    /\ v.pc \in {"object", "row", "respond"} =>
         /\ EnvKey(v.req, v.date) \in DOMAIN envelopes
         /\ v.failed \subseteq Seqs(v.req)
         /\ \A i \in Seqs(v.req) \ v.failed : i < v.item =>
              ItemKey(v.req, v.date, i) \in DOMAIN payloads /\ RowKey(v.req, i) \in DOMAIN rows
    /\ v.pc \in {"object", "row"} => v.item \in Seqs(v.req)
    /\ v.pc = "row" => ItemKey(v.req, v.date, v.item) \in DOMAIN payloads
    /\ v.pc = "respond" => \A i \in Seqs(v.req) : i < v.item

(* A write may come late, never early: what must be stored before it is.   *)
InOrder(w) ==
    /\ w.to = "payloads" =>
         [project |-> w.key.project, date |-> w.key.date, id |-> w.key.id] \in DOMAIN envelopes
    /\ w.to = "rows" => w.value.s3_path \in DOMAIN payloads

(* At every moment each running invocation is accounted for and each late  *)
(* call is in order; the inductive step of the properties above.           *)
NothingOutOfOrder ==
    /\ \A e \in Envs : Accounted(inv[e])
    /\ \A w \in late : InOrder(w)

(* Identical retries "collapse onto the same S3 objects ... instead of     *)
(* creating duplicates" (ARCHITECTURE.md:87-90).                           *)
OneObjectPerItem ==
    \A j, k \in DOMAIN payloads :
        j.project = k.project /\ payloads[j] = payloads[k] => j = k

-----------------------------------------------------------------------------
(* Progress.                                                               *)

\* How many steps an invocation has before it at most: two calls per item.
StepsLeft(v) ==
    LET n == Len(ItemsOf(v.req))
    IN  CASE v.pc = "admit"   -> 2 * n + 3
          [] v.pc = "archive" -> 2 * n + 2
          [] v.pc = "object"  -> 2 * (n - v.item) + 1
          [] v.pc = "row"     -> 2 * (n - v.item)
          [] v.pc = "respond" -> 1
          [] OTHER            -> 0

(* Whatever fails, an invocation never repeats a call nor goes back: each  *)
(* of its steps brings it nearer to its response, which it reaches after   *)
(* two calls per item and one for the archive at the latest.               *)
InvocationsAdvance ==
    [][\A e \in Envs :
         inv[e].pc # "idle" /\ inv'[e] # inv[e] => StepsLeft(inv'[e]) < StepsLeft(inv[e])]_vars

(* Whatever mix of calls fails, the loop of persist reaches its end and    *)
(* the environment is free again.                                          *)
EveryInvocationEnds ==
    \A e \in Envs : inv[e].pc # "idle" ~> inv[e].pc = "idle"

-----------------------------------------------------------------------------
(* The contract this write path keeps with its readers and its clients.    *)

DocumentOf(k) == [project |-> k.project, id |-> k.event_id[1]]

DocumentIn(q) == [project |-> q.project, id |-> EventIdOf(q)]

RowKeysOf(q) == {RowKey(q, i) : i \in Seqs(q)}

PromiseTo(q) == [document |-> DocumentIn(q), rows |-> RowKeysOf(q)]

AllDocuments == {DocumentIn(q) : q \in Requests}

AllRowKeys == UNION {RowKeysOf(q) : q \in Requests}

AllPromises == {PromiseTo(q) : q \in Requests}

Archived == {[project |-> k.project, id |-> k.id] : k \in DOMAIN envelopes}

Promised == {PromiseTo(a.req) : a \in acked}

Contract == INSTANCE IngestContract WITH
    Documents  <- AllDocuments,
    RowKeys    <- AllRowKeys,
    DocumentOf <- DocumentOf,
    Promises   <- AllPromises,
    archived   <- Archived,
    indexed    <- DOMAIN rows,
    promised   <- Promised

(* Every step of the Lambda and of the storage services is a step of the   *)
(* contract, or none of its business.                                      *)
ImplementsContract == Contract!Spec

-----------------------------------------------------------------------------
(* What the processor sees of it: the objects of event items, and of each  *)
(* row whether it is an event's, and then the path in it.                  *)

EventPaths ==
    {k \in UNION {{ItemKey(q, d, i) : d \in Days, i \in Seqs(q)} : q \in Requests} : k.type = "event"}

KeyOfPath(k) == [project |-> k.project, event_id |-> SortKeyOf(k.id, k.type, k.seq)]

DateOfPath(k) == k.date

\* The event items that may be stored for a row.
EventParts ==
    [k \in AllRowKeys |->
        UNION {{Part(q, i) : i \in {j \in Seqs(q) : RowKey(q, j) = k /\ TypeOfItem(q, j) = "event"}} :
               q \in Requests}]

EventObjects == [k \in {j \in DOMAIN payloads : j.type = "event"} |-> payloads[k]]

PathOfRow(path) == [path |-> path]

NoEvent == [path |-> << >>]

EventRows ==
    [k \in DOMAIN rows |-> IF rows[k].s3_path.type = "event" THEN PathOfRow(rows[k].s3_path) ELSE NoEvent]

Feed == INSTANCE EventFeed WITH
    Paths    <- EventPaths,
    KeyOf    <- KeyOfPath,
    DayOf    <- DateOfPath,
    Keys     <- AllRowKeys,
    EventsOf <- EventParts,
    NewRow   <- PathOfRow,
    OtherRow <- NoEvent,
    objects  <- EventObjects,
    rows     <- EventRows

(* What the processor relies on (module EventFeed): whatever fails, is     *)
(* repeated, comes late or is killed, the row of an event item appears     *)
(* only once its object is there, names the object of its own key, and no  *)
(* object gets another event than those of the key, nor a date to come.    *)
FeedsTheProcessor == Feed!Spec
=============================================================================
