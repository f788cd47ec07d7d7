----------------------------- MODULE Processor -----------------------------
(***************************************************************************)
(* The grouping run of src/lambda/processor/main.go, over a table and a    *)
(* bucket that others change meanwhile: ingest archives an event and puts  *)
(* (or, retried, puts again) its row, the TTL of infra/main.tf deletes     *)
(* rows that carry expires_at, and the lifecycle rule deletes objects.     *)
(*                                                                         *)
(* docs/AI.md:13-14 has a schedule trigger the runs; infra/main.tf deploys *)
(* none, nor the processor (AI.md:3-5).  This is the processor as it would *)
(* run: a schedule, a manual trigger and Lambda's retries know nothing of  *)
(* one another, so that runs may overlap.                                  *)
(*                                                                         *)
(* Scan asks for no consistent read: of each row it may find what any      *)
(* replica still has.                                                      *)
(*                                                                         *)
(* What ingest does is what EventFeed says, which Ingest implements.  Of   *)
(* rows of other item types only their coming matters: a body with the     *)
(* event id of another one may put such a row in the place of an event's.  *)
(* The summary, by AI or not, decides nothing and is left out.             *)
(***************************************************************************)
EXTENDS Integers, Sequences, FiniteSets

CONSTANTS
    Runs,          \* invocations of the processor that may be under way at once
    Keys,          \* keys of the events table
    Events,        \* payloads of event items
    EventsOf,      \* key -> the payloads that ingest stores under it
    Parses,        \* the payloads json.Unmarshal accepts
    Fingerprint,   \* payload -> its issue id
    EmptyIssue,    \* issue id of the zero sentryEvent
    NoIssue,       \* no issue_id attribute
    NoPath,        \* none of the attributes that ingest puts: item_type, s3_path, expires_at
    OtherPath,     \* these attributes of an item that is not an event
    ReservedWords, \* attribute names DynamoDB does not accept bare in an expression
    MaxDay,        \* bound: midnights
    MaxObjects,    \* bound: objects of event items at a time
    MaxPuts,       \* bound: rows put by ingest
    MaxFaults      \* bound: calls that fail although they need not, and crashes

VARIABLES
    day,      \* the date in the paths of new objects
    objects,  \* S3: path -> payload
    rows,     \* DynamoDB: key -> row
    old,      \* key -> what a replica may still have a scan find of its row instead
    late,     \* update -> its attempts without answer that have yet to get through
    run,      \* run -> its state
    grouped,  \* history: key -> updates of its row since the row was put
    puts,     \* rows put so far
    faults    \* faults so far

vars == <<day, objects, rows, old, late, run, grouped, puts, faults>>

Days == 0 .. MaxDay

Path == [key: Keys, day: Days]

Issues == {Fingerprint[v] : v \in Events} \cup {EmptyIssue}

\* The call of UpdateItem, as far as it changes a row.
Call == [key: Keys, issue: Issues]

ASSUME ProcessorAssumption ==
    /\ EventsOf \in [Keys -> SUBSET Events]
    /\ Parses \subseteq Events
    /\ DOMAIN Fingerprint = Events
    /\ IsFiniteSet(Keys)
    /\ NoIssue \notin Issues
    /\ NoPath \notin Path \cup {OtherPath}
    /\ OtherPath \notin Path
    /\ MaxDay \in Nat
    /\ MaxObjects \in Nat
    /\ MaxPuts \in Nat
    /\ MaxFaults \in Nat

Idle == [pc |-> "idle", left |-> {}, batch |-> << >>, issue |-> NoIssue]

Init ==
    /\ day = 0
    /\ objects = << >>
    /\ rows = << >>
    /\ old = [k \in Keys |-> {}]
    /\ late = [call \in Call |-> 0]
    /\ run = [r \in Runs |-> Idle]
    /\ grouped = [k \in Keys |-> 0]
    /\ puts = 0
    /\ faults = 0

Remove(f, x) == [y \in DOMAIN f \ {x} |-> f[y]]

-----------------------------------------------------------------------------
(* The scan's view of the table.                                           *)

\* FilterExpression: item_type = "event" AND status = "received".
Matches(k) ==
    /\ k \in DOMAIN rows
    /\ rows[k].path \in Path
    /\ rows[k].status = "received"

\* What a scan finds at a key: the path of a row that passes the filter.
Found(k) == IF Matches(k) THEN rows[k].path ELSE NoPath

MayFind(k) == {Found(k)} \cup old[k]

\* The row of k changes, in one replica before the other: now this is found.
Lag(k, found) == old' = [old EXCEPT ![k] = MayFind(k) \ {found}]

\* Every replica of the row has got all there was.
CatchUp(k) ==
    /\ old[k] # {}
    /\ old' = [old EXCEPT ![k] = {}]
    /\ UNCHANGED <<day, objects, rows, late, run, grouped, puts, faults>>

-----------------------------------------------------------------------------
(* Ingest, the clock, and expiration.                                      *)

KeyOf(p) == p.key

DayOf(p) == p.day

\* A row as ingest puts it, without issue whatever was there before.
Received(path) == [status |-> "received", path |-> path, issue |-> NoIssue]

Feed == INSTANCE EventFeed WITH
    Paths <- Path, NewRow <- Received, OtherRow <- Received(OtherPath)

Put(f, x, v) == Feed!Put(f, x, v)

Midnight == Feed!Midnight /\ UNCHANGED <<old, late, run, grouped, puts, faults>>

\* PutObject of an event item; a retry stores it again.
Archive(p, v) ==
    /\ puts < MaxPuts
    /\ Cardinality(DOMAIN objects \cup {p}) <= MaxObjects
    /\ Feed!Archive(p, v)
    /\ UNCHANGED <<old, late, run, grouped, puts, faults>>

\* PutItem; what was grouped at this key no longer counts.
NewPut(k, found) ==
    /\ puts < MaxPuts
    /\ puts' = puts + 1
    /\ grouped' = [grouped EXCEPT ![k] = 0]
    /\ Lag(k, found)
    /\ UNCHANGED <<late, run, faults>>

PutRow(p) == Feed!PutRow(p) /\ NewPut(p.key, p)

PutOther(k) == Feed!PutOther(k) /\ NewPut(k, NoPath)

\* The TTL deletes only rows that carry expires_at.
ExpireRow(k) ==
    /\ rows[k].path # NoPath
    /\ rows' = Remove(rows, k)
    /\ grouped' = [grouped EXCEPT ![k] = 0]
    /\ Lag(k, NoPath)
    /\ UNCHANGED <<day, objects, late, run, puts, faults>>

ExpireObject(p) ==
    /\ objects' = Remove(objects, p)
    /\ UNCHANGED <<day, rows, old, late, run, grouped, puts, faults>>

-----------------------------------------------------------------------------
(* A run.                                                                  *)

Stored == <<day, objects, rows, old, grouped, puts>>

Start(r) ==
    /\ run[r].pc = "idle"
    /\ run' = [run EXCEPT ![r] =
         [pc |-> "scan", left |-> Keys, batch |-> << >>, issue |-> NoIssue]]
    /\ UNCHANGED <<Stored, late, faults>>

\* Attribute names that the filter of scan uses bare, without "#".
BareNames == {"item_type", "status"}

ScanIsValid == BareNames \cap ReservedWords = {}

\* Scan reads the items one after the other, in an order of its own, each in some
\* replica; a run goes on from the last page to the rows it found.
ScanItem(r, k) ==
    /\ run[r].pc = "scan"
    /\ ScanIsValid
    /\ k \in run[r].left
    /\ \E path \in MayFind(k) :
         LET batch == IF path # NoPath THEN Append(run[r].batch, [key |-> k, path |-> path])
                      ELSE run[r].batch
             left  == run[r].left \ {k}
         IN  run' = [run EXCEPT ![r] =
               [pc    |-> IF left # {} THEN "scan" ELSE IF batch # << >> THEN "fetch" ELSE "idle",
                left  |-> left,
                batch |-> batch,
                issue |-> NoIssue]]
    /\ UNCHANGED <<Stored, late, faults>>

Fault == faults < MaxFaults /\ faults' = faults + 1

\* Any error of a page ends the run; an invalid filter is an error of every page.
ScanFails(r) ==
    /\ run[r].pc = "scan"
    /\ IF ScanIsValid THEN Fault ELSE faults' = faults
    /\ run' = [run EXCEPT ![r] = Idle]
    /\ UNCHANGED <<Stored, late>>

\* The loop of handleRun: the row at hand, and on to the next one.
Row(r) == Head(run[r].batch)

Continue(r) ==
    run' = [run EXCEPT ![r] =
      [pc    |-> IF Len(run[r].batch) > 1 THEN "fetch" ELSE "idle",
       left  |-> {},
       batch |-> Tail(run[r].batch),
       issue |-> NoIssue]]

GoUpdate(r, issue) ==
    run' = [run EXCEPT ![r] =
      [pc |-> "update", left |-> {}, batch |-> run[r].batch, issue |-> issue]]

IsFetched(r) == Row(r).path \in DOMAIN objects /\ objects[Row(r).path] \in Parses

Fetch(r) ==
    /\ run[r].pc = "fetch"
    /\ IsFetched(r)
    /\ GoUpdate(r, Fingerprint[objects[Row(r).path]])
    /\ UNCHANGED <<Stored, late, faults>>

\* Bug: the `continue` is missing; the zero event is grouped.
FetchFails_GoesOn(r) ==
    /\ run[r].pc = "fetch"
    /\ IF IsFetched(r) THEN Fault ELSE faults' = faults
    /\ GoUpdate(r, EmptyIssue)
    /\ UNCHANGED <<Stored, late>>

\* Bug: the run ends at the first row it cannot load.
FetchFails_Returns(r) ==
    /\ run[r].pc = "fetch"
    /\ IF IsFetched(r) THEN Fault ELSE faults' = faults
    /\ run' = [run EXCEPT ![r] = Idle]
    /\ UNCHANGED <<Stored, late>>

\* Bug: the run scans again instead of going on to the next row.
FetchFails_ScansAgain(r) ==
    /\ run[r].pc = "fetch"
    /\ IF IsFetched(r) THEN Fault ELSE faults' = faults
    /\ run' = [run EXCEPT ![r] =
         [pc |-> "scan", left |-> Keys, batch |-> << >>, issue |-> NoIssue]]
    /\ UNCHANGED <<Stored, late>>

\* The object is gone, does not parse, or the call fails: logged and skipped.
FetchFails(r) ==
    /\ run[r].pc = "fetch"
    /\ IF IsFetched(r) THEN Fault ELSE faults' = faults
    /\ Continue(r)
    /\ UNCHANGED <<Stored, late>>

\* Bug: the update has no condition.
MayUpdate_Always(k) == TRUE

\* ConditionExpression: attribute_not_exists(issue_id).
MayUpdate(k) == k \in DOMAIN rows => rows[k].issue = NoIssue

\* Bug: the new status is not written.
Updated_NoStatus(k, issue) ==
    [status |-> IF k \in DOMAIN rows THEN rows[k].status ELSE "grouped",
     path   |-> IF k \in DOMAIN rows THEN rows[k].path ELSE NoPath,
     issue  |-> issue]

\* Bug: the issue is not written.
Updated_NoIssue(k, issue) ==
    [status |-> "grouped",
     path   |-> IF k \in DOMAIN rows THEN rows[k].path ELSE NoPath,
     issue  |-> NoIssue]

\* UpdateItem sets status and issue_id, and makes the row if there is none.
Updated(k, issue) ==
    [status |-> "grouped",
     path   |-> IF k \in DOMAIN rows THEN rows[k].path ELSE NoPath,
     issue  |-> issue]

UpdateItem(call) ==
    /\ MayUpdate(call.key)
    /\ rows' = Put(rows, call.key, Updated(call.key, call.issue))
    /\ grouped' = [grouped EXCEPT ![call.key] = @ + 1]
    /\ Lag(call.key, NoPath)

CallOf(r) == [key |-> Row(r).key, issue |-> run[r].issue]

\* The call takes effect.  Whether its answer says so, or an attempt that the SDK
\* makes because it got none meets the condition, the run goes on.
Update(r) ==
    /\ run[r].pc = "update"
    /\ UpdateItem(CallOf(r))
    /\ Continue(r)
    /\ UNCHANGED <<day, objects, late, puts, faults>>

\* An attempt without answer has not taken effect, but may yet do so.
Unanswered(r) ==
    /\ run[r].pc = "update"
    /\ Fault
    /\ late' = [late EXCEPT ![CallOf(r)] = @ + 1]

\* The SDK makes another attempt.
Retry(r) == Unanswered(r) /\ UNCHANGED <<Stored, run>>

\* The condition or the call fails: logged and skipped.
UpdateFails(r) ==
    /\ run[r].pc = "update"
    /\ \/ ~MayUpdate(Row(r).key) /\ UNCHANGED <<late, faults>>
       \/ Fault /\ UNCHANGED late
       \/ Unanswered(r)
    /\ Continue(r)
    /\ UNCHANGED Stored

\* An attempt that nobody waits for any longer gets through, or meets the
\* condition.
LateUpdate(call) ==
    /\ late[call] > 0
    /\ late' = [late EXCEPT ![call] = @ - 1]
    /\ IF MayUpdate(call.key) THEN UpdateItem(call) ELSE UNCHANGED <<rows, old, grouped>>
    /\ UNCHANGED <<day, objects, run, puts, faults>>

\* The Lambda time limit, or a crash.
Kill(r) ==
    /\ run[r].pc # "idle"
    /\ \/ Fault /\ UNCHANGED late
       \/ Unanswered(r)
    /\ run' = [run EXCEPT ![r] = Idle]
    /\ UNCHANGED Stored

Proceed(r) ==
    \/ \E k \in Keys : ScanItem(r, k)
    \/ ScanFails(r)
    \/ Fetch(r) \/ FetchFails(r)
    \/ Update(r) \/ UpdateFails(r)

Next ==
    \/ Midnight
    \/ \E p \in Path : \E v \in EventsOf[p.key] : Archive(p, v)
    \/ \E k \in Keys : PutOther(k) \/ CatchUp(k)
    \/ \E p \in DOMAIN objects : PutRow(p) \/ ExpireObject(p)
    \/ \E k \in DOMAIN rows : ExpireRow(k)
    \/ \E r \in Runs : Start(r) \/ Proceed(r) \/ Retry(r) \/ Kill(r)
    \/ \E call \in Call : LateUpdate(call)

Spec == Init /\ [][Next]_vars

\* Given a schedule (AI.md:13-14), runs are started for ever, and a started run
\* goes on: it waits only for calls, each of which returns.  Replicas converge.
FairSpec ==
    /\ Spec
    /\ \A r \in Runs : WF_vars(Start(r)) /\ WF_vars(Proceed(r))
    /\ \A k \in Keys : WF_vars(CatchUp(k))

-----------------------------------------------------------------------------
EventRow == [status: {"received", "grouped"}, path: Path \cup {NoPath, OtherPath},
             issue: Issues \cup {NoIssue}]

Entry == {[key |-> p.key, path |-> p] : p \in Path}

RunState == [pc: {"idle", "scan", "fetch", "update"}, left: SUBSET Keys,
             batch: Seq(Entry), issue: Issues \cup {NoIssue}]

\* The issues a row may get.
IssuesFor(k) == {Fingerprint[v] : v \in EventsOf[k] \cap Parses}

(* Every variable has its type; a row is grouped iff it has an issue, and  *)
(* its path, like that of a scanned row, is one of its key.                *)
TypeOK ==
    /\ day \in Days
    /\ DOMAIN objects \subseteq Path
    /\ \A p \in DOMAIN objects : objects[p] \in EventsOf[p.key]
    /\ DOMAIN rows \subseteq Keys
    /\ \A k \in DOMAIN rows :
         /\ rows[k] \in EventRow
         /\ rows[k].path \in Path => rows[k].path.key = k
         /\ rows[k].status = "grouped" <=> rows[k].issue # NoIssue
    /\ old \in [Keys -> SUBSET (Path \cup {NoPath})]
    /\ \A k \in Keys : \A p \in old[k] \ {NoPath} : p.key = k
    /\ late \in [Call -> Nat]
    /\ run \in [Runs -> RunState]
    /\ \A r \in Runs :
         /\ run[r].pc \in {"fetch", "update"} => run[r].batch # << >>
         /\ run[r].pc = "update" => run[r].issue # NoIssue
    /\ grouped \in [Keys -> Nat]
    /\ puts \in 0 .. MaxPuts
    /\ faults \in 0 .. MaxFaults

(* However runs overlap, and however stale their scans are, a row that     *)
(* ingest has put is grouped at most once until it is put again, and it    *)
(* has an issue iff it was.                                                *)
OncePerPut ==
    \A k \in Keys :
        grouped[k] = IF k \in DOMAIN rows /\ rows[k].issue # NoIssue THEN 1 ELSE 0

(* An issue is the fingerprint of an event that was stored for the row:    *)
(* never of a payload that could not be loaded or parsed, and never of     *)
(* another row of the batch.                                               *)
IssueOfItsEvent ==
    \A k \in DOMAIN rows :
        rows[k].issue # NoIssue => rows[k].issue \in IssuesFor(k)

\* Status and issue of each row, for its readers.
IssueTable == [k \in DOMAIN rows |-> [status |-> rows[k].status, issue |-> rows[k].issue]]

Contract == INSTANCE IssueContract WITH table <- IssueTable

(* What the readers of the table rely on (module IssueContract): whatever  *)
(* runs overlap and fail, an issue and the status come together, are given *)
(* for an event of the row, and then stay until ingest puts the row again  *)
(* or it expires.                                                          *)
ImplementsIssueContract == Contract!Spec

\* How many steps a run has before it at most: one per key it has not read, two
\* per row it has or may still find.
StepsLeft(s) ==
    CASE s.pc = "scan"   -> 3 * Cardinality(s.left) + 2 * Len(s.batch) + 1
      [] s.pc = "fetch"  -> 2 * Len(s.batch)
      [] s.pc = "update" -> 2 * Len(s.batch) - 1
      [] OTHER           -> 0

(* Whatever cannot be scanned, loaded or updated, each step of a run takes *)
(* it nearer to its end: rows that fail again and again cannot hold it.    *)
RunsAdvance ==
    [][\A r \in Runs :
         run[r].pc # "idle" /\ run'[r] # run[r] => StepsLeft(run'[r]) < StepsLeft(run[r])]_vars

Groupable(k) ==
    /\ k \in DOMAIN rows
    /\ Matches(k)
    /\ rows[k].path \in DOMAIN objects
    /\ objects[rows[k].path] \in Parses

\* Run r has yet to come to the row of k as it is now.
Holds(r, k) ==
    \/ run[r].pc = "scan" /\ k \in run[r].left
    \/ /\ run[r].pc # "idle"
       /\ \E i \in DOMAIN run[r].batch : run[r].batch[i] = [key |-> k, path |-> rows[k].path]

(* A run lets go of an event that it has before it, and that every replica *)
(* has, only by grouping it, or when a call fails, the scan's included: no *)
(* other row, stale or not to be loaded, no other run and no late update   *)
(* makes it skip one that stays as it is.                                  *)
NoEventIsPassedOver ==
    [][\A r \in Runs, k \in Keys :
         Groupable(k) /\ Groupable(k)' /\ rows'[k].path = rows[k].path /\ old[k] = {}
           => (Holds(r, k) /\ ~Holds(r, k)' => faults' = faults + 1 \/ ScanFails(r))]_vars

(* "Both rows now share the same issue_id, status grouped" (AI.md:70-71):  *)
(* an event that can be loaded does not wait for ever, whatever rows that  *)
(* cannot be loaded are scanned before it.                                 *)
EveryEventIsGrouped == \A k \in Keys : Groupable(k) ~> ~Groupable(k)

(* "Every row carries expires_at" (ARCHITECTURE.md:104): no row is without *)
(* the attributes that ingest puts.                                        *)
EveryRowExpires == \A k \in DOMAIN rows : rows[k].path # NoPath
=============================================================================
