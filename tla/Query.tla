------------------------------- MODULE Query -------------------------------
(***************************************************************************)
(* The query API of src/lambda/query/main.go: one client that lists the    *)
(* rows of a project page by page, while ingest puts rows (also again,     *)
(* with another timestamp or level) and the TTL deletes them.              *)
(*                                                                         *)
(* The handler keeps nothing between two requests; what goes on is in the  *)
(* cursor the client holds.  A query with `from` or `to` reads the         *)
(* TimestampIndex, the others the table, in the order of its keys.         *)
(* QueryInput does not ask for a consistent read (an index has none): each *)
(* request may be answered by another replica, and each replica may lag.   *)
(* Authentication is left out here.                                        *)
(***************************************************************************)
EXTENDS Integers, Sequences, FiniteSets

CONSTANTS
    Keys,         \* event_id of the rows, numbers in the order of the strings
    Times,        \* timestamps, numbers in the order of the strings
    ItemTypes,    \* item types, the type of an event among them
    Levels,       \* levels
    EventType,    \* "event"
    All,          \* type=all
    None,         \* a parameter that is not given
    NoCursor,     \* the empty cursor
    Gone,         \* what is shown of a key that has no row
    Queries,      \* the queries clients ask
    DefaultLimit, \* defaultLimit
    MaxLimit,     \* maxLimit
    MaxWrites     \* bound: rows put or deleted while the client reads

\* A query: from, to, level, type and limit as the client gives them.
Query == [from: Times \cup {None}, to: Times \cup {None}, level: Levels \cup {None},
          type: ItemTypes \cup {All, None}, limit: Int \cup {None}]

\* Where a row stands in what is read: a row that is put again with another
\* timestamp has another place in the index.
Position == [key: Keys, ts: Times]

ASSUME QueryAssumption ==
    /\ Keys \subseteq Nat
    /\ Times \subseteq Nat
    /\ None \notin Times
    /\ None \notin Levels
    /\ {All, None} \cap ItemTypes = {}
    /\ EventType \in ItemTypes
    /\ Queries \subseteq Query
    /\ Queries # {}
    /\ None \notin Int
    /\ NoCursor \notin Position
    /\ Gone \notin [ts: Times, type: ItemTypes, level: Levels]
    /\ MaxLimit \in Nat \ {0}
    /\ DefaultLimit \in 1 .. MaxLimit
    /\ MaxWrites \in Nat

VARIABLES
    rows,     \* the events table of the project: key -> row or Gone
    old,      \* key -> what some replica, of table or index, may still show instead
    session,  \* the client
    steady,   \* history: keys that every replica has shown to match ever since it began
    writes    \* rows put or deleted so far

vars == <<rows, old, session, steady, writes>>

Row == [ts: Times, type: ItemTypes, level: Levels]

Shown == Row \cup {Gone}

Init ==
    /\ rows \in [Keys -> Shown]
    /\ old = [k \in Keys |-> {}]
    /\ session = [pc |-> "idle", query |-> CHOOSE q \in Queries : TRUE, cursor |-> NoCursor,
                   listed |-> {}, page |-> {}]
    /\ steady = {}
    /\ writes = 0

-----------------------------------------------------------------------------
(* The query that QueryEvents makes of the parameters.                     *)

UsesIndex(q) == q.from # None \/ q.to # None

ItemTypeOf(q) == IF q.type = None THEN EventType ELSE q.type

FiltersType(q) == ItemTypeOf(q) # All

FiltersLevel(q) == q.level # None

InRange(q, row) ==
    /\ q.from # None => row.ts >= q.from
    /\ q.to # None => row.ts <= q.to

Passes(q, row) ==
    /\ FiltersType(q) => row.type = ItemTypeOf(q)
    /\ FiltersLevel(q) => row.level = q.level

\* Aliases in the expressions, and those that are passed with them: the names
\* go with the filter, but the key condition on the timestamp has one as well.
AliasesUsed(q) ==
    {a \in {"#ts", "#it", "#lvl"} :
        \/ a = "#ts" /\ UsesIndex(q)
        \/ a = "#it" /\ FiltersType(q)
        \/ a = "#lvl" /\ FiltersLevel(q)}

AliasesPassed(q) ==
    IF FiltersType(q) \/ FiltersLevel(q) THEN AliasesUsed(q) ELSE {}

\* DynamoDB refuses an alias without its name, and a range that is upside down.
IsEmptyRange(q) == q.from # None /\ q.to # None /\ q.from > q.to

IsAccepted(q) == AliasesUsed(q) \subseteq AliasesPassed(q) /\ ~IsEmptyRange(q)

IsLimit(q) == q.limit # None => q.limit > 0

\* Bug: the limit is not capped.
LimitOf_Uncapped(q) == IF q.limit = None THEN DefaultLimit ELSE q.limit

LimitOf(q) ==
    IF q.limit = None THEN DefaultLimit
    ELSE IF q.limit > MaxLimit THEN MaxLimit ELSE q.limit

-----------------------------------------------------------------------------
(* DynamoDB.                                                               *)

Versions(k) == {rows[k]} \cup old[k]

\* The index orders rows by timestamp: with another one, a row loses its old
\* place, and gets its new one some time later.
IsMoving(k) == \E v, w \in Versions(k) \ {Gone} : v.ts # w.ts

\* What a request may be shown of a key: reads are eventually consistent.
MayShow(q, k) ==
    Versions(k) \cup (IF UsesIndex(q) /\ IsMoving(k) THEN {Gone} ELSE {})

\* What the replica that answers a request has, key by key.
IsView(q, view) ==
    /\ DOMAIN view = Keys
    /\ \A k \in Keys : view[k] \in MayShow(q, k)

At(view, k) == [key |-> k, ts |-> view[k].ts]

Before(q, x, y) ==
    IF UsesIndex(q) THEN x.ts < y.ts \/ (x.ts = y.ts /\ x.key < y.key)
    ELSE x.key < y.key

\* The positions a request may read: those of the key condition behind the start key.
Readable(q, view, start) ==
    {p \in {At(view, k) : k \in {j \in Keys : view[j] # Gone}} :
        InRange(q, view[p.key]) /\ (start # NoCursor => Before(q, start, p))}

\* The positions one request reads: the first ones, up to the limit, or fewer
\* when they come to 1 MB, but one at least.  The limit counts what is read, not
\* what passes the filter.
IsPage(q, readable, page) ==
    /\ page \subseteq readable /\ IsFiniteSet(page)
    /\ \A x \in page : \A y \in readable \ page : Before(q, x, y)
    /\ Cardinality(page) <= LimitOf(q)
    /\ readable # {} => page # {}

IsLast(q, page, x) == \A y \in page \ {x} : Before(q, y, x)

IsListed(q, v) == v # Gone /\ InRange(q, v) /\ Passes(q, v)

\* The keys a query would list whichever replica it read.
Certain(q) == {k \in Keys : \A v \in MayShow(q, k) : IsListed(q, v)}

\* Keys that go on matching.
Watch == steady' = steady \cap Certain(session.query)'

-----------------------------------------------------------------------------
(* The table changes, and the replicas follow.                             *)

\* The same row again would change nothing.
Write(k, v) ==
    /\ rows[k] # v
    /\ writes < MaxWrites
    /\ writes' = writes + 1
    /\ rows' = [rows EXCEPT ![k] = v]
    /\ old' = [old EXCEPT ![k] = Versions(k) \ {v}]
    /\ UNCHANGED session
    /\ Watch

\* ingest's PutItem; the timestamp of an event is the client's.
PutRow(k, row) == Write(k, row)

\* The TTL.
ExpireRow(k) == Write(k, Gone)

\* The last replica that showed v has got over it.
CatchUp(k, v) ==
    /\ old' = [old EXCEPT ![k] = @ \ {v}]
    /\ UNCHANGED <<rows, session, writes>>
    /\ Watch

-----------------------------------------------------------------------------
(* The client and the handler.                                             *)

Begin(q) ==
    /\ session.pc # "paging"
    /\ session' = [pc |-> "paging", query |-> q, cursor |-> NoCursor,
                    listed |-> {}, page |-> {}]
    /\ steady' = Certain(q)
    /\ UNCHANGED <<rows, old, writes>>

\* 400 for the limit, 500 for what DynamoDB refuses.
Refuse ==
    /\ session.pc = "paging"
    /\ ~IsLimit(session.query) \/ ~IsAccepted(session.query)
    /\ session' = [session EXCEPT !.pc = "refused"]
    /\ UNCHANGED <<rows, old, steady, writes>>

\* Bug: the cursor is not used.
StartKey_First == NoCursor

StartKey == session.cursor

\* Bug: the cursor is made of the last row listed, not of the last one read.
NextCursor_OfRows(q, view, page, last) ==
    LET listed == {p \in page : Passes(q, view[p.key])}
    IN  IF listed = {} THEN NoCursor ELSE CHOOSE x \in listed : IsLast(q, listed, x)

NextCursor(q, view, page, last) == last

\* A request that is answered; one that fails changes nothing, and the client
\* asks again with the cursor it has.  DynamoDB gives a LastEvaluatedKey when it
\* has met the limit or 1 MB, also when nothing follows (and then it may give
\* none).
Page(view, page) ==
    LET q        == session.query
        readable == Readable(q, view, StartKey)
        Answer(next) ==
            session' = [pc     |-> IF next = NoCursor THEN "done" ELSE "paging",
                        query  |-> q,
                        cursor |-> next,
                        listed |-> session.listed \cup session.page,
                        page   |-> {p \in page : Passes(q, view[p.key])}]
    IN  /\ session.pc = "paging"
        /\ IsLimit(q) /\ IsAccepted(q)
        /\ IsView(q, view)
        /\ IsPage(q, readable, page)
        /\ \/ page = readable /\ Answer(NoCursor)
           \/ \E last \in page :
                IsLast(q, page, last) /\ Answer(NextCursor(q, view, page, last))
        /\ UNCHANGED <<rows, old, steady, writes>>

NextPage ==
    /\ session.pc = "paging"
    /\ \E view \in [Keys -> UNION {MayShow(session.query, k) : k \in Keys}] :
        /\ IsView(session.query, view)
        /\ \E page \in SUBSET Readable(session.query, view, StartKey) : Page(view, page)

Next ==
    \/ \E k \in Keys :
         \/ \E row \in Row : PutRow(k, row)
         \/ ExpireRow(k)
         \/ \E v \in old[k] : CatchUp(k, v)
    \/ \E q \in Queries : Begin(q)
    \/ Refuse
    \/ NextPage

Spec == Init /\ [][Next]_vars

-----------------------------------------------------------------------------
Session == [pc: {"idle", "paging", "done", "refused"}, query: Queries,
            cursor: Position \cup {NoCursor}, listed: SUBSET Position, page: SUBSET Position]

(* Every variable has its type, and no page is larger than the maximum.    *)
TypeOK ==
    /\ rows \in [Keys -> Shown]
    /\ old \in [Keys -> SUBSET Shown]
    /\ session \in Session
    /\ Cardinality(session.page) <= MaxLimit
    /\ steady \subseteq Keys
    /\ writes \in 0 .. MaxWrites

(* "When it is empty the result set is exhausted" (QUERY.md:54-55): a      *)
(* client that followed the cursors to the end has been given every row    *)
(* that matched, in every replica, all the while, on whatever page it was, *)
(* whichever replicas answered, and whatever rows were put, moved or       *)
(* deleted around it, the one under the cursor included.                   *)
NothingMissed ==
    session.pc = "done" =>
        \A k \in steady : \E p \in session.listed \cup session.page : p.key = k

(* Every page lies behind all pages before it: a row is listed again only  *)
(* when it has been put again, later in the index than where it was.       *)
PagesAreInOrder ==
    \A x \in session.listed : \A y \in session.page : Before(session.query, x, y)

(* A client that follows the cursors gets on, also through pages that the  *)
(* filter leaves empty: every answer but the last has a cursor, and it     *)
(* lies behind the one before.                                             *)
CursorsAdvance ==
    [][session.pc = "paging" /\ session'.pc = "paging" =>
         /\ session'.cursor # NoCursor
         /\ session.cursor # NoCursor => Before(session.query, session.cursor, session'.cursor)]_session

(* The parameters of QUERY.md:23-31 may be combined: a query is refused    *)
(* only for a limit or a range that makes no sense.                        *)
EveryQueryIsAnswered ==
    session.pc = "refused" => ~IsLimit(session.query) \/ IsEmptyRange(session.query)
=============================================================================
