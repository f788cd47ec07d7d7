----------------------------- MODULE EventFeed -----------------------------
(***************************************************************************)
(* What the processor may assume of the ingest Lambda: the part of its     *)
(* writes that concerns the objects of event items and the rows of the     *)
(* events table, without requests, environments, calls and failures.       *)
(*                                                                         *)
(* Ingest implements this specification, and the processor's environment   *)
(* is made of its steps: what one promises is what the other relies on.    *)
(***************************************************************************)
EXTENDS Integers

CONSTANTS
    Paths,      \* the S3 keys of event items
    KeyOf(_),   \* path -> the key of the row that names it
    DayOf(_),   \* path -> the date in it
    Keys,       \* keys of the events table
    EventsOf,   \* key -> the payloads of the event items stored for it
    NewRow(_),  \* the row of an event item, from its path
    OtherRow,   \* a row of another item type
    MaxDay      \* bound: midnights

VARIABLES
    day,        \* the current UTC date
    objects,    \* S3: path -> payload
    rows        \* DynamoDB: key -> row

vars == <<day, objects, rows>>

\* PutObject and PutItem replace whatever was there.
Put(f, x, v) == [y \in DOMAIN f \cup {x} |-> IF y = x THEN v ELSE f[y]]

Init ==
    /\ day = 0
    /\ objects = << >>
    /\ rows = << >>

Midnight ==
    /\ day < MaxDay
    /\ day' = day + 1
    /\ UNCHANGED <<objects, rows>>

\* An event item is stored, perhaps again, under the date its request came in:
\* that may be an earlier one than today's.
Archive(p, v) ==
    /\ DayOf(p) <= day
    /\ v \in EventsOf[KeyOf(p)]
    /\ objects' = Put(objects, p, v)
    /\ UNCHANGED <<day, rows>>

\* The row of an event item is put only when its object is there; the whole row
\* is replaced.
PutRow(p) ==
    /\ p \in DOMAIN objects
    /\ rows' = Put(rows, KeyOf(p), NewRow(p))
    /\ UNCHANGED <<day, objects>>

\* So is it by an item of another type that has the same key: the first item of
\* a body with the same event id.
PutOther(k) ==
    /\ rows' = Put(rows, k, OtherRow)
    /\ UNCHANGED <<day, objects>>

Next ==
    \/ Midnight
    \/ \E p \in Paths : PutRow(p) \/ \E v \in EventsOf[KeyOf(p)] : Archive(p, v)
    \/ \E k \in Keys : PutOther(k)

Spec == Init /\ [][Next]_vars
=============================================================================
