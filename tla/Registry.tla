------------------------------ MODULE Registry ------------------------------
(***************************************************************************)
(* The projects table: the register command of src/scripts/register that   *)
(* writes it, and the eventually consistent GetItem with which ingest and  *)
(* the query API read it.                                                  *)
(*                                                                         *)
(* A project has one row; `table` keeps every row it has had, so that a    *)
(* read can return an old one.  Reads are answered by replicas, each of    *)
(* which may lag: between `settled` and the newest, any row may come back, *)
(* and a later read may return an older one.                               *)
(*                                                                         *)
(* Nothing in the repository disables a project; the code honours a        *)
(* `status` that somebody set in the table.                                *)
(***************************************************************************)
EXTENDS Integers, Sequences, FiniteSets

CONSTANTS
    Projects,   \* project ids
    Keys,       \* public keys that may be minted; bounds the registrations
    Operators,  \* people who may run the command at the same time
    NoKey       \* no key

VARIABLES
    table,      \* project -> the rows it has had, the current one last
    settled,    \* project -> the row that every replica has; 0 is none
    cli,        \* operator -> the row the running command is about to put
    late        \* puts that were reported as failed and will still take effect

vars == <<table, settled, cli, late>>

Row == [key: Keys, status: {"active", "disabled"}]

\* What the command puts, and the DSN it prints.
Registration == [key: Keys, project: Projects]

Active(k) == [key |-> k, status |-> "active"]

\* An operator who is not running the command.
Resting == [key |-> NoKey, project |-> CHOOSE p \in Projects : TRUE]

Init ==
    /\ table = [p \in Projects |-> << >>]
    /\ settled = [p \in Projects |-> 0]
    /\ cli = [o \in Operators |-> Resting]
    /\ late = {}

-----------------------------------------------------------------------------
(* The register command.                                                   *)

\* The keys that project p has, had, or is about to have.
KeysOf(p) ==
    UNION {{table[p][v].key : v \in DOMAIN table[p]},
           {k \in Keys : [key |-> k, project |-> p] \in late},
           {k \in Keys : \E o \in Operators : cli[o] = [key |-> k, project |-> p]}}

\* 16 random bytes are the key of no project; a key whose put was lost was
\* never seen by anyone and may be taken for a new one.
Mint(o, p, k) ==
    /\ cli[o] = Resting
    /\ \A r \in Projects : k \notin KeysOf(r)
    /\ cli' = [cli EXCEPT ![o] = [key |-> k, project |-> p]]
    /\ UNCHANGED <<table, settled, late>>

\* PutItem has no condition: it replaces the key and the status of a project
\* that exists.
Put(p, row) == table' = [table EXCEPT ![p] = Append(table[p], row)]

\* The DSN is printed.
PutProject(o) ==
    /\ cli[o] # Resting
    /\ Put(cli[o].project, Active(cli[o].key))
    /\ cli' = [cli EXCEPT ![o] = Resting]
    /\ UNCHANGED <<settled, late>>

\* log.Fatalf: nothing is printed, but after a timeout (30 s) the put may
\* still take effect.
PutProjectFails(o) ==
    /\ cli[o] # Resting
    /\ late' \in {late, late \cup {cli[o]}}
    /\ cli' = [cli EXCEPT ![o] = Resting]
    /\ UNCHANGED <<table, settled>>

-----------------------------------------------------------------------------
(* The table.                                                              *)

Deliver(d) ==
    /\ d \in late
    /\ late' = late \ {d}
    /\ Put(d.project, Active(d.key))
    /\ UNCHANGED <<settled, cli>>

Current(p) == table[p][Len(table[p])]

Disable(p) ==
    /\ table[p] # << >>
    /\ Current(p).status = "active"
    /\ Put(p, [key |-> Current(p).key, status |-> "disabled"])
    /\ UNCHANGED <<settled, cli, late>>

\* The last replica that lacked it gets the next row.
Settle(p) ==
    /\ settled[p] < Len(table[p])
    /\ settled' = [settled EXCEPT ![p] = settled[p] + 1]
    /\ UNCHANGED <<table, cli, late>>

Next ==
    \/ \E o \in Operators :
         \/ \E p \in Projects, k \in Keys : Mint(o, p, k)
         \/ PutProject(o)
         \/ PutProjectFails(o)
    \/ \E d \in Registration : Deliver(d)
    \/ \E p \in Projects : Disable(p) \/ Settle(p)

Spec == Init /\ [][Next]_vars

-----------------------------------------------------------------------------
(* A read.                                                                 *)

\* Bug: a row that was read once is kept and used for ever.
MayRead_Cached(p) == 0 .. Len(table[p])

\* The rows that a read may return: nothing older than what every replica has.
MayRead(p) == settled[p] .. Len(table[p])

\* ValidateKey, for a read that returns row v: no row, another key, or a
\* status other than active is a refusal.
IsValid(p, k, v) ==
    /\ v # 0
    /\ table[p][v].key = k
    /\ table[p][v].status = "active"

-----------------------------------------------------------------------------
\* Project p is, or was, registered with key k.
Registered(p, k) == \E v \in DOMAIN table[p] : table[p][v] = Active(k)

(* Every variable has its type, and no replica is ahead of the table.      *)
TypeOK ==
    /\ table \in [Projects -> Seq(Row)]
    /\ settled \in [Projects -> Nat]
    /\ \A p \in Projects : settled[p] <= Len(table[p])
    /\ cli \in [Operators -> Registration \cup {Resting}]
    /\ late \subseteq Registration
=============================================================================
