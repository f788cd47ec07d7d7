--------------------------- MODULE IssueContract ---------------------------
(***************************************************************************)
(* What a reader of the events table may rely on about status and issue_id *)
(* (docs/AI.md, "How it works"), without runs, scans, objects or failures. *)
(*                                                                         *)
(* A row comes as received and without issue.  It gets an issue of one of  *)
(* its own events, together with the status, once: the issue never changes *)
(* and is never lost but by a new put of the row, or with the row.  A key  *)
(* without row may get one that has nothing but an issue.                  *)
(***************************************************************************)
CONSTANTS
    Keys,          \* keys of the events table
    IssuesFor(_),  \* the issues of the events that are stored for a key
    NoIssue        \* no issue_id attribute

VARIABLE
    table          \* key -> status and issue of its row

Put(k, row) == table' = [j \in DOMAIN table \cup {k} |-> IF j = k THEN row ELSE table[j]]

Waiting == [status |-> "received", issue |-> NoIssue]

Grouped(issue) == [status |-> "grouped", issue |-> issue]

Init == table = << >>

Receive(k) == Put(k, Waiting)

Group(k, issue) ==
    /\ k \in DOMAIN table => table[k] = Waiting
    /\ Put(k, Grouped(issue))

Expire(k) == table' = [j \in DOMAIN table \ {k} |-> table[j]]

Next ==
    \E k \in Keys :
        \/ Receive(k)
        \/ \E issue \in IssuesFor(k) : Group(k, issue)
        \/ Expire(k)

Spec == Init /\ [][Next]_table
=============================================================================
