--------------------------- MODULE IngestContract ---------------------------
(***************************************************************************)
(* What the ingest Lambda promises, without environments, calls, dates or  *)
(* failures (the contract of docs/ARCHITECTURE.md, "Ingest persistence     *)
(* semantics", and of the comment on persist in                            *)
(* src/lambda/ingest/main.go).                                             *)
(*                                                                         *)
(* A document is a body as its project and event id name it.  It is        *)
(* archived whole before any row of it is visible to a reader of the       *)
(* table, and a client is promised it (200) only once it is archived and,  *)
(* when it has items, one of its rows is visible.  Nothing is taken back.  *)
(***************************************************************************)
CONSTANTS
    Documents,     \* the documents of all projects
    RowKeys,       \* the keys of the events table
    DocumentOf(_), \* the document a row belongs to
    Promises       \* what a 200 can say: a document, and the rows of its items

VARIABLES
    archived,      \* documents whose raw body is in the archive
    indexed,       \* rows a reader of the table can see
    promised       \* the promises made

vars == <<archived, indexed, promised>>

Init ==
    /\ archived = {}
    /\ indexed = {}
    /\ promised = {}

Archive(d) ==
    /\ archived' = archived \cup {d}
    /\ UNCHANGED <<indexed, promised>>

Index(k) ==
    /\ DocumentOf(k) \in archived
    /\ indexed' = indexed \cup {k}
    /\ UNCHANGED <<archived, promised>>

Promise(p) ==
    /\ p.document \in archived
    /\ p.rows # {} => p.rows \cap indexed # {}
    /\ promised' = promised \cup {p}
    /\ UNCHANGED <<archived, indexed>>

Next ==
    \/ \E d \in Documents : Archive(d)
    \/ \E k \in RowKeys : Index(k)
    \/ \E p \in Promises : Promise(p)

Spec == Init /\ [][Next]_vars
=============================================================================
