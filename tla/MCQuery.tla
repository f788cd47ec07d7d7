------------------------------ MODULE MCQuery ------------------------------
(***************************************************************************)
(* A small instance of Query for TLC.                                      *)
(***************************************************************************)
EXTENDS Query

Ask(from, to, type, level, limit) ==
    [from |-> from, to |-> to, type |-> type, level |-> level, limit |-> limit]

\* The table and the index, with pages smaller than what matches, filters that
\* leave pages empty, a limit above the maximum; and one query to refuse.
PageQueries ==
    {Ask(None, None, None, None, 3),
     Ask(None, 1, All, "error", None), Ask(1, 2, None, "error", 1),
     Ask(1, None, All, None, 0)}

\* Beside them, the other queries to refuse.
MCQueries ==
    PageQueries \cup
    {Ask(1, None, All, None, 1), Ask(2, 1, None, None, 1), Ask(None, None, None, None, 0)}
=============================================================================
