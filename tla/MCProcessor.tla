---------------------------- MODULE MCProcessor ----------------------------
(***************************************************************************)
(* Small instances of Processor for TLC: an event, and a payload that is   *)
(* not JSON.                                                               *)
(***************************************************************************)
EXTENDS Grouping, TLC

CONSTANTS k1, k2, crash, junk

MCEvents == {crash, junk}
MCParses == {crash}

MCWords == {" ", "|", "no-exception", "A", "a"}

MCContent ==
    crash :> [platform |-> <<"a">>, message |-> << >>, exceptions |->
                <<[type |-> <<"a">>, value |-> << >>,
                   frames |-> <<[file |-> <<"a">>, function |-> <<"a">>, line |-> 1]>>]>>]

MCEmptyIssue == ComputeIssueId(EmptyEvent)

MCFingerprint ==
    [v \in MCEvents |-> IF v = junk THEN MCEmptyIssue ELSE ComputeIssueId(MCContent[v])]

\* A key with one event, and one whose event does not parse.
OneEventEach == k1 :> {crash} @@ k2 :> {junk}

\* Two bodies with the event id of k1, one of which does not parse.
SharedKey == k1 :> {crash, junk} @@ k2 :> {junk}

Symmetry == Permutations(Runs)
=============================================================================
