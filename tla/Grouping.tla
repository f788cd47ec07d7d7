------------------------------ MODULE Grouping ------------------------------
(***************************************************************************)
(* The processor with the issue ids it computes: Processor, whose issues   *)
(* are any, composed with IssueId.                                         *)
(***************************************************************************)
EXTENDS Processor, IssueId

CONSTANT Content  \* payload that parses -> the event in it

ASSUME GroupingAssumption ==
    /\ Content \in [Parses -> Event]
    /\ \A v \in Parses : Fingerprint[v] = ComputeIssueId(Content[v])
    /\ EmptyIssue = ComputeIssueId(EmptyEvent)
=============================================================================
