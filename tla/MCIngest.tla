------------------------------ MODULE MCIngest ------------------------------
(***************************************************************************)
(* Small instances of Ingest for TLC: five bodies in one project.          *)
(*   mixed   an event with its id, after an item whose type is "event"     *)
(*           only once its spaces are trimmed and whose id does not count  *)
(*   noid    two attachments and no event id: two items of the same type   *)
(*           under the digest of the body                                  *)
(*   plain   one JSON event: an envelope header without items, or the      *)
(*           payload of the store route                                    *)
(*   again   an event with the id that `plain` has on the store route      *)
(*   behind  an event with that id too, but behind an item of another type *)
(***************************************************************************)
EXTENDS Ingest, TLC

CONSTANTS p1, mixed, noid, plain, again, behind, id1, id2, sha1, sha2, sha3, sha4, sha5, none

MCProjects == {p1}
MCBodies == {mixed, noid, plain, again, behind}
MCEventIds == {id1, id2, sha1, sha2, sha3, sha4, sha5}

MCDeterministicId ==
    mixed :> sha1 @@ noid :> sha2 @@ plain :> sha3 @@ again :> sha4 @@ behind :> sha5

MCEnvelopeItems ==
    mixed :> << [type |-> " event", id |-> id2], [type |-> "event", id |-> id1] >> @@
    noid  :> << [type |-> "", id |-> none], [type |-> "", id |-> none] >> @@
    plain :> << >> @@
    again :> << [type |-> "event", id |-> id2] >> @@
    behind :> << [type |-> "session", id |-> none], [type |-> "event", id |-> id2] >>

MCStoreEventId ==
    plain :> id2 @@ [b \in MCBodies |-> none]

Envelope(b) == [project |-> p1, route |-> "envelope", body |-> b]
Store(b) == [project |-> p1, route |-> "store", body |-> b]

\* Two bodies, each with an id of its own.
UnsharedRequests == {Envelope(mixed), Envelope(noid)}

\* A body without an id of its own.
DerivedRequests == {Envelope(noid)}

\* Beside the two, three bodies that share an event id, one of them on both routes.
MCRequests ==
    UnsharedRequests \cup {Envelope(again), Envelope(behind), Envelope(plain), Store(plain)}

\* Environments are interchangeable.
Symmetry == Permutations(Envs)
=============================================================================
