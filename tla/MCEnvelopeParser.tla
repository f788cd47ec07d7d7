-------------------------- MODULE MCEnvelopeParser --------------------------
(***************************************************************************)
(* Small instances of EnvelopeParser for TLC.  Every byte but the newline  *)
(* stands for a JSON header line, and for itself inside a payload:         *)
(*   h                    a header without length                          *)
(*   k0, k1, k2, k4, k5   a header with that length; km a negative length  *)
(***************************************************************************)
EXTENDS EnvelopeParser, SequencesExt, TLC

CONSTANTS nl, h, k0, k1, k2, k4, k5, km, none

MCBytes == {nl, h, k0, k1, k2, k4, k5, km}

MCLengthIn == h :> none @@ k0 :> 0 @@ k1 :> 1 @@ k2 :> 2 @@ k4 :> 4 @@ k5 :> 5 @@ km :> -1

\* Every short body; after an envelope header, every short rest over all
\* letters, every longer one over the letters that parse, and those long enough
\* for the maximum number of items and an empty line.
MCBodies ==
    BoundedSeq(MCBytes, 3)
      \cup {<<h, nl>> \o s : s \in BoundedSeq(MCBytes, 4)
                                    \cup BoundedSeq({nl, h, k1, k4}, 8)
                                    \cup BoundedSeq({nl, h}, 10)}

\* Bodies long enough for two payloads without length, the last one unended.
LongBodies == {<<h, nl, h, nl>> \o s : s \in BoundedSeq({nl, h, k4}, 9)}
=============================================================================
