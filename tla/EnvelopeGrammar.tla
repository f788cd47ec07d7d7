-------------------------- MODULE EnvelopeGrammar --------------------------
(***************************************************************************)
(* The envelope grammar of src/docs/COMPATIBILITY.md, section 4, as a      *)
(* definition that knows no buffers and no limits:                         *)
(*                                                                         *)
(*     Envelope = Headers { "\n" Item } [ "\n" ]                           *)
(*     Item     = Headers "\n" Payload                                     *)
(*                                                                         *)
(* The optional last newline is read as in envelope.go:116: an empty line  *)
(* after the newline that ends the last payload.                           *)
(*                                                                         *)
(* A header line is JSON iff it is one of a few bytes that stand for a     *)
(* whole JSON object; the byte determines the `length` of an item header.  *)
(***************************************************************************)
EXTENDS Integers, Sequences, FiniteSetsExt

CONSTANTS
    Bytes,      \* the alphabet
    Newline,    \* ASCII 10
    LengthIn,   \* header byte -> its `length`, or Implicit
    Implicit    \* no `length`: the payload is one line

ASSUME GrammarAssumption ==
    /\ Newline \in Bytes
    /\ DOMAIN LengthIn \subseteq Bytes \ {Newline}
    /\ \A h \in DOMAIN LengthIn : LengthIn[h] \in Int \cup {Implicit}

\* The position of the newline, or of the end of b, that ends the line at i.
LineEnd(b, i) == Min({j \in i .. Len(b) : b[j] = Newline} \cup {Len(b) + 1})

IsHeader(line) == Len(line) = 1 /\ line[1] \in DOMAIN LengthIn

\* The payload of the item whose header line is b[i .. e - 1].
Payload(b, i, e) ==
    LET from   == Min({e, Len(b)}) + 1
        length == LengthIn[b[i]]
    IN  [length |-> length,
         from   |-> from,
         to     |-> IF length = Implicit THEN LineEnd(b, from) - 1 ELSE from + length - 1]

\* It is complete, and a newline or the end follows.
IsPayload(b, p) ==
    /\ p.from - 1 <= p.to /\ p.to <= Len(b)
    /\ p.to < Len(b) => b[p.to + 1] = Newline

\* The item sequences that b[i ..] can be read as, given those of the later
\* positions: one, or none when it is malformed.  One empty line may end the
\* envelope.
ItemsFrom(b, i, later) ==
    LET e == LineEnd(b, i)
        p == Payload(b, i, e)
    IN  IF i > Len(b) \/ (i = Len(b) /\ b[i] = Newline) THEN {<< >>}
        ELSE IF IsHeader(SubSeq(b, i, e - 1)) /\ IsPayload(b, p)
             THEN {<<p>> \o rest : rest \in later[p.to + 2]}
        ELSE {}

ItemsAt(b) ==
    LET items[i \in 1 .. Len(b) + 2] == ItemsFrom(b, i, items)
    IN  items

\* The readings of a body: the payloads of its items, as positions.
Readings(b) ==
    LET e == LineEnd(b, 1)
    IN  IF IsHeader(SubSeq(b, 1, e - 1)) THEN ItemsAt(b)[Min({e, Len(b)}) + 1] ELSE {}
=============================================================================
