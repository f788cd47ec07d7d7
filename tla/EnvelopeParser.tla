--------------------------- MODULE EnvelopeParser ---------------------------
(***************************************************************************)
(* ParseEnvelope of src/lambda/ingest/envelope.go, one action per part of  *)
(* an envelope: its header line, an item header line, a payload.           *)
(*                                                                         *)
(* A payload with a `length` is copied out of the reader; one without is   *)
(* the slice that readLine returns, a window into the reader's buffer that *)
(* later reads write over.                                                 *)
(***************************************************************************)
EXTENDS EnvelopeGrammar, BufferedReader

CONSTANTS
    Bodies,            \* the bodies to parse
    MaxEnvelopeItems,  \* maxEnvelopeItems
    MaxItemBytes       \* maxItemBytes

ASSUME ParserAssumption ==
    /\ Bodies \subseteq Seq(Bytes)
    /\ MaxEnvelopeItems \in Nat
    /\ MaxItemBytes \in Nat

VARIABLES
    body,     \* the body being parsed
    reader,   \* br
    pc,       \* what is read next: "header", "item", "payload"; or "done", "failed"
    length,   \* `length` of the item header just read
    items     \* env.Items: payload, a copy or a slice, and its span in the body

vars == <<body, reader, pc, length, items>>

Init ==
    /\ body \in Bodies
    /\ reader = NewReader
    /\ pc = "header"
    /\ length = Implicit
    /\ items = << >>

\* readLine: the line as a window of the buffer, "eof" only when no byte was read.
Line ==
    LET s == ReadSlice(reader, body, Newline)
    IN  [kind   |-> CASE s.end = "full" -> "error"
                      [] s.end = "eof" /\ s.len = 0 -> "eof"
                      [] OTHER -> "line",
         at     |-> s.at,
         len    |-> s.len,
         reader |-> s.reader]

Contents(line) == [j \in 1 .. line.len |-> line.reader.buf[line.at + j - 1]]

IsHeaderLine(line) == line.kind = "line" /\ IsHeader(Contents(line))

Fail ==
    /\ pc' = "failed"
    /\ UNCHANGED <<body, reader, length, items>>

ReadEnvelopeHeader ==
    /\ pc = "header"
    /\ IsHeaderLine(Line)
    /\ pc' = "item"
    /\ reader' = Line.reader
    /\ UNCHANGED <<body, length, items>>

RejectEnvelopeHeader ==
    /\ pc = "header"
    /\ ~IsHeaderLine(Line)
    /\ Fail

\* The loop checks the number of items before it looks for another one.
TooManyItems == Len(items) >= MaxEnvelopeItems

ReadItemHeader ==
    /\ pc = "item"
    /\ ~TooManyItems
    /\ IsHeaderLine(Line)
    /\ pc' = "payload"
    /\ length' = LengthIn[Contents(Line)[1]]
    /\ reader' = Line.reader
    /\ UNCHANGED <<body, items>>

\* Bug: the optional empty line at the end is not allowed for.
AtEnd_NoBlankLine == Line.kind = "eof"

\* No more lines, or an empty line and no line after it.
AtEnd ==
    \/ Line.kind = "eof"
    \/ /\ Line.kind = "line" /\ Line.len = 0
       /\ LET next == ReadSlice(Line.reader, body, Newline)
          IN  next.end = "eof" /\ next.len = 0

Finish ==
    /\ pc = "item"
    /\ ~TooManyItems
    /\ AtEnd
    /\ pc' = "done"
    /\ UNCHANGED <<body, reader, length, items>>

RejectItemHeader ==
    /\ pc = "item"
    /\ TooManyItems \/ ~(IsHeaderLine(Line) \/ AtEnd)
    /\ Fail

\* A payload of n bytes is read from here.
Span(n) == [length |-> length, from |-> Consumed(reader) + 1, to |-> Consumed(reader) + n]

AddItem(payload, n) == items' = Append(items, [payload |-> payload, span |-> Span(n)])

\* make([]byte, n), io.ReadFull, and the byte after it.
Counted == length # Implicit /\ length >= 0 /\ length <= MaxItemBytes

AfterCounted == ReadByte(ReadFull(reader, body, length).reader, body)

\* Bug: the byte after the payload is skipped unseen.
IsCounted_AnyByteAfter == Counted /\ CanReadFull(reader, body, length)

IsCounted ==
    /\ Counted /\ CanReadFull(reader, body, length)
    /\ AfterCounted.some => AfterCounted.byte = Newline

\* Bug: the byte after the payload is skipped in the buffer, also when it is
\* not there yet.
ReadCountedPayload_Skips ==
    /\ pc = "payload"
    /\ IsCounted
    /\ AddItem([kind |-> "copy", bytes |-> ReadFull(reader, body, length).bytes], length)
    /\ reader' = [ReadFull(reader, body, length).reader EXCEPT !.r = @ + 1]
    /\ pc' = "item"
    /\ UNCHANGED <<body, length>>

\* Bug: the payload is a slice of the buffer when all of it is buffered.
ReadCountedPayload_Peeked ==
    /\ pc = "payload"
    /\ IsCounted
    /\ IF Buffered(reader) >= length
       THEN AddItem([kind |-> "slice", at |-> reader.r, len |-> length], length)
       ELSE AddItem([kind |-> "copy", bytes |-> ReadFull(reader, body, length).bytes], length)
    /\ reader' = AfterCounted.reader
    /\ pc' = "item"
    /\ UNCHANGED <<body, length>>

ReadCountedPayload ==
    /\ pc = "payload"
    /\ IsCounted
    /\ AddItem([kind |-> "copy", bytes |-> ReadFull(reader, body, length).bytes], length)
    /\ reader' = AfterCounted.reader
    /\ pc' = "item"
    /\ UNCHANGED <<body, length>>

\* No copy: the payload goes on living in the buffer.
ReadLinePayload ==
    /\ pc = "payload"
    /\ length = Implicit
    /\ Line.kind = "line" /\ Line.len <= MaxItemBytes
    /\ AddItem([kind |-> "slice", at |-> Line.at, len |-> Line.len], Line.len)
    /\ reader' = Line.reader
    /\ pc' = "item"
    /\ UNCHANGED <<body, length>>

RejectPayload ==
    /\ pc = "payload"
    /\ IF length = Implicit THEN ~(Line.kind = "line" /\ Line.len <= MaxItemBytes)
       ELSE ~IsCounted
    /\ Fail

Next ==
    \/ ReadEnvelopeHeader \/ RejectEnvelopeHeader
    \/ ReadItemHeader \/ RejectItemHeader \/ Finish
    \/ ReadCountedPayload \/ ReadLinePayload \/ RejectPayload

Spec == Init /\ [][Next]_vars

-----------------------------------------------------------------------------
\* A payload as persist will see it: the bytes it denotes now.
BytesOf(item) ==
    IF item.payload.kind = "copy" THEN item.payload.bytes
    ELSE [j \in 1 .. item.payload.len |-> reader.buf[item.payload.at + j - 1]]

Exact(item) == BytesOf(item) = SubSeq(body, item.span.from, item.span.to)

Spans == [i \in DOMAIN items |-> items[i].span]

Reader ==
    [buf: [0 .. BufferSize - 1 -> Bytes \cup {Blank}],
     r: 0 .. BufferSize, w: 0 .. BufferSize, taken: Nat]

\* What is buffered is what comes next in the input.
IsAhead(b, input) ==
    /\ b \in Reader
    /\ b.r <= b.w
    /\ b.taken \in Buffered(b) .. Len(input)
    /\ \A j \in b.r .. b.w - 1 : b.buf[j] = input[b.taken - (b.w - j) + 1]

(* Every variable has its type, and no refill of the buffer loses or       *)
(* repeats a byte.                                                         *)
TypeOK ==
    /\ body \in Seq(Bytes)
    /\ IsAhead(reader, body)
    /\ pc \in {"header", "item", "payload", "done", "failed"}
    /\ length \in Int \cup {Implicit}
    /\ Len(items) <= MaxEnvelopeItems

(* "The exact grammar ... never approximates" (envelope.go:75-84): a body  *)
(* that is accepted is split where the grammar splits it, wherever the     *)
(* buffer had to be refilled and whatever bytes a counted payload holds.   *)
FramingIsExact == pc = "done" => Spans \in Readings(body)

(* A payload with a `length` is, from the moment it is read until it is    *)
(* stored, exactly the bytes of the body it was announced as.              *)
CountedPayloadsAreExact ==
    \A i \in DOMAIN items : items[i].span.length # Implicit => Exact(items[i])

\* Payloads of a legal size: a counted one, and one that shares readLine's
\* limit with the header lines.
Small(r) ==
    \A i \in DOMAIN r :
        r[i].to - r[i].from + 1 <=
            IF r[i].length = Implicit THEN Min({BufferSize - 1, MaxItemBytes}) ELSE MaxItemBytes

\* The body ends where a payload without a `length` would start.
LacksPayload(r) == \E i \in DOMAIN r : r[i].length = Implicit /\ r[i].from > Len(body)

(* Nothing readable is lost: a rejected body is malformed, has a part that *)
(* is too large, or is one of two corner cases that the code refuses: as   *)
(* many items as the maximum, or no byte left where a payload without      *)
(* `length` would start.                                                   *)
RejectsOnlyUnreadable ==
    pc = "failed" =>
        \A r \in Readings(body) :
            ~Small(r) \/ LacksPayload(r) \/ Len(r) >= MaxEnvelopeItems

(* "Byte-exact reads" (ARCHITECTURE.md:60-61): every payload that persist  *)
(* stores is exactly the bytes of the body that the grammar assigns to it. *)
PayloadsAreExact ==
    pc = "done" => \A i \in DOMAIN items : Exact(items[i])
=============================================================================
