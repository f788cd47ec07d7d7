--------------------------- MODULE BufferedReader ---------------------------
(***************************************************************************)
(* The Go standard library's bufio.Reader over a bytes.Reader, as          *)
(* src/lambda/ingest/envelope.go uses it.  A reader is a record            *)
(*   buf    the buffer, positions 0 .. BufferSize - 1                      *)
(*   r, w   buf[r .. w - 1] is buffered and unread                         *)
(*   taken  bytes of the input already taken from the bytes.Reader         *)
(* A slice that ReadSlice returns is a window into buf; it "stops being    *)
(* valid at the next read" (documentation of bufio).                       *)
(***************************************************************************)
EXTENDS Integers, Sequences, FiniteSetsExt

CONSTANTS BufferSize, Blank   \* Blank: a byte of the fresh buffer

\* A line of one byte has to fit; bufio makes no buffer of less than 16.
ASSUME BufferAssumption == BufferSize \in Nat \ {0, 1}

NewReader == [buf |-> [j \in 0 .. BufferSize - 1 |-> Blank], r |-> 0, w |-> 0, taken |-> 0]

Buffered(b) == b.w - b.r

\* Bytes the program has consumed.
Consumed(b) == b.taken - Buffered(b)

\* Slide the unread bytes to the front, then read once.
Fill(b, input) ==
    LET kept == Buffered(b)
        n    == Min({BufferSize - kept, Len(input) - b.taken})
    IN  [buf   |-> [j \in 0 .. BufferSize - 1 |->
                      CASE j < kept -> b.buf[b.r + j]
                        [] j >= kept /\ j < kept + n -> input[b.taken + j - kept + 1]
                        [] OTHER -> b.buf[j]],
         r     |-> 0,
         w     |-> kept + n,
         taken |-> b.taken + n]

DelimitersIn(b, delim) == {j \in b.r .. b.w - 1 : b.buf[j] = delim}

\* The bytes up to the delimiter, as a window [at, len] without it; `end` says
\* what ended it: the delimiter, the end of the input, or a full buffer.
ReadSlice(b, input, delim) ==
    LET f  == IF DelimitersIn(b, delim) = {} /\ Buffered(b) < BufferSize
              THEN Fill(b, input) ELSE b
        ds == DelimitersIn(f, delim)
        to == IF ds = {} THEN f.w ELSE Min(ds)
    IN  [end    |-> IF ds # {} THEN "delim"
                    ELSE IF Buffered(f) = BufferSize THEN "full" ELSE "eof",
         at     |-> f.r,
         len    |-> to - f.r,
         reader |-> [f EXCEPT !.r = IF ds = {} THEN to ELSE to + 1]]

\* io.ReadFull of n bytes: buffered bytes first; then, of the rest, a large
\* read goes past the buffer and a small one through it, from its front.
CanReadFull(b, input, n) == n <= Len(input) - Consumed(b)

ReadFull(b, input, n) ==
    LET m == n - Buffered(b)
        k == Min({BufferSize, Len(input) - b.taken})
    IN  [bytes  |-> [j \in 1 .. n |-> IF j <= Buffered(b) THEN b.buf[b.r + j - 1]
                                      ELSE input[Consumed(b) + j]],
         reader |-> IF m <= 0 THEN [b EXCEPT !.r = @ + n]
                    ELSE IF m >= BufferSize
                    THEN [buf |-> b.buf, r |-> b.w, w |-> b.w, taken |-> b.taken + m]
                    ELSE [buf   |-> [j \in 0 .. BufferSize - 1 |->
                                       IF j < k THEN input[b.taken + j + 1] ELSE b.buf[j]],
                          r     |-> m,
                          w     |-> k,
                          taken |-> b.taken + k]]

\* The next byte: an empty buffer is filled first; at the end there is none.
ReadByte(b, input) ==
    LET f == IF Buffered(b) = 0 THEN Fill(b, input) ELSE b
    IN  IF Buffered(f) = 0 THEN [some |-> FALSE, byte |-> Blank, reader |-> f]
        ELSE [some |-> TRUE, byte |-> f.buf[f.r], reader |-> [f EXCEPT !.r = @ + 1]]
=============================================================================
