---------------------------- MODULE ParserProofs ----------------------------
(***************************************************************************)
(* Machine-checked proofs about EnvelopeParser and the reader it uses, for *)
(* every alphabet, body, buffer size and limit.                            *)
(***************************************************************************)
EXTENDS EnvelopeParser, PositionProofs, SequenceTheorems

-----------------------------------------------------------------------------
(* The reader.                                                             *)

\* Which of two it is.
LEMMA MinOfTwo ==
    ASSUME NEW m \in Int, NEW n \in Int
    PROVE  Min({m, n}) = IF m <= n THEN m ELSE n
<1>1. \E x \in {m, n} : \A y \in {m, n} : x =< y
  OBVIOUS
<1>2. Min({m, n}) \in {m, n} /\ \A y \in {m, n} : Min({m, n}) =< y
  BY <1>1 DEF Min
<1> QED
  BY <1>2

\* What IsAhead says of the fields of a reader.
LEMMA AheadFacts ==
    ASSUME NEW input \in Seq(Bytes), NEW b, IsAhead(b, input)
    PROVE  /\ b.r \in Nat /\ b.w \in Nat /\ b.taken \in Nat /\ b.r <= b.w /\ b.w <= BufferSize
           /\ b.buf \in [0 .. BufferSize - 1 -> Bytes \cup {Blank}]
           /\ b = [buf |-> b.buf, r |-> b.r, w |-> b.w, taken |-> b.taken]
           /\ Buffered(b) = b.w - b.r /\ Buffered(b) \in 0 .. BufferSize
           /\ b.taken <= Len(input) /\ Len(input) \in Nat
           /\ Consumed(b) = b.taken - (b.w - b.r) /\ Consumed(b) \in 0 .. Len(input)
           /\ \A j \in b.r .. b.w - 1 : b.buf[j] = input[Consumed(b) + (j - b.r) + 1]
BY BufferAssumption DEF IsAhead, Reader, Buffered, Consumed

\* A refill loses nothing, and leaves room only at the end of the input.
LEMMA FillIsAhead ==
    ASSUME NEW input \in Seq(Bytes), NEW b, IsAhead(b, input)
    PROVE  LET f == Fill(b, input)
           IN  /\ IsAhead(f, input)
               /\ Consumed(f) = Consumed(b)
               /\ Buffered(f) < BufferSize => f.taken = Len(input)
<1> DEFINE kept == Buffered(b)
           n    == Min({BufferSize - kept, Len(input) - b.taken})
           f    == Fill(b, input)
<1>0. /\ b.r \in Nat /\ b.w \in Nat /\ b.taken \in Nat /\ b.r <= b.w /\ b.w <= BufferSize
      /\ b.buf \in [0 .. BufferSize - 1 -> Bytes \cup {Blank}]
      /\ kept = b.w - b.r /\ kept \in 0 .. BufferSize
      /\ b.taken <= Len(input) /\ Len(input) \in Nat
      /\ Consumed(b) = b.taken - kept /\ Consumed(b) \in 0 .. Len(input)
      /\ \A j \in b.r .. b.w - 1 : b.buf[j] = input[Consumed(b) + (j - b.r) + 1]
  BY AheadFacts
<1>1. n = IF BufferSize - kept <= Len(input) - b.taken THEN BufferSize - kept ELSE Len(input) - b.taken
  <2> DEFINE x == BufferSize - kept
             y == Len(input) - b.taken
  <2>1. x \in Int /\ y \in Int
    BY <1>0, BufferAssumption
  <2> HIDE DEF x, y
  <2>2. Min({x, y}) = IF x <= y THEN x ELSE y
    BY <2>1, MinOfTwo
  <2> QED
    BY <2>2 DEF x, y
<1> HIDE DEF kept, n
<1>2. n \in Nat /\ kept \in Nat /\ kept + n <= BufferSize /\ b.taken + n <= Len(input)
      /\ (kept + n < BufferSize => b.taken + n = Len(input))
  <2>1. /\ kept \in Nat /\ kept <= BufferSize /\ BufferSize \in Nat
        /\ b.taken \in Nat /\ Len(input) \in Nat /\ b.taken <= Len(input)
    BY <1>0, BufferAssumption
  <2> QED
    BY <1>1, <2>1
<1>3. f = [buf   |-> [j \in 0 .. BufferSize - 1 |->
                      CASE j < kept -> b.buf[b.r + j]
                        [] j >= kept /\ j < kept + n -> input[b.taken + j - kept + 1]
                        [] OTHER -> b.buf[j]],
           r     |-> 0,
           w     |-> kept + n,
           taken |-> b.taken + n]
  BY DEF Fill, n, kept
<1> HIDE DEF f
<1>4. f.r = 0 /\ f.w = kept + n /\ f.taken = b.taken + n /\ f.r \in 0 .. BufferSize /\ f.w \in 0 .. BufferSize
      /\ f.taken \in Nat
  BY <1>2, <1>3, <1>0, BufferAssumption, SMTT(30)
<1>5. \A j \in 0 .. BufferSize - 1 :
        /\ j < kept => f.buf[j] = b.buf[b.r + j]
        /\ ~(j < kept) /\ j < kept + n => f.buf[j] = input[b.taken + j - kept + 1]
        /\ ~(j < kept) /\ ~(j < kept + n) => f.buf[j] = b.buf[j]
  BY <1>2, <1>3
<1>6. ASSUME NEW j \in 0 .. BufferSize - 1
      PROVE  f.buf[j] \in Bytes \cup {Blank}
  <2>1. CASE j < kept
    <3>1. b.r + j \in 0 .. BufferSize - 1
      BY <2>1, <1>0, BufferAssumption
    <3>2. f.buf[j] = b.buf[b.r + j]
      BY <2>1, <1>5
    <3>3. b.buf \in [0 .. BufferSize - 1 -> Bytes \cup {Blank}]
      BY <1>0
    <3> QED
      BY <3>1, <3>2, <3>3
  <2>2. CASE ~(j < kept) /\ j < kept + n
    <3>1. b.taken + j - kept + 1 \in 1 .. Len(input)
      BY <1>2, <2>2, <1>0, SMTT(30)
    <3>2. f.buf[j] = input[b.taken + j - kept + 1]
      BY <1>2, <1>5, <2>2
    <3> QED
      BY <3>1, <3>2
  <2>3. CASE ~(j < kept) /\ ~(j < kept + n)
    BY <1>5, <2>3, <1>0
  <2> QED
    BY <2>1, <2>2, <2>3
<1>7. f \in Reader
  <2>1. f.buf \in [0 .. BufferSize - 1 -> Bytes \cup {Blank}]
    BY <1>3, <1>6
  <2> QED
    BY <1>3, <1>4, <2>1 DEF Reader
<1>8. Buffered(f) = kept + n /\ Consumed(f) = b.taken - kept
  BY <1>2, <1>4, <1>0, SMTT(30) DEF Buffered, Consumed
<1>9. ASSUME NEW j \in f.r .. f.w - 1
      PROVE  f.buf[j] = input[f.taken - (f.w - j) + 1]
  <2>1. j \in 0 .. BufferSize - 1 /\ j < kept + n /\ f.taken - (f.w - j) + 1 = b.taken - kept + j + 1
    <3>1. j \in 0 .. (kept + n) - 1 /\ BufferSize \in Nat /\ b.taken \in Nat
      BY <1>0, <1>4, BufferAssumption
    <3>2. j \in 0 .. BufferSize - 1 /\ j < kept + n
      BY <1>2, <3>1
    <3>3. f.w = kept + n /\ f.taken = b.taken + n
      BY <1>4
    <3>4. (b.taken + n) - ((kept + n) - j) + 1 = b.taken - kept + j + 1
      BY <1>2, <3>1
    <3> QED
      BY <3>2, <3>3, <3>4
  <2>2. CASE j < kept
    <3>1. f.buf[j] = b.buf[b.r + j]
      BY <1>5, <2>1, <2>2
    <3>2. b.r + j \in b.r .. b.w - 1 /\ Consumed(b) + ((b.r + j) - b.r) + 1 = b.taken - kept + j + 1
      <4>1. /\ j \in Nat /\ b.r \in Nat /\ b.w \in Nat /\ b.taken \in Nat /\ kept \in Int
            /\ kept = b.w - b.r /\ Consumed(b) = b.taken - kept
        BY <1>0, <2>1
      <4>2. b.r + j \in b.r .. b.w - 1
        BY <2>2, <4>1
      <4>3. (b.taken - kept) + ((b.r + j) - b.r) + 1 = b.taken - kept + j + 1
        BY <4>1
      <4> QED
        BY <4>1, <4>2, <4>3
    <3> QED
      BY <2>1, <3>1, <3>2, <1>0
  <2>3. CASE ~(j < kept)
    <3>1. f.buf[j] = input[b.taken + j - kept + 1]
      BY <1>2, <1>5, <2>1, <2>3
    <3>2. b.taken + j - kept + 1 = b.taken - kept + j + 1
      BY <1>2, <2>1, <1>0
    <3> QED
      BY <2>1, <3>1, <3>2
  <2> QED
    BY <2>2, <2>3
<1>10. f.taken \in Buffered(f) .. Len(input) /\ f.r <= f.w
  BY <1>2, <1>4, <1>8, <1>0
<1>11. IsAhead(f, input)
  BY <1>7, <1>9, <1>10 DEF IsAhead
<1>12. Consumed(f) = Consumed(b) /\ (Buffered(f) < BufferSize => f.taken = Len(input))
  BY <1>2, <1>4, <1>8, <1>0
<1> QED
  BY <1>11, <1>12 DEF f

\* What the end of a line is, and that nothing else is.
LEMMA LineEndIs ==
    ASSUME NEW input \in Seq(Bytes), NEW i \in 1 .. Len(input) + 1
    PROVE  /\ LineEnd(input, i) \in i .. Len(input) + 1
           /\ \A j \in i .. LineEnd(input, i) - 1 : input[j] # Newline
           /\ LineEnd(input, i) <= Len(input) => input[LineEnd(input, i)] = Newline
<1> DEFINE S == {j \in i .. Len(input) : input[j] = Newline} \cup {Len(input) + 1}
           e == LineEnd(input, i)
<1>1. Len(input) \in Nat
  OBVIOUS
<1>2. S \in SUBSET Nat /\ S # {}
  BY <1>1
<1>3. e \in S /\ \A x \in S : e <= x
  BY <1>2, MinOfPositions DEF LineEnd
<1> HIDE DEF e
<1>4. e \in i .. Len(input) + 1 /\ (e <= Len(input) => input[e] = Newline)
  BY <1>1, <1>3
<1>5. \A j \in i .. e - 1 : input[j] # Newline
  BY <1>1, <1>3, <1>4
<1> QED
  BY <1>4, <1>5 DEF e

\* The first newline from i on, or the end: there is one such position.
LEMMA LineEndOnly ==
    ASSUME NEW input \in Seq(Bytes), NEW i \in 1 .. Len(input) + 1, NEW e \in i .. Len(input) + 1,
           \A j \in i .. e - 1 : input[j] # Newline,
           e <= Len(input) => input[e] = Newline
    PROVE  e = LineEnd(input, i)
<1> DEFINE d == LineEnd(input, i)
<1>1. /\ d \in i .. Len(input) + 1
      /\ \A j \in i .. d - 1 : input[j] # Newline
      /\ d <= Len(input) => input[d] = Newline
  BY LineEndIs
<1> HIDE DEF d
<1>2. Len(input) \in Nat
  OBVIOUS
<1>3. ~(e < d)
  BY <1>1, <1>2
<1>4. ~(d < e)
  BY <1>1, <1>2
<1>5. e = d
  BY <1>1, <1>2, <1>3, <1>4
<1> QED
  BY <1>5 DEF d

\* A slice s that ReadSlice cuts from b: the line at the next position, as far
\* as the buffer holds it.
IsLineOf(s, b, input) ==
    LET pos == Consumed(b) + 1
        e   == LineEnd(input, pos)
    IN  /\ IsAhead(s.reader, input)
        /\ s.at \in Nat /\ s.len \in Nat /\ s.end \in {"delim", "eof", "full"}
        /\ \A j \in 1 .. s.len : s.reader.buf[s.at + j - 1] = input[Consumed(b) + j]
        /\ s.end = "delim" => e <= Len(input) /\ s.len = e - pos /\ Consumed(s.reader) = e
        /\ s.end = "eof" => e = Len(input) + 1 /\ s.len = e - pos /\ Consumed(s.reader) = Len(input)
        /\ s.end = "full" => e - pos >= BufferSize

\* Reading on in the buffer.
LEMMA AdvanceIsAhead ==
    ASSUME NEW input \in Seq(Bytes), NEW b, IsAhead(b, input), NEW r \in b.r .. b.w
    PROVE  LET c == [b EXCEPT !.r = r]
           IN  /\ IsAhead(c, input)
               /\ c.buf = b.buf /\ c.r = r /\ c.w = b.w /\ c.taken = b.taken
               /\ Consumed(c) = Consumed(b) + (r - b.r)
<1> DEFINE c == [b EXCEPT !.r = r]
<1>0. /\ b.r \in Nat /\ b.w \in Nat /\ b.taken \in Nat /\ b.r <= b.w /\ b.w <= BufferSize
      /\ b.taken <= Len(input) /\ Len(input) \in Nat
      /\ b.w - b.r <= b.taken /\ Consumed(b) = b.taken - (b.w - b.r)
  BY AheadFacts DEF IsAhead
<1>1. b \in Reader
  BY DEF IsAhead
<1>2. r \in 0 .. BufferSize /\ r \in Nat /\ r <= b.w /\ b.r <= r
  BY <1>0, BufferAssumption
<1>3. c \in Reader /\ c.buf = b.buf /\ c.r = r /\ c.w = b.w /\ c.taken = b.taken
  BY <1>1, <1>2 DEF Reader
<1> HIDE DEF c
<1>4. Buffered(c) = b.w - r /\ Consumed(c) = b.taken - (b.w - r)
  BY <1>3 DEF Buffered, Consumed
<1>5. Consumed(c) = Consumed(b) + (r - b.r)
  BY <1>0, <1>2, <1>4
<1>6. c.taken \in Buffered(c) .. Len(input)
  BY <1>0, <1>2, <1>3, <1>4
<1>7. \A j \in c.r .. c.w - 1 : c.buf[j] = input[c.taken - (c.w - j) + 1]
  <2> SUFFICES ASSUME NEW j \in r .. b.w - 1 PROVE b.buf[j] = input[b.taken - (b.w - j) + 1]
    BY <1>3
  <2>1. j \in b.r .. b.w - 1
    BY <1>0, <1>2
  <2> QED
    BY <2>1 DEF IsAhead
<1>8. IsAhead(c, input)
  BY <1>2, <1>3, <1>6, <1>7 DEF IsAhead
<1> QED
  BY <1>3, <1>5, <1>8 DEF c

\* Delimiters in the buffer and in the input.
LEMMA DelimiterFacts ==
    ASSUME NEW input \in Seq(Bytes), NEW f, IsAhead(f, input)
    PROVE  LET ds == DelimitersIn(f, Newline)
           IN  /\ \A k \in Consumed(f) + 1 .. f.taken :
                    input[k] = Newline => f.r + (k - Consumed(f)) - 1 \in ds
               /\ ds # {} => /\ Min(ds) \in f.r .. f.w - 1
                             /\ input[Consumed(f) + (Min(ds) - f.r) + 1] = Newline
                             /\ \A j \in ds : Min(ds) <= j
<1> DEFINE ds == DelimitersIn(f, Newline)
           C == Consumed(f)
<1>0. /\ f.r \in Nat /\ f.w \in Nat /\ f.taken \in Nat /\ f.r <= f.w
      /\ C = f.taken - (f.w - f.r) /\ C \in Nat
  BY AheadFacts
<1>1. \A j \in f.r .. f.w - 1 : f.buf[j] = input[C + (j - f.r) + 1]
  BY AheadFacts
<1>2. ds = {j \in f.r .. f.w - 1 : f.buf[j] = Newline}
  BY DEF DelimitersIn
<1> HIDE DEF C, ds
<1>3. ASSUME NEW k \in C + 1 .. f.taken, input[k] = Newline
      PROVE  f.r + (k - C) - 1 \in ds
  <2> DEFINE j == f.r + (k - C) - 1
  <2>1. j \in f.r .. f.w - 1 /\ C + (j - f.r) + 1 = k
    BY <1>0, SMTT(30)
  <2> HIDE DEF j
  <2>2. j \in ds
    BY <1>1, <1>2, <1>3, <2>1
  <2> QED
    BY <2>2 DEF j
<1>4. ASSUME ds # {}
      PROVE  /\ Min(ds) \in f.r .. f.w - 1
             /\ input[C + (Min(ds) - f.r) + 1] = Newline
             /\ \A j \in ds : Min(ds) <= j
  <2>1. ds \in SUBSET Nat
    BY <1>0, <1>2
  <2>2. Min(ds) \in ds /\ \A j \in ds : Min(ds) <= j
    BY <1>4, <2>1, MinOfPositions
  <2> QED
    BY <1>1, <1>2, <2>2
<1> QED
  BY <1>3, <1>4 DEF C, ds

\* The next line, whether or not the buffer has to be filled for it.
LEMMA ReadSliceIsLine ==
    ASSUME NEW input \in Seq(Bytes), NEW b, IsAhead(b, input)
    PROVE  IsLineOf(ReadSlice(b, input, Newline), b, input)
<1> DEFINE f == IF DelimitersIn(b, Newline) = {} /\ Buffered(b) < BufferSize
                THEN Fill(b, input) ELSE b
           ds == DelimitersIn(f, Newline)
           to == IF ds = {} THEN f.w ELSE Min(ds)
           s  == ReadSlice(b, input, Newline)
           C  == Consumed(b)
           e  == LineEnd(input, C + 1)
<1> SUFFICES IsLineOf(s, b, input)
  OBVIOUS
<1>1. /\ IsAhead(f, input) /\ Consumed(f) = C
      /\ ds = {} /\ Buffered(f) < BufferSize => f.taken = Len(input)
  <2>1. CASE DelimitersIn(b, Newline) = {} /\ Buffered(b) < BufferSize
    BY <2>1, FillIsAhead
  <2>2. CASE ~(DelimitersIn(b, Newline) = {} /\ Buffered(b) < BufferSize)
    BY <2>2
  <2> QED
    BY <2>1, <2>2
<1>2. s = [end    |-> IF ds # {} THEN "delim"
                      ELSE IF Buffered(f) = BufferSize THEN "full" ELSE "eof",
           at     |-> f.r,
           len    |-> to - f.r,
           reader |-> [f EXCEPT !.r = IF ds = {} THEN to ELSE to + 1]]
  BY DEF ReadSlice
<1> HIDE DEF f, s
<1>3. /\ f.r \in Nat /\ f.w \in Nat /\ f.taken \in Nat /\ f.r <= f.w /\ f.w <= BufferSize
      /\ f.taken <= Len(input) /\ Len(input) \in Nat
      /\ C = f.taken - (f.w - f.r) /\ C \in Nat /\ Buffered(f) = f.w - f.r
  BY <1>1, AheadFacts
<1>4. \A j \in f.r .. f.w - 1 : f.buf[j] = input[C + (j - f.r) + 1]
  <2>1. \A j \in f.r .. f.w - 1 : f.buf[j] = input[Consumed(f) + (j - f.r) + 1]
    BY <1>1, AheadFacts
  <2> QED
    BY <1>1, <2>1, Zenon
<1>5. /\ \A k \in C + 1 .. f.taken : input[k] = Newline => f.r + (k - C) - 1 \in ds
      /\ ds # {} => /\ Min(ds) \in f.r .. f.w - 1
                    /\ input[C + (Min(ds) - f.r) + 1] = Newline
                    /\ \A j \in ds : Min(ds) <= j
  BY <1>1, DelimiterFacts
<1> HIDE DEF C, ds
<1>6. C + 1 \in 1 .. Len(input) + 1
  BY <1>3
<1>7. /\ e \in C + 1 .. Len(input) + 1
      /\ \A j \in C + 1 .. e - 1 : input[j] # Newline
      /\ e <= Len(input) => input[e] = Newline
  BY <1>6, LineEndIs
<1>8. to \in f.r .. f.w /\ (ds # {} => to + 1 \in f.r .. f.w)
  BY <1>3, <1>5, SMTT(30)
<1>9. \A j \in 1 .. to - f.r : f.buf[f.r + j - 1] = input[C + j]
  <2> SUFFICES ASSUME NEW j \in 1 .. to - f.r PROVE f.buf[f.r + j - 1] = input[C + j]
    OBVIOUS
  <2> DEFINE k == f.r + j - 1
  <2>1. k \in f.r .. f.w - 1 /\ C + (k - f.r) + 1 = C + j
    BY <1>3, <1>8
  <2> QED
    BY <1>4, <2>1
<1> DEFINE r == IF ds = {} THEN to ELSE to + 1
           c == [f EXCEPT !.r = r]
<1>10. r \in f.r .. f.w
  BY <1>3, <1>8
<1> HIDE DEF r
<1>11. IsAhead(c, input) /\ c.buf = f.buf /\ Consumed(c) = C + (r - f.r)
  BY <1>1, <1>10, AdvanceIsAhead
<1>12. s.reader = c /\ s.at = f.r /\ s.len = to - f.r
       /\ s.end = IF ds # {} THEN "delim" ELSE IF Buffered(f) = BufferSize THEN "full" ELSE "eof"
  BY <1>2 DEF r
<1> HIDE DEF c, to, e
<1>17. /\ IsAhead(s.reader, input) /\ s.at \in Nat /\ s.len \in Nat
       /\ s.end \in {"delim", "eof", "full"}
       /\ \A j \in 1 .. s.len : s.reader.buf[s.at + j - 1] = input[C + j]
  BY <1>3, <1>8, <1>9, <1>11, <1>12, SMTT(30)
<1>18. Consumed(s.reader) = C + (r - f.r) /\ s.len = to - f.r
  BY <1>11, <1>12
<1>13. CASE ds # {}
  <2>1. to = Min(ds) /\ r = to + 1 /\ s.end = "delim"
    BY <1>12, <1>13 DEF to, r
  <2> DEFINE d == C + (to - f.r) + 1
  <2>2. d \in C + 1 .. Len(input) /\ input[d] = Newline
    <3>1. to \in f.r .. f.w - 1 /\ input[d] = Newline
      BY <1>5, <1>13, <2>1
    <3>2. d \in C + 1 .. Len(input)
      BY <1>3, <3>1, SMTT(30)
    <3> QED
      BY <3>1, <3>2
  <2>3. \A k \in C + 1 .. d - 1 : input[k] # Newline
    <3> SUFFICES ASSUME NEW k \in C + 1 .. d - 1, input[k] = Newline PROVE FALSE
      OBVIOUS
    <3>1. k \in C + 1 .. f.taken
      BY <1>3, <1>8, SMTT(30)
    <3>2. f.r + (k - C) - 1 \in ds
      BY <1>5, <3>1
    <3>3. to <= f.r + (k - C) - 1
      BY <1>5, <1>13, <2>1, <3>2
    <3>4. to \in Int /\ f.r \in Int /\ C \in Int /\ k \in Int /\ k <= C + (to - f.r)
      BY <1>3, <1>8
    <3> QED
      BY <3>3, <3>4
  <2>4. d \in C + 1 .. Len(input) + 1 /\ (d <= Len(input) => input[d] = Newline)
    BY <1>3, <2>2
  <2>5. d = C + (to - f.r) + 1
    OBVIOUS
  <2> HIDE DEF d
  <2>6. d = e
    BY <1>6, <2>3, <2>4, LineEndOnly DEF e
  <2>7. to \in Int /\ f.r \in Int /\ C \in Int /\ Len(input) \in Int
    BY <1>3, <1>8
  <2>8. e <= Len(input) /\ s.len = e - (C + 1) /\ Consumed(s.reader) = e
    BY <1>18, <2>1, <2>2, <2>5, <2>6, <2>7, SMTT(30)
  <2> QED
    BY <1>17, <2>1, <2>8 DEF IsLineOf, C, e
<1>14. ASSUME ds = {}
       PROVE  to = f.w /\ r = f.w /\ e > f.taken
  <2>1. to = f.w /\ r = f.w
    BY <1>14 DEF to, r
  <2>2. ~(e <= f.taken)
    <3> SUFFICES ASSUME e <= f.taken PROVE FALSE
      OBVIOUS
    <3>1. e \in C + 1 .. f.taken /\ input[e] = Newline
      BY <1>3, <1>7
    <3> QED
      BY <1>5, <1>14, <3>1
  <2> QED
    BY <1>3, <1>7, <2>1, <2>2
<1>15. CASE ds = {} /\ Buffered(f) = BufferSize
  <2>1. s.end = "full" /\ e - (C + 1) >= BufferSize
    BY <1>3, <1>7, <1>12, <1>14, <1>15
  <2> QED
    BY <1>17, <2>1 DEF IsLineOf, C, e
<1>16. CASE ds = {} /\ Buffered(f) # BufferSize
  <2>1. f.taken = Len(input) /\ s.end = "eof"
    BY <1>1, <1>3, <1>12, <1>16, BufferAssumption
  <2>2. e = Len(input) + 1 /\ s.len = e - (C + 1) /\ Consumed(s.reader) = Len(input)
    BY <1>3, <1>7, <1>11, <1>12, <1>14, <1>16, <2>1, SMTT(30)
  <2> QED
    BY <1>17, <2>1, <2>2 DEF IsLineOf, C, e
<1> QED
  BY <1>13, <1>15, <1>16 DEF s

\* The n bytes after the first c.
LEMMA SliceFacts ==
    ASSUME NEW S, NEW s \in Seq(S), NEW c \in Nat, NEW n \in Nat, c + n <= Len(s)
    PROVE  LET t == SubSeq(s, c + 1, c + n)
           IN  t \in Seq(S) /\ Len(t) = n /\ \A j \in 1 .. n : t[j] = s[c + j]
<1> DEFINE m == c + 1
           k == c + n
<1>1. m \in 1 .. Len(s) + 1 /\ k \in m - 1 .. Len(s)
  OBVIOUS
<1> QED
  BY <1>1, SubSeqProperties

\* And nothing else is.
LEMMA SliceOnly ==
    ASSUME NEW S, NEW s \in Seq(S), NEW c \in Nat, NEW n \in Nat, c + n <= Len(s),
           NEW t, DOMAIN t = 1 .. n, t = [j \in 1 .. n |-> t[j]], \A j \in 1 .. n : t[j] = s[c + j]
    PROVE  t = SubSeq(s, c + 1, c + n)
<1> DEFINE u == SubSeq(s, c + 1, c + n)
<1>1. u \in Seq(S) /\ Len(u) = n /\ \A j \in 1 .. n : u[j] = s[c + j]
  BY SliceFacts
<1>2. \A j \in 1 .. n : c + j \in 1 .. Len(s)
  OBVIOUS
<1>3. \A j \in 1 .. n : s[c + j] \in S
  BY <1>2
<1>4. t \in [1 .. n -> S]
  BY <1>3
<1>5. t \in Seq(S) /\ Len(t) = n
  BY <1>4, SeqDef
<1> HIDE DEF u
<1>6. t = u
  BY <1>1, <1>5, SeqEqual
<1> QED
  BY <1>6 DEF u

\* A read of n bytes returns the next n bytes, from wherever they are.
LEMMA ReadFullIsNext ==
    ASSUME NEW input \in Seq(Bytes), NEW b, IsAhead(b, input),
           NEW n \in Nat, CanReadFull(b, input, n)
    PROVE  LET s == ReadFull(b, input, n)
           IN  /\ IsAhead(s.reader, input)
               /\ Consumed(s.reader) = Consumed(b) + n
               /\ s.bytes = SubSeq(input, Consumed(b) + 1, Consumed(b) + n)
<1> DEFINE m == n - Buffered(b)
           k == Min({BufferSize, Len(input) - b.taken})
           s == ReadFull(b, input, n)
           C == Consumed(b)
           q == Buffered(b)
           T == b.taken
           L == Len(input)
<1> SUFFICES /\ IsAhead(s.reader, input)
             /\ Consumed(s.reader) = C + n
             /\ s.bytes = SubSeq(input, C + 1, C + n)
  OBVIOUS
<1>1. /\ q \in Nat /\ q <= BufferSize /\ T \in Nat /\ T <= L /\ L \in Nat /\ BufferSize \in Nat
      /\ C \in Nat /\ C = T - q /\ m = n - q /\ n <= L - C
  BY AheadFacts, BufferAssumption DEF CanReadFull
<1>9. b.taken = T /\ Len(input) = L
  OBVIOUS
<1>4. b.r \in Nat /\ b.w \in Nat /\ b.w <= BufferSize /\ b.w - b.r = q
  BY AheadFacts
<1>2. /\ b.buf \in [0 .. BufferSize - 1 -> Bytes \cup {Blank}]
      /\ \A j \in b.r .. b.w - 1 : b.buf[j] = input[C + (j - b.r) + 1]
  BY AheadFacts
<1>3. /\ s.bytes = [j \in 1 .. n |-> IF j <= q THEN b.buf[b.r + j - 1] ELSE input[C + j]]
      /\ m <= 0 => s.reader = [b EXCEPT !.r = @ + n]
      /\ m > 0 /\ m >= BufferSize =>
           s.reader = [buf |-> b.buf, r |-> b.w, w |-> b.w, taken |-> b.taken + m]
      /\ m > 0 /\ ~(m >= BufferSize) =>
           s.reader = [buf |-> [j \in 0 .. BufferSize - 1 |->
                                  IF j < k THEN input[b.taken + j + 1] ELSE b.buf[j]],
                       r |-> m, w |-> k, taken |-> b.taken + k]
  BY <1>1 DEF ReadFull
<1> HIDE DEF s, C, m, q, T, L
<1>5. s.bytes = SubSeq(input, C + 1, C + n)
  <2>1. DOMAIN s.bytes = 1 .. n /\ s.bytes = [j \in 1 .. n |-> s.bytes[j]]
    BY <1>3
  <2>2. \A j \in 1 .. n : s.bytes[j] = input[C + j]
    <3> SUFFICES ASSUME NEW j \in 1 .. n PROVE s.bytes[j] = input[C + j]
      OBVIOUS
    <3>1. CASE j <= q
      <4>1. b.r + j - 1 \in b.r .. b.w - 1 /\ C + ((b.r + j - 1) - b.r) + 1 = C + j
        <5>1. q \in Nat /\ C \in Nat
          BY <1>1
        <5> QED
          BY <1>4, <3>1, <5>1
      <4>2. b.buf[b.r + j - 1] = input[C + j]
        BY <1>2, <4>1
      <4> QED
        BY <1>3, <3>1, <4>2
    <3>2. CASE ~(j <= q)
      BY <1>3, <3>2
    <3> QED
      BY <3>1, <3>2
  <2>3. C \in Nat /\ C + n <= Len(input)
    BY <1>1, <1>9
  <2> QED
    BY <2>1, <2>2, <2>3, SliceOnly
<1>6. CASE m <= 0
  <2>1. b.r + n \in b.r .. b.w
    BY <1>1, <1>4, <1>6
  <2>2. s.reader = [b EXCEPT !.r = b.r + n]
    BY <1>3, <1>6
  <2>3. IsAhead(s.reader, input) /\ Consumed(s.reader) = C + ((b.r + n) - b.r)
    BY <2>1, <2>2, AdvanceIsAhead DEF C
  <2>4. C + ((b.r + n) - b.r) = C + n
    BY <1>1, <1>4
  <2> QED
    BY <1>5, <2>3, <2>4
<1>7. CASE m > 0 /\ m >= BufferSize
  <2> DEFINE c == s.reader
  <2>1. c = [buf |-> b.buf, r |-> b.w, w |-> b.w, taken |-> b.taken + m]
    BY <1>3, <1>7
  <2> HIDE DEF c
  <2>2. T + m = C + n /\ T + m \in Nat /\ T + m <= L
    BY <1>1
  <2>3. c \in Reader /\ Buffered(c) = 0 /\ Consumed(c) = C + n
    <3>1. b.w \in 0 .. BufferSize /\ b.w - b.w = 0
      BY <1>1, <1>4
    <3>4. C + n \in Nat /\ (C + n) - 0 = C + n
      BY <1>1
    <3>2. c \in Reader
      BY <1>2, <1>9, <2>1, <2>2, <3>1 DEF Reader
    <3>3. Buffered(c) = 0 /\ c.taken = C + n
      BY <1>9, <2>1, <2>2, <3>1 DEF Buffered
    <3> QED
      BY <3>2, <3>3, <3>4 DEF Consumed
  <2>4. c.taken \in 0 .. Len(input) /\ c.r = c.w /\ c.w \in Nat
    <3>1. C + n \in 0 .. L
      BY <1>1
    <3> QED
      BY <1>4, <1>9, <2>1, <2>2, <3>1
  <2>5. IsAhead(c, input)
    BY <2>3, <2>4 DEF IsAhead
  <2> QED
    BY <1>5, <2>3, <2>5 DEF c
<1>8. CASE m > 0 /\ ~(m >= BufferSize)
  <2> DEFINE c == s.reader
  <2>1. k \in Nat /\ k <= BufferSize /\ T + k <= L /\ m <= k /\ m \in Nat
    <3> DEFINE y == L - T
    <3>1. y \in Int /\ BufferSize \in Int
      BY <1>1
    <3>2. k = Min({BufferSize, y})
      BY <1>9
    <3>3. m <= y
      BY <1>1
    <3> HIDE DEF y, k
    <3>4. k = IF BufferSize <= y THEN BufferSize ELSE y
      BY <3>1, <3>2, MinOfTwo
    <3>5. y = L - T /\ y \in Nat
      BY <1>1 DEF y
    <3> QED
      BY <1>1, <1>8, <3>3, <3>4, <3>5
  <2>2. c = [buf |-> [j \in 0 .. BufferSize - 1 |->
                        IF j < k THEN input[T + j + 1] ELSE b.buf[j]],
             r |-> m, w |-> k, taken |-> T + k]
    BY <1>3, <1>8, <1>9
  <2> HIDE DEF c, k
  <2>3. c.r = m /\ c.w = k /\ c.taken = T + k
    BY <2>2
  <2>4. \A j \in 0 .. BufferSize - 1 : c.buf[j] = IF j < k THEN input[T + j + 1] ELSE b.buf[j]
    BY <2>2
  <2>5. \A j \in 0 .. BufferSize - 1 : c.buf[j] \in Bytes \cup {Blank}
    <3> SUFFICES ASSUME NEW j \in 0 .. BufferSize - 1 PROVE c.buf[j] \in Bytes \cup {Blank}
      OBVIOUS
    <3>1. CASE j < k
      <4>1. T + j + 1 \in 1 .. Len(input)
        <5>1. T + j + 1 \in 1 .. L
          BY <1>1, <2>1, <3>1
        <5> QED
          BY <1>9, <5>1
      <4>2. c.buf[j] = input[T + j + 1]
        BY <2>4, <3>1
      <4> QED
        BY <4>1, <4>2
    <3>2. CASE ~(j < k)
      BY <1>2, <2>4, <3>2
    <3> QED
      BY <3>1, <3>2
  <2>6. c \in Reader
    <3>1. m \in 0 .. BufferSize /\ k \in 0 .. BufferSize /\ T + k \in Nat
      BY <1>1, <1>8, <2>1
    <3>2. c.buf \in [0 .. BufferSize - 1 -> Bytes \cup {Blank}]
      BY <2>2, <2>5
    <3> QED
      BY <2>2, <3>1, <3>2 DEF Reader
  <2>7. Buffered(c) = k - m /\ Consumed(c) = C + n
    <3>1. Buffered(c) = k - m /\ Consumed(c) = (T + k) - (k - m)
      BY <2>3 DEF Buffered, Consumed
    <3>2. (T + k) - (k - m) = C + n
      BY <1>1, <2>1
    <3> QED
      BY <3>1, <3>2
  <2>8. \A j \in c.r .. c.w - 1 : c.buf[j] = input[c.taken - (c.w - j) + 1]
    <3> SUFFICES ASSUME NEW j \in m .. k - 1 PROVE c.buf[j] = input[(T + k) - (k - j) + 1]
      BY <2>3
    <3>1. j \in 0 .. BufferSize - 1 /\ j < k /\ (T + k) - (k - j) + 1 = T + j + 1
      BY <1>1, <2>1
    <3> QED
      BY <2>4, <3>1
  <2>9. c.taken \in Buffered(c) .. Len(input) /\ c.r <= c.w
    <3>1. T + k \in (k - m) .. L
      BY <1>1, <2>1
    <3> QED
      BY <1>9, <2>1, <2>3, <2>7, <3>1
  <2>10. IsAhead(c, input)
    BY <2>6, <2>8, <2>9 DEF IsAhead
  <2> QED
    BY <1>5, <2>7, <2>10 DEF c
<1> QED
  BY <1>1, <1>6, <1>7, <1>8

\* The byte after, unless the input ends.
LEMMA ReadByteIsNext ==
    ASSUME NEW input \in Seq(Bytes), NEW b, IsAhead(b, input)
    PROVE  LET t == ReadByte(b, input)
           IN  /\ IsAhead(t.reader, input)
               /\ t.some \in BOOLEAN
               /\ t.some => /\ Consumed(b) < Len(input)
                            /\ t.byte = input[Consumed(b) + 1]
                            /\ Consumed(t.reader) = Consumed(b) + 1
               /\ ~t.some => Consumed(b) = Len(input) /\ Consumed(t.reader) = Consumed(b)
<1> DEFINE f == IF Buffered(b) = 0 THEN Fill(b, input) ELSE b
           t == ReadByte(b, input)
<1>1. /\ IsAhead(f, input) /\ Consumed(f) = Consumed(b)
      /\ Buffered(f) = 0 => f.taken = Len(input)
  <2>1. CASE Buffered(b) = 0
    BY <2>1, FillIsAhead, BufferAssumption
  <2>2. CASE Buffered(b) # 0
    BY <2>2
  <2> QED
    BY <2>1, <2>2
<1>2. t = IF Buffered(f) = 0 THEN [some |-> FALSE, byte |-> Blank, reader |-> f]
          ELSE [some |-> TRUE, byte |-> f.buf[f.r], reader |-> [f EXCEPT !.r = @ + 1]]
  BY DEF ReadByte
<1> HIDE DEF f, t
<1>3. /\ f.r \in Nat /\ f.w \in Nat /\ f.taken \in Nat /\ f.r <= f.w
      /\ f.taken <= Len(input) /\ Len(input) \in Nat
      /\ Consumed(f) = f.taken - (f.w - f.r) /\ Buffered(f) = f.w - f.r
  BY <1>1, AheadFacts
<1>4. \A j \in f.r .. f.w - 1 : f.buf[j] = input[Consumed(f) + (j - f.r) + 1]
  BY <1>1, AheadFacts
<1>5. CASE Buffered(f) = 0
  <2>1. t.some = FALSE /\ t.reader = f
    BY <1>2, <1>5
  <2>2. Consumed(f) = Len(input)
    BY <1>1, <1>3, <1>5
  <2>3. ~t.some /\ t.some \in BOOLEAN
    BY <2>1
  <2> QED
    BY <1>1, <2>1, <2>2, <2>3 DEF t
<1>6. CASE Buffered(f) # 0
  <2>1. t.some = TRUE /\ t.byte = f.buf[f.r] /\ t.reader = [f EXCEPT !.r = f.r + 1]
    BY <1>2, <1>6
  <2>2. f.r + 1 \in f.r .. f.w /\ f.r \in f.r .. f.w - 1 /\ Consumed(f) < Len(input)
        /\ Consumed(f) + (f.r - f.r) + 1 = Consumed(f) + 1
        /\ Consumed(f) + ((f.r + 1) - f.r) = Consumed(f) + 1
    <3>1. f.r + 1 \in f.r .. f.w /\ f.r \in f.r .. f.w - 1
      BY <1>3, <1>6
    <3>2. Consumed(f) < Len(input) /\ Consumed(f) \in Int
      BY <1>3, <1>6
    <3> QED
      BY <1>3, <3>1, <3>2
  <2>3. IsAhead(t.reader, input) /\ Consumed(t.reader) = Consumed(f) + ((f.r + 1) - f.r)
    BY <1>1, <2>1, <2>2, AdvanceIsAhead
  <2>4. t.byte = input[Consumed(f) + 1]
    BY <1>4, <2>1, <2>2
  <2> QED
    BY <1>1, <2>1, <2>2, <2>3, <2>4 DEF t
<1> QED
  BY <1>5, <1>6

-----------------------------------------------------------------------------
(* The grammar.                                                            *)

\* What Payload and Span describe: a length, and the bytes it stands for.
Announced == [length : Int \cup {Implicit}, from : Int, to : Int]

\* The one byte of a header line, and where its line ends.
LEMMA HeaderFacts ==
    ASSUME NEW b \in Seq(Bytes), NEW i \in 1 .. Len(b) + 1,
           IsHeader(SubSeq(b, i, LineEnd(b, i) - 1))
    PROVE  /\ i <= Len(b) /\ LineEnd(b, i) = i + 1
           /\ b[i] \in DOMAIN LengthIn /\ b[i] # Newline
           /\ LengthIn[b[i]] \in Int \cup {Implicit}
<1> DEFINE e == LineEnd(b, i)
           t == SubSeq(b, i, e - 1)
<1>1. e \in i .. Len(b) + 1
  BY LineEndIs
<1> HIDE DEF e
<1>2. Len(b) \in Nat /\ i \in Nat /\ i >= 1 /\ i - 1 \in Nat
  OBVIOUS
<1> DEFINE c == i - 1
           n == e - i
<1>3. c \in Nat /\ n \in Nat /\ c + n <= Len(b) /\ c + 1 = i /\ c + n = e - 1
  BY <1>1, <1>2
<1> HIDE DEF c, n
<1>4. Len(t) = n /\ \A j \in 1 .. n : t[j] = b[c + j]
  <2>1. t = SubSeq(b, c + 1, c + n)
    BY <1>3
  <2> HIDE DEF t
  <2> QED
    BY <1>3, <2>1, SliceFacts
<1>5. Len(t) = 1 /\ t[1] \in DOMAIN LengthIn
  BY DEF IsHeader, e
<1>6. n = 1 /\ b[i] \in DOMAIN LengthIn
  BY <1>3, <1>4, <1>5
<1>7. e = i + 1 /\ i <= Len(b)
  BY <1>1, <1>2, <1>6 DEF n
<1> QED
  BY <1>6, <1>7, GrammarAssumption DEF e

\* The payload after a header line, and the position after it.
LEMMA PayloadFacts ==
    ASSUME NEW b \in Seq(Bytes), NEW i \in 1 .. Len(b) + 1,
           IsHeader(SubSeq(b, i, LineEnd(b, i) - 1))
    PROVE  LET p    == Payload(b, i, LineEnd(b, i))
               from == IF i = Len(b) THEN i + 1 ELSE i + 2
           IN  /\ p \in Announced
               /\ p.length = LengthIn[b[i]]
               /\ p.from = from /\ from \in 1 .. Len(b) + 1
               /\ p.to = IF p.length = Implicit THEN LineEnd(b, from) - 1 ELSE from + p.length - 1
               /\ IsPayload(b, p) => p.to + 2 \in i + 1 .. Len(b) + 2
<1> DEFINE e    == LineEnd(b, i)
           p    == Payload(b, i, e)
           from == IF i = Len(b) THEN i + 1 ELSE i + 2
           l    == LengthIn[b[i]]
<1>1. i <= Len(b) /\ e = i + 1 /\ l \in Int \cup {Implicit} /\ Len(b) \in Nat
  BY HeaderFacts
<1> HIDE DEF e, l
<1>2. Min({e, Len(b)}) + 1 = from
  <2>1. Min({e, Len(b)}) = IF e <= Len(b) THEN e ELSE Len(b)
    BY <1>1, MinOfTwo
  <2> QED
    BY <1>1, <2>1
<1>3. from \in 1 .. Len(b) + 1 /\ from > i
  BY <1>1
<1> HIDE DEF from
<1>4. p = [length |-> l, from |-> from,
           to |-> IF l = Implicit THEN LineEnd(b, from) - 1 ELSE from + l - 1]
  BY <1>2 DEF Payload, l
<1>5. LineEnd(b, from) \in from .. Len(b) + 1
  BY <1>3, LineEndIs
<1>6. (IF l = Implicit THEN LineEnd(b, from) - 1 ELSE from + l - 1) \in Int
  BY <1>1, <1>3, <1>5
<1>7. p \in Announced
  BY <1>1, <1>3, <1>4, <1>6 DEF Announced
<1>8. p.length = l /\ p.from = from /\ p.to \in Int
      /\ p.to = IF l = Implicit THEN LineEnd(b, from) - 1 ELSE from + l - 1
  BY <1>4, <1>6
<1> HIDE DEF p
<1>9. ASSUME IsPayload(b, p) PROVE p.to + 2 \in i + 1 .. Len(b) + 2
  <2>1. p.from - 1 <= p.to /\ p.to <= Len(b)
    BY <1>9 DEF IsPayload
  <2> QED
    BY <1>1, <1>3, <1>8, <2>1
<1> QED
  BY <1>3, <1>7, <1>8, <1>9 DEF p, from, l, e

\* The readings from i on are those of the later positions, whatever the
\* table of readings says elsewhere.
LEMMA ItemsFromLater ==
    ASSUME NEW b \in Seq(Bytes), NEW i \in 1 .. Len(b) + 2, NEW f, NEW g,
           \A j \in i + 1 .. Len(b) + 2 : f[j] = g[j]
    PROVE  ItemsFrom(b, i, f) = ItemsFrom(b, i, g)
<1> DEFINE e == LineEnd(b, i)
           p == Payload(b, i, e)
<1>1. CASE i > Len(b) \/ (i = Len(b) /\ b[i] = Newline)
  BY <1>1 DEF ItemsFrom
<1>2. CASE ~(i > Len(b) \/ (i = Len(b) /\ b[i] = Newline))
  <2>1. CASE IsHeader(SubSeq(b, i, e - 1)) /\ IsPayload(b, p)
    <3>1. i \in 1 .. Len(b) + 1
      BY <1>2
    <3>2. p.to + 2 \in i + 1 .. Len(b) + 2
      BY <2>1, <3>1, PayloadFacts
    <3>3. f[p.to + 2] = g[p.to + 2]
      BY <3>2
    <3> QED
      BY <1>2, <2>1, <3>3 DEF ItemsFrom
  <2>2. CASE ~(IsHeader(SubSeq(b, i, e - 1)) /\ IsPayload(b, p))
    BY <1>2, <2>2 DEF ItemsFrom
  <2> QED
    BY <2>1, <2>2
<1> QED
  BY <1>1, <1>2

\* The definition of ItemsAt is well-founded: a table that fits it exists.
LEMMA ItemsAtIs ==
    ASSUME NEW b \in Seq(Bytes), NEW i \in 1 .. Len(b) + 2
    PROVE  ItemsAt(b)[i] = ItemsFrom(b, i, ItemsAt(b))
<1> DEFINE n == Len(b) + 2
           Fits(f, k) == /\ f = [j \in 1 .. n |-> f[j]]
                         /\ \A j \in 1 .. n : j > n - k => f[j] = ItemsFrom(b, j, f)
           Lack == {k \in 0 .. n : ~\E f : Fits(f, k)}
<1>1. n \in Nat
  OBVIOUS
<1>2. ASSUME NEW k \in 1 .. n, NEW f, Fits(f, k - 1)
      PROVE  \E g : Fits(g, k)
  <2> DEFINE at == n - k + 1
             g  == [j \in 1 .. n |-> IF j = at THEN ItemsFrom(b, at, f) ELSE f[j]]
  <2>0. at \in 1 .. n
    BY <1>1
  <2>1. \A j \in at + 1 .. n : f[j] = g[j]
    BY <1>1, <2>0
  <2>2. ASSUME NEW j \in 1 .. n, j > n - k
        PROVE  g[j] = ItemsFrom(b, j, g)
    <3>1. ItemsFrom(b, j, f) = ItemsFrom(b, j, g)
      <4>1. \A x \in j + 1 .. Len(b) + 2 : f[x] = g[x]
        BY <1>1, <2>1, <2>2
      <4> HIDE DEF g
      <4> QED
        BY <4>1, ItemsFromLater
    <3>2. j = at \/ j > n - (k - 1)
      BY <1>1, <2>2
    <3> QED
      BY <1>2, <3>1, <3>2
  <2>3. g = [j \in 1 .. n |-> g[j]]
    OBVIOUS
  <2> HIDE DEF g
  <2>4. Fits(g, k)
    BY <2>2, <2>3
  <2> QED
    BY <2>4
<1>3. 0 \notin Lack
  <2> DEFINE f == [j \in 1 .. n |-> 0]
  <2>1. Fits(f, 0)
    BY <1>1
  <2> HIDE DEF f
  <2> QED
    BY <2>1
<1>4. Lack = {}
  <2> SUFFICES ASSUME Lack # {} PROVE FALSE
    OBVIOUS
  <2>1. Min(Lack) \in Lack /\ \A x \in Lack : Min(Lack) <= x
    <3>1. Lack \in SUBSET Nat
      OBVIOUS
    <3> HIDE DEF Lack
    <3> QED
      BY <3>1, MinOfPositions
  <2> DEFINE k == Min(Lack)
  <2>2. k \in 1 .. n /\ k - 1 \in 0 .. n /\ k - 1 \notin Lack
    <3>1. k \in 0 .. n /\ k # 0
      BY <1>3, <2>1
    <3>2. k \in 1 .. n /\ k - 1 \in 0 .. n /\ ~(k <= k - 1)
      BY <1>1, <3>1
    <3> QED
      BY <2>1, <3>2
  <2> HIDE DEF k, Fits
  <2>3. PICK f : Fits(f, k - 1)
    BY <2>2
  <2>4. \E g : Fits(g, k)
    BY <1>2, <2>2, <2>3
  <2> QED
    BY <2>1, <2>4 DEF k
<1>5. PICK f : Fits(f, n)
  <2>1. n \in 0 .. n
    BY <1>1
  <2> HIDE DEF Fits
  <2> QED
    BY <1>4, <2>1
<1>6. f = [j \in 1 .. n |-> ItemsFrom(b, j, f)]
  BY <1>5
<1> HIDE DEF Fits
<1>7. ItemsAt(b) = [j \in 1 .. n |-> ItemsFrom(b, j, ItemsAt(b))]
  BY <1>6 DEF ItemsAt
<1> QED
  BY <1>7

\* The readings from i on: none left, the item at i and what follows, or none
\* at all.
LEMMA ItemsAtEnd ==
    ASSUME NEW b \in Seq(Bytes), NEW i \in 1 .. Len(b) + 2,
           i > Len(b) \/ (i = Len(b) /\ b[i] = Newline)
    PROVE  ItemsAt(b)[i] = {<< >>}
BY ItemsAtIs DEF ItemsFrom

LEMMA ItemsAtItem ==
    ASSUME NEW b \in Seq(Bytes), NEW i \in 1 .. Len(b),
           ~(i = Len(b) /\ b[i] = Newline)
    PROVE  LET e == LineEnd(b, i)
               p == Payload(b, i, e)
           IN  ItemsAt(b)[i] = IF IsHeader(SubSeq(b, i, e - 1)) /\ IsPayload(b, p)
                               THEN {<<p>> \o rest : rest \in ItemsAt(b)[p.to + 2]}
                               ELSE {}
<1>1. i \in 1 .. Len(b) + 2 /\ ~(i > Len(b) \/ (i = Len(b) /\ b[i] = Newline))
  OBVIOUS
<1>2. ItemsAt(b)[i] = ItemsFrom(b, i, ItemsAt(b))
  BY <1>1, ItemsAtIs
<1> QED
  BY <1>1, <1>2 DEF ItemsFrom

\* A reading is a sequence.
LEMMA ReadingsAreSequences ==
    ASSUME NEW b \in Seq(Bytes), NEW i \in 1 .. Len(b) + 2
    PROVE  ItemsAt(b)[i] \subseteq Seq(Announced)
<1> DEFINE n   == Len(b) + 2
           Bad == {k \in 1 .. n : ~(ItemsAt(b)[k] \subseteq Seq(Announced))}
<1> SUFFICES ASSUME Bad # {} PROVE FALSE
  OBVIOUS
<1>1. n \in Nat
  OBVIOUS
<1>2. Max(Bad) \in Bad /\ \A x \in Bad : x <= Max(Bad)
  <2>1. Bad \in SUBSET (1 .. n)
    OBVIOUS
  <2> HIDE DEF Bad, n
  <2> QED
    BY <1>1, <2>1, MaxOfPositions
<1> DEFINE k == Max(Bad)
           e == LineEnd(b, k)
           p == Payload(b, k, e)
<1>3. k \in 1 .. n /\ ~(ItemsAt(b)[k] \subseteq Seq(Announced))
  BY <1>2
<1>4. \A j \in k + 1 .. n : ItemsAt(b)[j] \subseteq Seq(Announced)
  BY <1>1, <1>2
<1> HIDE DEF k, Bad
<1>5. CASE k > Len(b) \/ (k = Len(b) /\ b[k] = Newline)
  <2>1. ItemsAt(b)[k] = {<< >>}
    BY <1>3, <1>5, ItemsAtEnd
  <2> QED
    BY <1>3, <2>1, EmptySeq
<1>6. CASE ~(k > Len(b) \/ (k = Len(b) /\ b[k] = Newline))
  <2>0. k \in 1 .. Len(b) /\ k \in 1 .. Len(b) + 1
    BY <1>3, <1>6
  <2>1. CASE IsHeader(SubSeq(b, k, e - 1)) /\ IsPayload(b, p)
    <3>1. ItemsAt(b)[k] = {<<p>> \o rest : rest \in ItemsAt(b)[p.to + 2]}
      BY <1>6, <2>0, <2>1, ItemsAtItem
    <3>2. p \in Announced /\ p.to + 2 \in k + 1 .. n
      BY <2>0, <2>1, PayloadFacts
    <3>3. <<p>> \in Seq(Announced)
      BY <3>2
    <3>4. \A rest \in ItemsAt(b)[p.to + 2] : <<p>> \o rest \in Seq(Announced)
      BY <1>4, <3>2, <3>3, ConcatProperties
    <3> QED
      BY <1>3, <3>1, <3>4
  <2>2. CASE ~(IsHeader(SubSeq(b, k, e - 1)) /\ IsPayload(b, p))
    <3>1. ItemsAt(b)[k] = {}
      BY <1>6, <2>0, <2>2, ItemsAtItem
    <3> QED
      BY <1>3, <3>1
  <2> QED
    BY <2>1, <2>2
<1> QED
  BY <1>5, <1>6

-----------------------------------------------------------------------------
(* The parser's next line.                                                 *)

\* readLine returns the line of the body that starts where the reader is.
LEMMA LineIs ==
    ASSUME body \in Seq(Bytes), IsAhead(reader, body)
    PROVE  LET pos == Consumed(reader) + 1
               e   == LineEnd(body, pos)
               n   == Len(body)
           IN  /\ Line.kind \in {"line", "eof", "error"}
               /\ IsAhead(Line.reader, body) /\ Line.at \in Nat /\ Line.len \in Nat
               /\ Line.kind = "line" =>
                    /\ Line.len = e - pos
                    /\ Contents(Line) = SubSeq(body, pos, e - 1)
                    /\ Consumed(Line.reader) = IF e <= n THEN e ELSE n
                    /\ e > n => Line.len > 0
               /\ Line.kind = "eof" => pos = n + 1
               /\ Line.kind = "error" => e - pos >= BufferSize
<1> DEFINE C   == Consumed(reader)
           pos == C + 1
           e   == LineEnd(body, pos)
           n   == Len(body)
           s   == ReadSlice(reader, body, Newline)
<1>1. C \in 0 .. n /\ n \in Nat
  BY AheadFacts
<1>2. IsLineOf(s, reader, body)
  BY ReadSliceIsLine
<1>3. /\ Line.kind = CASE s.end = "full" -> "error"
                       [] s.end = "eof" /\ s.len = 0 -> "eof"
                       [] OTHER -> "line"
      /\ Line.at = s.at /\ Line.len = s.len /\ Line.reader = s.reader
  BY DEF Line
<1> HIDE DEF s
<1>4. /\ IsAhead(s.reader, body)
      /\ s.at \in Nat /\ s.len \in Nat /\ s.end \in {"delim", "eof", "full"}
      /\ \A j \in 1 .. s.len : s.reader.buf[s.at + j - 1] = body[C + j]
      /\ s.end = "delim" => e <= n /\ s.len = e - pos /\ Consumed(s.reader) = e
      /\ s.end = "eof" => e = n + 1 /\ s.len = e - pos /\ Consumed(s.reader) = n
      /\ s.end = "full" => e - pos >= BufferSize
  BY <1>2 DEF IsLineOf
<1>5. e \in pos .. n + 1
  BY <1>1, LineEndIs
<1> HIDE DEF C, e
<1>6. Line.kind \in {"line", "eof", "error"}
  BY <1>3
<1>7. ASSUME Line.kind = "line"
      PROVE  /\ Line.len = e - pos
             /\ Consumed(Line.reader) = IF e <= n THEN e ELSE n
             /\ e > n => Line.len > 0
  <2>1. s.end \in {"delim", "eof"} /\ (s.end = "eof" => s.len # 0)
    BY <1>3, <1>4, <1>7
  <2> QED
    BY <1>1, <1>3, <1>4, <1>5, <2>1
<1>8. ASSUME Line.kind = "line"
      PROVE  Contents(Line) = SubSeq(body, pos, e - 1)
  <2> DEFINE t == Contents(Line)
             m == e - pos
  <2>1. m \in Nat /\ C \in Nat /\ C + m <= Len(body) /\ C + m = e - 1
    BY <1>1, <1>5
  <2>2. t = [j \in 1 .. m |-> s.reader.buf[s.at + j - 1]]
    BY <1>3, <1>7, <1>8 DEF Contents
  <2>3. s.len = m
    BY <1>3, <1>7, <1>8
  <2> HIDE DEF t, m
  <2>4. DOMAIN t = 1 .. m /\ t = [j \in 1 .. m |-> t[j]] /\ \A j \in 1 .. m : t[j] = body[C + j]
    BY <1>4, <2>2, <2>3
  <2>5. t = SubSeq(body, C + 1, C + m)
    BY <2>1, <2>4, SliceOnly
  <2> QED
    BY <2>1, <2>5 DEF t
<1>9. Line.kind = "eof" => pos = n + 1
  BY <1>1, <1>3, <1>4
<1>10. Line.kind = "error" => e - pos >= BufferSize
  BY <1>3, <1>4
<1> QED
  BY <1>3, <1>4, <1>6, <1>7, <1>8, <1>9, <1>10 DEF C, e

\* It is a header line iff the grammar finds one there.
LEMMA HeaderLineIs ==
    ASSUME body \in Seq(Bytes), IsAhead(reader, body)
    PROVE  LET pos == Consumed(reader) + 1
           IN  /\ IsHeaderLine(Line) <=> IsHeader(SubSeq(body, pos, LineEnd(body, pos) - 1))
               /\ IsHeaderLine(Line) =>
                    /\ pos <= Len(body)
                    /\ Contents(Line)[1] = body[pos]
                    /\ Consumed(Line.reader) = IF pos = Len(body) THEN pos ELSE pos + 1
<1> DEFINE pos == Consumed(reader) + 1
           e   == LineEnd(body, pos)
           n   == Len(body)
           t   == SubSeq(body, pos, e - 1)
<1>1. pos \in 1 .. n + 1 /\ n \in Nat
  <2>1. Consumed(reader) \in 0 .. n /\ n \in Nat
    BY AheadFacts
  <2> HIDE DEF n
  <2> QED
    BY <2>1
<1>2. /\ Line.kind \in {"line", "eof", "error"}
      /\ Line.kind = "line" =>
           /\ Contents(Line) = t
           /\ Consumed(Line.reader) = IF e <= n THEN e ELSE n
      /\ Line.kind = "eof" => pos = n + 1
      /\ Line.kind = "error" => e - pos >= BufferSize
  BY LineIs
<1> HIDE DEF pos
<1>3. ASSUME IsHeader(t)
      PROVE  /\ Line.kind = "line" /\ pos <= n /\ e = pos + 1
             /\ t[1] = body[pos]
  <2>1. pos <= n /\ e = pos + 1
    BY <1>1, <1>3, HeaderFacts
  <2>2. Line.kind = "line"
    BY <1>1, <1>2, <2>1, BufferAssumption
  <2>3. t[1] = body[pos]
    <3> DEFINE c == pos - 1
    <3>1. t = SubSeq(body, c + 1, c + 1) /\ c \in Nat /\ c + 1 <= Len(body) /\ 1 \in 1 .. 1 /\ 1 \in Nat
          /\ c + 1 = pos
      BY <1>1, <2>1
    <3> HIDE DEF c, t
    <3> QED
      BY <3>1, SliceFacts
  <2> QED
    BY <2>1, <2>2, <2>3
<1>4. IsHeaderLine(Line) <=> IsHeader(t)
  BY <1>2, <1>3 DEF IsHeaderLine
<1>5. ASSUME IsHeaderLine(Line)
      PROVE  /\ pos <= n /\ Contents(Line)[1] = body[pos]
             /\ Consumed(Line.reader) = IF pos = n THEN pos ELSE pos + 1
  <2>1. Line.kind = "line" /\ pos <= n /\ e = pos + 1 /\ t[1] = body[pos]
    BY <1>3, <1>4, <1>5
  <2>2. Consumed(Line.reader) = IF e <= n THEN e ELSE n
    BY <1>2, <2>1
  <2>3. Consumed(Line.reader) = IF pos = n THEN pos ELSE pos + 1
    BY <1>1, <2>1, <2>2
  <2> QED
    BY <1>2, <2>1, <2>3
<1> QED
  BY <1>4, <1>5 DEF pos

-----------------------------------------------------------------------------
(* The invariant.                                                          *)

\* Payloads as the parser keeps them.
Kept == [kind : {"copy"}, bytes : Seq(Bytes)] \cup [kind : {"slice"}, at : Nat, len : Nat]

Item == [payload : Kept, span : Announced]

\* A payload with a `length` was copied, and the copy is exact.
IsExactCopy(b, item) ==
    /\ item.payload.kind = "copy"
    /\ item.payload.bytes = SubSeq(b, item.span.from, item.span.to)

CopiesAreExact ==
    \A i \in DOMAIN items : items[i].span.length # Implicit => IsExactCopy(body, items[i])

\* The readings of b are those that start with `spans` and go on at i.
GoOnAt(b, spans, i) ==
    /\ \A rest \in ItemsAt(b)[i] : spans \o rest \in Readings(b)
    /\ \A r \in Readings(b) : \E rest \in ItemsAt(b)[i] : r = spans \o rest

\* The parser is at the payload of the header line at i.
IsHeaderAt(b, i) == i \in 1 .. Len(b) /\ IsHeader(SubSeq(b, i, LineEnd(b, i) - 1))

\* Where the parser stands in the grammar.
OnTrack ==
    /\ pc = "header" => Consumed(reader) = 0
    /\ pc = "item" => GoOnAt(body, Spans, Consumed(reader) + 1)
    /\ pc = "payload" =>
         \E i \in 1 .. Len(body) :
            /\ IsHeaderAt(body, i) /\ GoOnAt(body, Spans, i)
            /\ length = LengthIn[body[i]]
            /\ Consumed(reader) + 1 = IF i = Len(body) THEN i + 1 ELSE i + 2

IInv ==
    /\ TypeOK
    /\ items \in Seq(Item)
    /\ pc = "header" => items = << >>
    /\ pc = "payload" => Len(items) < MaxEnvelopeItems
    /\ CopiesAreExact
    /\ OnTrack
    /\ FramingIsExact
    /\ RejectsOnlyUnreadable

\* An item was announced.
LEMMA SpanOfItem == \A item \in Item : item.span \in Announced
BY DEF Item

\* The spans of the items, and of the items with one more.
LEMMA SpansFacts ==
    ASSUME items \in Seq(Item)
    PROVE  Spans \in Seq(Announced) /\ Len(Spans) = Len(items)
<1>1. DOMAIN items = 1 .. Len(items) /\ Len(items) \in Nat
  OBVIOUS
<1>2. \A i \in 1 .. Len(items) : items[i].span \in Announced
  BY SpanOfItem, ElementOfSeq
<1>3. Spans \in [1 .. Len(items) -> Announced]
  BY <1>1, <1>2 DEF Spans
<1> QED
  BY <1>1, <1>3, SeqDef

\* One item more is one span more.
LEMMA SpansOfMore ==
    ASSUME items \in Seq(Item), NEW item \in Item, items' = Append(items, item)
    PROVE  Spans' = Spans \o <<item.span>> /\ items' \in Seq(Item)
<1> DEFINE n == Len(items)
           t == Spans \o <<item.span>>
<1>1. n \in Nat /\ items' \in Seq(Item) /\ Len(items') = n + 1
      /\ (\A i \in 1 .. n : items'[i] = items[i]) /\ items'[n + 1] = item
  BY AppendProperties
<1>2. Spans' \in Seq(Announced) /\ Len(Spans') = n + 1
      /\ \A i \in 1 .. n + 1 : Spans'[i] = items'[i].span
  <2>1. DOMAIN items' = 1 .. n + 1
    BY <1>1
  <2>2. \A i \in 1 .. n + 1 : items'[i].span \in Announced
    BY <1>1, SpanOfItem, ElementOfSeq
  <2>3. Spans' = [i \in 1 .. n + 1 |-> items'[i].span]
    BY <2>1 DEF Spans
  <2>4. Spans' \in [1 .. n + 1 -> Announced]
    BY <2>2, <2>3
  <2> QED
    BY <1>1, <2>3, <2>4, SeqDef
<1>3. Spans \in Seq(Announced) /\ Len(Spans) = n
      /\ \A i \in 1 .. n : Spans[i] = items[i].span
  BY SpansFacts DEF Spans
<1>4. <<item.span>> \in Seq(Announced) /\ Len(<<item.span>>) = 1 /\ <<item.span>>[1] = item.span
  BY DEF Item
<1>5. t \in Seq(Announced) /\ Len(t) = n + 1
      /\ \A i \in 1 .. n + 1 : t[i] = IF i <= n THEN Spans[i] ELSE <<item.span>>[i - n]
  BY <1>3, <1>4, ConcatProperties
<1> HIDE DEF t
<1>6. \A i \in 1 .. n + 1 : Spans'[i] = t[i]
  <2> SUFFICES ASSUME NEW i \in 1 .. n + 1 PROVE Spans'[i] = t[i]
    OBVIOUS
  <2>1. CASE i <= n
    <3>1. i \in 1 .. n
      BY <1>1, <2>1
    <3>2. Spans'[i] = items[i].span
      BY <1>1, <1>2, <3>1
    <3>3. t[i] = items[i].span
      BY <1>3, <1>5, <2>1, <3>1
    <3> QED
      BY <3>2, <3>3
  <2>2. CASE ~(i <= n)
    <3>1. i = n + 1 /\ i - n = 1
      BY <1>1, <2>2
    <3> QED
      BY <1>1, <1>2, <1>4, <1>5, <2>2, <3>1
  <2> QED
    BY <2>1, <2>2
<1>7. Spans' = t
  BY <1>1, <1>2, <1>5, <1>6, SeqEqual
<1> QED
  BY <1>1, <1>7 DEF t

\* One more item, the one the grammar finds at i.
LEMMA GoOnAfter ==
    ASSUME NEW b \in Seq(Bytes), NEW S \in Seq(Announced), NEW i, IsHeaderAt(b, i), GoOnAt(b, S, i),
           NEW p, p = Payload(b, i, LineEnd(b, i)), IsPayload(b, p)
    PROVE  GoOnAt(b, S \o <<p>>, p.to + 2)
<1> DEFINE R == Readings(b)
           A == ItemsAt(b)[p.to + 2]
<1>1. i \in 1 .. Len(b) /\ IsHeader(SubSeq(b, i, LineEnd(b, i) - 1))
      /\ b[i] # Newline /\ i \in 1 .. Len(b) + 1
  <2>1. i \in 1 .. Len(b) /\ IsHeader(SubSeq(b, i, LineEnd(b, i) - 1))
    BY DEF IsHeaderAt
  <2>2. i \in 1 .. Len(b) + 1
    BY <2>1
  <2> QED
    BY <2>1, <2>2, HeaderFacts
<1>2. p \in Announced /\ p.to + 2 \in i + 1 .. Len(b) + 2
  BY <1>1, PayloadFacts
<1>3. ItemsAt(b)[i] = {<<p>> \o rest : rest \in A}
  BY <1>1, ItemsAtItem
<1>4. A \subseteq Seq(Announced)
  <2>1. p.to + 2 \in 1 .. Len(b) + 2
    BY <1>1, <1>2
  <2> QED
    BY <2>1, ReadingsAreSequences
<1>5. <<p>> \in Seq(Announced)
  BY <1>2
<1>6. \A rest \in A : (S \o <<p>>) \o rest = S \o (<<p>> \o rest)
  BY <1>4, <1>5, ConcatAssociative
<1>7. /\ \A rest \in ItemsAt(b)[i] : S \o rest \in R
      /\ \A r \in R : \E rest \in ItemsAt(b)[i] : r = S \o rest
  BY DEF GoOnAt
<1> HIDE DEF R, A
<1>8. \A rest \in A : (S \o <<p>>) \o rest \in R
  <2> SUFFICES ASSUME NEW rest \in A PROVE (S \o <<p>>) \o rest \in R
    OBVIOUS
  <2>1. <<p>> \o rest \in ItemsAt(b)[i]
    BY <1>3
  <2>2. S \o (<<p>> \o rest) \in R
    BY <1>7, <2>1
  <2> QED
    BY <1>6, <2>2
<1>9. \A r \in R : \E rest \in A : r = (S \o <<p>>) \o rest
  <2> SUFFICES ASSUME NEW r \in R PROVE \E rest \in A : r = (S \o <<p>>) \o rest
    OBVIOUS
  <2>1. PICK x \in ItemsAt(b)[i] : r = S \o x
    BY <1>7
  <2>2. PICK rest \in A : x = <<p>> \o rest
    BY <1>3
  <2>3. r = (S \o <<p>>) \o rest
    BY <1>6, <2>1, <2>2
  <2> QED
    BY <2>3
<1> QED
  BY <1>8, <1>9 DEF GoOnAt, R, A

\* The newline after a payload is skipped when there is one.
LEMMA GoOnPastEnd ==
    ASSUME NEW b \in Seq(Bytes), NEW S, GoOnAt(b, S, Len(b) + 2)
    PROVE  GoOnAt(b, S, Len(b) + 1)
<1>1. ItemsAt(b)[Len(b) + 1] = {<< >>} /\ ItemsAt(b)[Len(b) + 2] = {<< >>}
  <2>1. /\ Len(b) + 1 \in 1 .. Len(b) + 2 /\ Len(b) + 2 \in 1 .. Len(b) + 2
        /\ Len(b) + 1 > Len(b) /\ Len(b) + 2 > Len(b)
    OBVIOUS
  <2> HIDE DEF ItemsAt
  <2> QED
    BY <2>1, ItemsAtEnd
<1> QED
  BY <1>1 DEF GoOnAt

-----------------------------------------------------------------------------
(* The steps.                                                              *)

\* At the start nothing is read.
LEMMA InitInvariant == Init => IInv
<1> SUFFICES ASSUME Init PROVE IInv
  OBVIOUS
<1>1. body \in Seq(Bytes) /\ reader = NewReader /\ pc = "header" /\ length = Implicit /\ items = << >>
  BY ParserAssumption DEF Init
<1>2. /\ reader.buf = [j \in 0 .. BufferSize - 1 |-> Blank] /\ reader.r = 0 /\ reader.w = 0
      /\ reader.taken = 0 /\ reader \in Reader
  BY <1>1, BufferAssumption DEF NewReader, Reader
<1>3. Buffered(reader) = 0 /\ Consumed(reader) = 0
  BY <1>2 DEF Buffered, Consumed
<1>4. IsAhead(reader, body)
  BY <1>1, <1>2, <1>3 DEF IsAhead
<1>5. Len(items) = 0 /\ items \in Seq(Item) /\ DOMAIN items = {}
  BY <1>1, EmptySeq
<1>6. TypeOK
  BY <1>1, <1>4, <1>5, ParserAssumption DEF TypeOK
<1>7. OnTrack /\ FramingIsExact /\ RejectsOnlyUnreadable
  BY <1>1, <1>3 DEF OnTrack, FramingIsExact, RejectsOnlyUnreadable
<1> QED
  BY <1>1, <1>5, <1>6, <1>7 DEF IInv, CopiesAreExact

\* No item, no span.
LEMMA SpansOfNone == items = << >> => Spans = << >>
<1> SUFFICES ASSUME items = << >> PROVE Spans = << >>
  OBVIOUS
<1>1. items \in Seq(Item) /\ Len(items) = 0
  BY EmptySeq
<1> QED
  BY <1>1, SpansFacts, EmptySeq

\* After the envelope header.
LEMMA GoOnFirst ==
    ASSUME NEW b \in Seq(Bytes), IsHeader(SubSeq(b, 1, LineEnd(b, 1) - 1)),
           NEW c, c = IF Len(b) = 1 THEN 1 ELSE 2
    PROVE  GoOnAt(b, << >>, c + 1)
<1> DEFINE e == LineEnd(b, 1)
           R == Readings(b)
<1>1. e = 2 /\ Len(b) \in Nat /\ 1 <= Len(b)
  <2>1. 1 \in 1 .. Len(b) + 1
    OBVIOUS
  <2> QED
    BY <2>1, HeaderFacts
<1>2. Min({e, Len(b)}) = c
  <2>1. Min({2, Len(b)}) = IF 2 <= Len(b) THEN 2 ELSE Len(b)
    BY <1>1, MinOfTwo
  <2>2. c = IF 2 <= Len(b) THEN 2 ELSE Len(b)
    <3>1. \A k \in Nat : 1 <= k => (IF k = 1 THEN 1 ELSE 2) = IF 2 <= k THEN 2 ELSE k
      OBVIOUS
    <3> QED
      BY <1>1, <3>1
  <2> QED
    BY <1>1, <2>1, <2>2
<1>3. R = ItemsAt(b)[c + 1]
  BY <1>2 DEF Readings
<1>4. R \subseteq Seq(Announced)
  <2>1. c + 1 \in 1 .. Len(b) + 2
    BY <1>1
  <2> QED
    BY <1>3, <2>1, ReadingsAreSequences
<1>5. \A rest \in R : << >> \o rest = rest
  BY <1>4, ConcatEmptySeq
<1> HIDE DEF R
<1> QED
  BY <1>3, <1>5 DEF GoOnAt, R

\* After the envelope header line the first item is next.
LEMMA HeaderStep ==
    ASSUME IInv, ReadEnvelopeHeader
    PROVE  IInv'
<1> DEFINE pos == Consumed(reader) + 1
<1>1. /\ pc = "header" /\ IsHeaderLine(Line) /\ pc' = "item" /\ reader' = Line.reader
      /\ body' = body /\ length' = length /\ items' = items
  BY DEF ReadEnvelopeHeader
<1>2. /\ body \in Seq(Bytes) /\ IsAhead(reader, body) /\ length \in Int \cup {Implicit}
      /\ Len(items) <= MaxEnvelopeItems /\ items = << >> /\ Consumed(reader) = 0
  BY <1>1 DEF IInv, TypeOK, OnTrack
<1>3. IsAhead(reader', body)
  BY <1>1, <1>2, LineIs
<1>4. TypeOK'
  BY <1>1, <1>2, <1>3 DEF TypeOK
<1>5. /\ IsHeader(SubSeq(body, 1, LineEnd(body, 1) - 1))
      /\ Consumed(reader') = IF Len(body) = 1 THEN 1 ELSE 2
  <2>1. pos = 1
    BY <1>2
  <2> HIDE DEF pos
  <2> QED
    BY <1>1, <1>2, <2>1, HeaderLineIs DEF pos
<1>6. GoOnAt(body, << >>, Consumed(reader') + 1)
  BY <1>2, <1>5, GoOnFirst
<1>7. Spans' = << >>
  <2>1. Spans' = Spans
    BY <1>1 DEF Spans
  <2> QED
    BY <1>2, <2>1, SpansOfNone
<1>8. OnTrack'
  BY <1>1, <1>6, <1>7 DEF OnTrack
<1>9. items' \in Seq(Item) /\ CopiesAreExact'
  BY <1>1, <1>2, EmptySeq DEF CopiesAreExact
<1>10. FramingIsExact' /\ RejectsOnlyUnreadable'
  BY <1>1 DEF FramingIsExact, RejectsOnlyUnreadable
<1> QED
  BY <1>1, <1>4, <1>8, <1>9, <1>10 DEF IInv

\* After an item header line the payload is read where the grammar has it.
LEMMA ItemHeaderStep ==
    ASSUME IInv, ReadItemHeader
    PROVE  IInv'
<1> DEFINE pos == Consumed(reader) + 1
<1>1. /\ pc = "item" /\ ~TooManyItems /\ IsHeaderLine(Line) /\ pc' = "payload"
      /\ length' = LengthIn[Contents(Line)[1]] /\ reader' = Line.reader
      /\ body' = body /\ items' = items
  BY DEF ReadItemHeader
<1>2. /\ body \in Seq(Bytes) /\ IsAhead(reader, body) /\ items \in Seq(Item)
      /\ Len(items) <= MaxEnvelopeItems
      /\ GoOnAt(body, Spans, pos)
      /\ CopiesAreExact
  BY <1>1 DEF IInv, TypeOK, OnTrack
<1>3. IsAhead(reader', body)
  BY <1>1, <1>2, LineIs
<1>4. /\ IsHeader(SubSeq(body, pos, LineEnd(body, pos) - 1)) /\ pos <= Len(body)
      /\ length' = LengthIn[body[pos]]
      /\ Consumed(reader') = IF pos = Len(body) THEN pos ELSE pos + 1
  BY <1>1, <1>2, HeaderLineIs
<1>5. pos \in 1 .. Len(body) /\ pos \in 1 .. Len(body) + 1
  <2>1. Consumed(reader) \in 0 .. Len(body) /\ Len(body) \in Nat
    BY <1>2, AheadFacts
  <2> QED
    BY <1>4, <2>1
<1> HIDE DEF pos
<1>6. length' \in Int \cup {Implicit}
  BY <1>2, <1>4, <1>5, HeaderFacts
<1>7. TypeOK'
  BY <1>1, <1>2, <1>3, <1>6 DEF TypeOK
<1>8. IsHeaderAt(body, pos)
  BY <1>4, <1>5 DEF IsHeaderAt
<1>9. Spans' = Spans
  BY <1>1 DEF Spans
<1>10. Consumed(reader') + 1 = IF pos = Len(body) THEN pos + 1 ELSE pos + 2
  BY <1>4, <1>5
<1>11. OnTrack'
  BY <1>1, <1>2, <1>4, <1>5, <1>8, <1>9, <1>10 DEF OnTrack
<1>12. Len(items) < MaxEnvelopeItems
  BY <1>1, <1>2, ParserAssumption DEF TooManyItems
<1>13. CopiesAreExact'
  BY <1>1, <1>2 DEF CopiesAreExact
<1>14. FramingIsExact' /\ RejectsOnlyUnreadable'
  BY <1>1 DEF FramingIsExact, RejectsOnlyUnreadable
<1> QED
  BY <1>1, <1>2, <1>7, <1>11, <1>12, <1>13, <1>14 DEF IInv

\* An item that the grammar finds there too was added.
LEMMA ItemStep ==
    ASSUME IInv, pc = "payload", pc' = "item", body' = body, length' = length,
           NEW item \in Item, items' = Append(items, item),
           item.span.length # Implicit => IsExactCopy(body, item),
           IsAhead(reader', body),
           \A i \in 1 .. Len(body) :
              /\ IsHeaderAt(body, i) /\ length = LengthIn[body[i]]
              /\ Consumed(reader) + 1 = IF i = Len(body) THEN i + 1 ELSE i + 2
              => LET p == Payload(body, i, LineEnd(body, i))
                 IN  /\ item.span = p /\ IsPayload(body, p)
                     /\ Consumed(reader') = IF p.to < Len(body) THEN p.to + 1 ELSE Len(body)
    PROVE  IInv'
<1>1. /\ body \in Seq(Bytes) /\ items \in Seq(Item) /\ length \in Int \cup {Implicit}
      /\ Len(items) < MaxEnvelopeItems
      /\ \A i \in DOMAIN items : items[i].span.length # Implicit => IsExactCopy(body, items[i])
  BY DEF IInv, TypeOK, CopiesAreExact
<1>2. PICK i \in 1 .. Len(body) :
        /\ IsHeaderAt(body, i) /\ GoOnAt(body, Spans, i)
        /\ length = LengthIn[body[i]]
        /\ Consumed(reader) + 1 = IF i = Len(body) THEN i + 1 ELSE i + 2
  BY DEF IInv, OnTrack
<1> DEFINE p == Payload(body, i, LineEnd(body, i))
<1>3. /\ item.span = p /\ IsPayload(body, p)
      /\ Consumed(reader') = IF p.to < Len(body) THEN p.to + 1 ELSE Len(body)
  BY <1>2
<1>4. Spans \in Seq(Announced) /\ Spans' = Spans \o <<p>> /\ items' \in Seq(Item)
  BY <1>1, <1>3, SpansFacts, SpansOfMore
<1>5. GoOnAt(body, Spans', p.to + 2)
  BY <1>1, <1>2, <1>3, <1>4, GoOnAfter
<1>6. p.to \in Int /\ p.to <= Len(body) /\ Len(body) \in Nat
  <2>1. p \in Announced
    BY <1>3, SpanOfItem
  <2>2. p.to \in Int
    BY <2>1 DEF Announced
  <2>3. p.to <= Len(body)
    BY <1>3 DEF IsPayload
  <2> QED
    BY <1>1, <2>2, <2>3
<1> HIDE DEF p
<1>7. GoOnAt(body, Spans', Consumed(reader') + 1)
  <2>1. CASE p.to < Len(body)
    <3>1. Consumed(reader') + 1 = p.to + 2
      BY <1>3, <1>6, <2>1
    <3> QED
      BY <1>5, <3>1
  <2>2. CASE ~(p.to < Len(body))
    <3>1. Consumed(reader') + 1 = Len(body) + 1 /\ p.to + 2 = Len(body) + 2
      BY <1>3, <1>6, <2>2
    <3> QED
      BY <1>1, <1>5, <3>1, GoOnPastEnd
  <2> QED
    BY <2>1, <2>2
<1>8. OnTrack'
  BY <1>7 DEF OnTrack
<1>9. /\ Len(items') = Len(items) + 1 /\ DOMAIN items' = 1 .. Len(items) + 1
      /\ items'[Len(items) + 1] = item
      /\ \A k \in 1 .. Len(items) : items'[k] = items[k]
      /\ Len(items) \in Nat /\ DOMAIN items = 1 .. Len(items)
  BY <1>1, <1>4, AppendProperties
<1>10. CopiesAreExact'
  <2> SUFFICES ASSUME NEW k \in 1 .. Len(items) + 1, items'[k].span.length # Implicit
               PROVE  IsExactCopy(body, items'[k])
    BY <1>9 DEF CopiesAreExact
  <2>1. CASE k \in 1 .. Len(items)
    BY <1>1, <1>9, <2>1
  <2>2. CASE k = Len(items) + 1
    BY <1>9, <2>2
  <2> QED
    BY <1>9, <2>1, <2>2
<1>11. Len(items') <= MaxEnvelopeItems
  BY <1>1, <1>9, ParserAssumption
<1>12. TypeOK'
  BY <1>1, <1>11 DEF TypeOK
<1>13. FramingIsExact' /\ RejectsOnlyUnreadable'
  BY DEF FramingIsExact, RejectsOnlyUnreadable
<1> QED
  BY <1>4, <1>8, <1>10, <1>12, <1>13 DEF IInv

\* ReadFull and ReadByte take the payload the grammar has, and the newline.
LEMMA CountedStep ==
    ASSUME IInv, ReadCountedPayload
    PROVE  IInv'
<1> DEFINE C    == Consumed(reader)
           s    == ReadFull(reader, body, length)
           t    == ReadByte(s.reader, body)
           item == [payload |-> [kind |-> "copy", bytes |-> s.bytes], span |-> Span(length)]
           n    == Len(body)
<1>1. /\ pc = "payload" /\ pc' = "item" /\ body' = body /\ length' = length
      /\ length # Implicit /\ length >= 0 /\ CanReadFull(reader, body, length)
      /\ t.some => t.byte = Newline
      /\ reader' = t.reader
      /\ items' = Append(items, item)
  BY DEF ReadCountedPayload, IsCounted, Counted, AfterCounted, AddItem
<1>2. body \in Seq(Bytes) /\ IsAhead(reader, body) /\ length \in Nat
  BY <1>1 DEF IInv, TypeOK
<1>3. /\ IsAhead(s.reader, body) /\ Consumed(s.reader) = C + length
      /\ s.bytes = SubSeq(body, C + 1, C + length)
  BY <1>1, <1>2, ReadFullIsNext
<1>4. C \in Nat /\ n \in Nat /\ C + length <= n
  <2>1. C \in 0 .. n /\ n \in Nat
    BY <1>2, AheadFacts
  <2>2. length <= n - C
    BY <1>1 DEF CanReadFull
  <2> HIDE DEF C, n
  <2> QED
    BY <1>2, <2>1, <2>2
<1> HIDE DEF s
<1>5. /\ IsAhead(t.reader, body) /\ t.some \in BOOLEAN
      /\ t.some => /\ C + length < n /\ t.byte = body[C + length + 1]
                   /\ Consumed(t.reader) = C + length + 1
      /\ ~t.some => C + length = n /\ Consumed(t.reader) = C + length
  BY <1>2, <1>3, ReadByteIsNext
<1>6. item.span = [length |-> length, from |-> C + 1, to |-> C + length]
  BY DEF Span
<1>7. s.bytes \in Seq(Bytes)
  BY <1>2, <1>3, <1>4, SliceFacts
<1>8. item \in Item /\ IsExactCopy(body, item)
  <2>1. [length |-> length, from |-> C + 1, to |-> C + length] \in Announced
    BY <1>2, <1>4 DEF Announced
  <2>2. [kind |-> "copy", bytes |-> s.bytes] \in Kept
    BY <1>7 DEF Kept
  <2>3. item \in Item
    BY <1>6, <2>1, <2>2 DEF Item
  <2> QED
    BY <1>3, <1>6, <2>3 DEF IsExactCopy
<1> HIDE DEF t, C, item
<1>9. ASSUME NEW i \in 1 .. Len(body), IsHeaderAt(body, i), length = LengthIn[body[i]],
             C + 1 = IF i = Len(body) THEN i + 1 ELSE i + 2
      PROVE  LET p == Payload(body, i, LineEnd(body, i))
             IN  /\ item.span = p /\ IsPayload(body, p)
                 /\ Consumed(reader') = IF p.to < Len(body) THEN p.to + 1 ELSE Len(body)
  <2> DEFINE p == Payload(body, i, LineEnd(body, i))
  <2>1. /\ p \in Announced /\ p.length = length /\ p.from = C + 1
        /\ p.to = C + 1 + length - 1
    <3>1. i \in 1 .. Len(body) + 1 /\ IsHeader(SubSeq(body, i, LineEnd(body, i) - 1))
      BY <1>9 DEF IsHeaderAt
    <3> DEFINE from == IF i = Len(body) THEN i + 1 ELSE i + 2
    <3>2. /\ p \in Announced /\ p.length = LengthIn[body[i]] /\ p.from = from
          /\ p.to = IF p.length = Implicit THEN LineEnd(body, from) - 1 ELSE from + p.length - 1
      BY <1>2, <3>1, PayloadFacts
    <3>3. from = C + 1
      BY <1>9
    <3> HIDE DEF p, from
    <3> QED
      BY <1>1, <1>9, <3>2, <3>3
  <2>2. C + 1 + length - 1 = C + length
    BY <1>2, <1>4
  <2>3. p = [length |-> length, from |-> C + 1, to |-> C + length]
    BY <2>1, <2>2 DEF Announced
  <2> HIDE DEF p
  <2>4. IsPayload(body, p)
    <3>1. p.from = C + 1 /\ p.to = C + length
      BY <2>3
    <3>2. p.from - 1 <= p.to /\ p.to <= n
      BY <1>2, <1>4, <3>1
    <3>3. p.to < n => body[p.to + 1] = Newline
      BY <1>1, <1>5, <3>1
    <3> QED
      BY <3>2, <3>3 DEF IsPayload
  <2>5. Consumed(reader') = IF C + length < n THEN C + length + 1 ELSE n
    <3>1. CASE t.some
      BY <1>1, <1>5, <3>1
    <3>2. CASE ~t.some
      <4>1. C + length = n /\ ~(C + length < n)
        BY <1>4, <1>5, <3>2
      <4> QED
        BY <1>1, <1>5, <3>2, <4>1
    <3> QED
      BY <3>1, <3>2
  <2> QED
    BY <1>6, <2>3, <2>4, <2>5 DEF p
<1> QED
  BY <1>1, <1>5, <1>8, <1>9, ItemStep DEF C

\* So does readLine, for a payload without length.
LEMMA LineStep ==
    ASSUME IInv, ReadLinePayload
    PROVE  IInv'
<1> DEFINE C    == Consumed(reader)
           n    == Len(body)
           e    == LineEnd(body, C + 1)
           item == [payload |-> [kind |-> "slice", at |-> Line.at, len |-> Line.len],
                    span |-> Span(Line.len)]
<1>1. /\ pc = "payload" /\ pc' = "item" /\ body' = body /\ length' = length
      /\ length = Implicit /\ Line.kind = "line"
      /\ reader' = Line.reader
      /\ items' = Append(items, item)
  BY DEF ReadLinePayload, AddItem
<1>2. body \in Seq(Bytes) /\ IsAhead(reader, body) /\ length \in Int \cup {Implicit}
  BY <1>1 DEF IInv, TypeOK
<1>3. C \in 0 .. n /\ n \in Nat
  BY <1>2, AheadFacts
<1>4. /\ IsAhead(Line.reader, body) /\ Line.at \in Nat /\ Line.len \in Nat
      /\ Line.len = e - (C + 1)
      /\ Consumed(Line.reader) = IF e <= n THEN e ELSE n
  BY <1>1, <1>2, LineIs
<1>5. e \in C + 1 .. n + 1 /\ (e <= n => body[e] = Newline)
  <2>1. C + 1 \in 1 .. n + 1
    BY <1>3
  <2> HIDE DEF C
  <2> QED
    BY <1>2, <2>1, LineEndIs
<1>6. item.span = [length |-> length, from |-> C + 1, to |-> C + Line.len]
  BY DEF Span
<1> HIDE DEF C, e
<1>7. C + Line.len = e - 1
  BY <1>3, <1>4, <1>5
<1>8. item \in Item /\ item.span.length = Implicit
  <2>1. [length |-> length, from |-> C + 1, to |-> C + Line.len] \in Announced
    BY <1>2, <1>3, <1>5, <1>7 DEF Announced
  <2>2. [kind |-> "slice", at |-> Line.at, len |-> Line.len] \in Kept
    BY <1>4 DEF Kept
  <2>3. item \in Item
    BY <1>6, <2>1, <2>2 DEF Item
  <2> QED
    BY <1>1, <1>6, <2>3
<1> HIDE DEF item
<1>9. ASSUME NEW i \in 1 .. Len(body), IsHeaderAt(body, i), length = LengthIn[body[i]],
             C + 1 = IF i = Len(body) THEN i + 1 ELSE i + 2
      PROVE  LET p == Payload(body, i, LineEnd(body, i))
             IN  /\ item.span = p /\ IsPayload(body, p)
                 /\ Consumed(reader') = IF p.to < Len(body) THEN p.to + 1 ELSE Len(body)
  <2> DEFINE p == Payload(body, i, LineEnd(body, i))
  <2>1. /\ p \in Announced /\ p.length = length /\ p.from = C + 1 /\ p.to = e - 1
    <3>1. i \in 1 .. Len(body) + 1 /\ IsHeader(SubSeq(body, i, LineEnd(body, i) - 1))
      BY <1>9 DEF IsHeaderAt
    <3> DEFINE from == IF i = Len(body) THEN i + 1 ELSE i + 2
    <3>2. /\ p \in Announced /\ p.length = LengthIn[body[i]] /\ p.from = from
          /\ p.to = IF p.length = Implicit THEN LineEnd(body, from) - 1 ELSE from + p.length - 1
      BY <1>2, <3>1, PayloadFacts
    <3>3. from = C + 1
      BY <1>9
    <3> HIDE DEF p, from
    <3> QED
      BY <1>1, <1>9, <3>2, <3>3 DEF e
  <2>2. p = [length |-> length, from |-> C + 1, to |-> C + Line.len]
    BY <1>7, <2>1 DEF Announced
  <2> HIDE DEF p
  <2>3. IsPayload(body, p)
    <3>1. p.from = C + 1 /\ p.to = e - 1
      BY <2>1
    <3>2. p.from - 1 <= p.to /\ p.to <= n /\ p.to + 1 = e
      BY <1>3, <1>5, <3>1
    <3>3. p.to < n => body[p.to + 1] = Newline
      BY <1>3, <1>5, <3>1, <3>2
    <3> QED
      BY <3>2, <3>3 DEF IsPayload
  <2>4. Consumed(reader') = IF p.to < n THEN p.to + 1 ELSE n
    <3>1. (p.to < n <=> e <= n) /\ p.to + 1 = e
      BY <1>3, <1>5, <2>1
    <3> QED
      BY <1>1, <1>4, <3>1
  <2> QED
    BY <1>6, <2>2, <2>3, <2>4 DEF p
<1> QED
  BY <1>1, <1>4, <1>8, <1>9, ItemStep DEF C

\* At the end of the body, or before one last newline, there is no item left.
LEMMA FinishStep ==
    ASSUME IInv, Finish
    PROVE  IInv'
<1> DEFINE C   == Consumed(reader)
           pos == C + 1
           n   == Len(body)
           e   == LineEnd(body, pos)
<1>1. /\ pc = "item" /\ AtEnd /\ pc' = "done" /\ body' = body /\ reader' = reader
      /\ length' = length /\ items' = items
  BY DEF Finish
<1>2. /\ body \in Seq(Bytes) /\ IsAhead(reader, body) /\ items \in Seq(Item)
      /\ GoOnAt(body, Spans, pos) /\ TypeOK
  BY <1>1 DEF IInv, TypeOK, OnTrack
<1>3. C \in 0 .. n /\ n \in Nat
  BY <1>2, AheadFacts
<1>4. /\ IsAhead(Line.reader, body)
      /\ Line.kind = "line" =>
           /\ Line.len = e - pos
           /\ Consumed(Line.reader) = IF e <= n THEN e ELSE n
           /\ e > n => Line.len > 0
      /\ Line.kind = "eof" => pos = n + 1
  BY <1>2, LineIs
<1>5. e \in pos .. n + 1 /\ (e <= n => body[e] = Newline)
  <2>1. pos \in 1 .. n + 1
    BY <1>3
  <2> HIDE DEF pos
  <2> QED
    BY <1>2, <2>1, LineEndIs
<1>6. pos > n \/ (pos = n /\ body[pos] = Newline)
  <2>1. CASE Line.kind = "eof"
    BY <1>3, <1>4, <2>1
  <2>2. CASE Line.kind # "eof"
    <3> DEFINE next == ReadSlice(Line.reader, body, Newline)
    <3>1. Line.kind = "line" /\ Line.len = 0 /\ next.end = "eof" /\ next.len = 0
      BY <1>1, <2>2 DEF AtEnd
    <3>2. e = pos /\ e <= n /\ body[pos] = Newline /\ Consumed(Line.reader) = e
      <4> HIDE DEF C, e, n
      <4>1. e - (C + 1) = 0 /\ ~(e > n)
        BY <1>4, <3>1
      <4>2. e \in Int /\ C \in Int /\ n \in Int
        BY <1>3, <1>5
      <4>3. e = C + 1 /\ e <= n
        BY <4>1, <4>2
      <4> QED
        BY <1>4, <1>5, <3>1, <4>3
    <3>3. IsLineOf(next, Line.reader, body)
      BY <1>2, <1>4, ReadSliceIsLine
    <3> HIDE DEF next
    <3>4. LineEnd(body, e + 1) = n + 1 /\ 0 = LineEnd(body, e + 1) - (e + 1)
      BY <3>1, <3>2, <3>3 DEF IsLineOf
    <3> HIDE DEF e, n, C
    <3>5. e \in Int /\ n \in Int
      BY <1>3, <1>5
    <3>6. e = n
      BY <3>4, <3>5
    <3> QED
      BY <3>2, <3>6
  <2> QED
    BY <2>1, <2>2
<1>7. Spans \in Readings(body)
  <2>1. ItemsAt(body)[pos] = {<< >>}
    <3>1. pos \in 1 .. n + 2
      BY <1>3
    <3> HIDE DEF pos
    <3> QED
      BY <1>2, <1>6, <3>1, ItemsAtEnd
  <2>2. Spans \o << >> = Spans
    BY <1>2, SpansFacts, ConcatEmptySeq
  <2> HIDE DEF pos
  <2>3. Spans \o << >> \in Readings(body)
    BY <1>2, <2>1 DEF GoOnAt
  <2> QED
    BY <2>2, <2>3
<1>8. Spans' = Spans
  BY <1>1 DEF Spans
<1>9. TypeOK' /\ CopiesAreExact' /\ items' \in Seq(Item)
  BY <1>1, <1>2 DEF TypeOK, IInv, CopiesAreExact
<1>10. OnTrack' /\ FramingIsExact' /\ RejectsOnlyUnreadable'
  BY <1>1, <1>7, <1>8 DEF OnTrack, FramingIsExact, RejectsOnlyUnreadable
<1> QED
  BY <1>1, <1>9, <1>10 DEF IInv

\* A reading that the parser may refuse.
Refusable(r) == ~Small(r) \/ LacksPayload(r) \/ Len(r) >= MaxEnvelopeItems

\* A body may be rejected when each of its readings may be refused.
LEMMA FailStep ==
    ASSUME IInv, Fail, \A r \in Readings(body) : Refusable(r)
    PROVE  IInv'
<1>1. /\ pc' = "failed" /\ body' = body /\ reader' = reader /\ length' = length /\ items' = items
  BY DEF Fail
<1>2. TypeOK' /\ CopiesAreExact' /\ items' \in Seq(Item)
  BY <1>1 DEF TypeOK, IInv, CopiesAreExact
<1>3. RejectsOnlyUnreadable'
  BY <1>1 DEF RejectsOnlyUnreadable, Refusable, Small, LacksPayload
<1>4. OnTrack' /\ FramingIsExact'
  BY <1>1 DEF OnTrack, FramingIsExact
<1> QED
  BY <1>1, <1>2, <1>3, <1>4 DEF IInv

\* Without a header line there is no reading.
LEMMA RejectHeaderStep ==
    ASSUME IInv, RejectEnvelopeHeader
    PROVE  IInv'
<1>1. pc = "header" /\ ~IsHeaderLine(Line) /\ Fail
  BY DEF RejectEnvelopeHeader
<1>2. body \in Seq(Bytes) /\ IsAhead(reader, body) /\ Consumed(reader) = 0
  BY <1>1 DEF IInv, TypeOK, OnTrack
<1>3. ~IsHeader(SubSeq(body, 1, LineEnd(body, 1) - 1))
  <2> DEFINE pos == Consumed(reader) + 1
  <2>1. pos = 1
    BY <1>2
  <2>2. ~IsHeader(SubSeq(body, pos, LineEnd(body, pos) - 1))
    BY <1>1, <1>2, HeaderLineIs
  <2> HIDE DEF pos
  <2> QED
    BY <2>1, <2>2
<1>4. Readings(body) = {}
  BY <1>3 DEF Readings
<1> QED
  BY <1>1, <1>4, FailStep

\* There are too many items, or no reading goes on here.
LEMMA RejectItemHeaderStep ==
    ASSUME IInv, RejectItemHeader
    PROVE  IInv'
<1> DEFINE C   == Consumed(reader)
           pos == C + 1
           n   == Len(body)
           e   == LineEnd(body, pos)
<1>1. pc = "item" /\ (TooManyItems \/ (~IsHeaderLine(Line) /\ ~AtEnd)) /\ Fail
  BY DEF RejectItemHeader
<1>2. /\ body \in Seq(Bytes) /\ IsAhead(reader, body) /\ items \in Seq(Item)
      /\ GoOnAt(body, Spans, pos)
  BY <1>1 DEF IInv, TypeOK, OnTrack
<1>3. C \in 0 .. n /\ n \in Nat
  BY <1>2, AheadFacts
<1>4. ASSUME TooManyItems, NEW r \in Readings(body)
      PROVE  Refusable(r)
  <2> DEFINE A == ItemsAt(body)[pos]
  <2>1. A \subseteq Seq(Announced)
    <3>1. pos \in 1 .. n + 2
      BY <1>3
    <3> HIDE DEF pos
    <3> QED
      BY <1>2, <3>1, ReadingsAreSequences
  <2>2. PICK rest \in A : r = Spans \o rest
    BY <1>2, <1>4 DEF GoOnAt
  <2>3. Spans \in Seq(Announced) /\ Len(Spans) = Len(items) /\ rest \in Seq(Announced)
    BY <1>2, <2>1, SpansFacts
  <2> HIDE DEF A
  <2>4. Len(r) = Len(Spans) + Len(rest)
    BY <2>2, <2>3, ConcatProperties
  <2>5. Len(items) \in Nat /\ Len(rest) \in Nat
    BY <1>2, <2>3
  <2>6. Len(items) >= MaxEnvelopeItems
    BY <1>4 DEF TooManyItems
  <2>7. Len(r) >= MaxEnvelopeItems
    BY <2>3, <2>4, <2>5, <2>6, ParserAssumption
  <2> QED
    BY <2>7 DEF Refusable
<1>5. ASSUME ~IsHeaderLine(Line), ~AtEnd
      PROVE  Readings(body) = {}
  <2>1. ~IsHeader(SubSeq(body, pos, e - 1))
    BY <1>2, <1>5, HeaderLineIs
  <2>2. /\ Line.kind \in {"line", "eof", "error"}
        /\ IsAhead(Line.reader, body) /\ Line.len \in Nat
        /\ Line.kind = "line" =>
             /\ Line.len = e - pos
             /\ Consumed(Line.reader) = IF e <= n THEN e ELSE n
             /\ e > n => Line.len > 0
        /\ Line.kind = "error" => e - pos >= BufferSize
    BY <1>2, LineIs
  <2>3. /\ e \in pos .. n + 1 /\ (e <= n => body[e] = Newline)
        /\ \A j \in pos .. e - 1 : body[j] # Newline
    <3>1. pos \in 1 .. n + 1
      BY <1>3
    <3> HIDE DEF pos
    <3> QED
      BY <1>2, <3>1, LineEndIs
  <2>4. Line.kind # "eof"
    BY <1>5 DEF AtEnd
  <2>5. pos <= n
    <3> SUFFICES ASSUME pos > n PROVE FALSE
      BY <1>3
    <3> HIDE DEF e, C, n
    <3>1. pos = n + 1 /\ e = n + 1 /\ e - pos = 0
      BY <1>3, <2>3
    <3>2. Line.kind = "line"
      BY <2>2, <2>4, <3>1, BufferAssumption
    <3>3. e > n
      BY <1>3, <3>1
    <3> QED
      BY <2>2, <3>1, <3>2, <3>3
  <2>6. ~(pos = n /\ body[pos] = Newline)
    <3> SUFFICES ASSUME pos = n, body[pos] = Newline PROVE FALSE
      OBVIOUS
    <3>1. e = n
      <4>1. ~(pos <= e - 1)
        <5> SUFFICES ASSUME pos <= e - 1 PROVE FALSE
          OBVIOUS
        <5>1. pos \in pos .. e - 1
          BY <1>3, <2>3
        <5> QED
          BY <2>3, <5>1
      <4> HIDE DEF e, C, n
      <4> QED
        BY <1>3, <2>3, <4>1
    <3>2. e - pos = 0 /\ e <= n
      BY <1>3, <3>1
    <3>3. Line.kind = "line" /\ Line.len = 0 /\ Consumed(Line.reader) = n
      BY <2>2, <2>4, <3>1, <3>2, BufferAssumption
    <3> DEFINE next == ReadSlice(Line.reader, body, Newline)
    <3>4. IsLineOf(next, Line.reader, body)
      BY <1>2, <2>2, ReadSliceIsLine
    <3>5. LineEnd(body, n + 1) = n + 1
      <4>1. n + 1 \in 1 .. Len(body) + 1
        BY <1>3
      <4>2. LineEnd(body, n + 1) \in n + 1 .. n + 1
        BY <1>2, <4>1, LineEndIs
      <4> QED
        BY <1>3, <4>2
    <3> HIDE DEF next
    <3>6. /\ next.end \in {"delim", "eof", "full"}
          /\ next.end = "delim" => n + 1 <= n
          /\ next.end = "eof" => next.len = (n + 1) - (n + 1)
          /\ next.end = "full" => (n + 1) - (n + 1) >= BufferSize
      BY <3>3, <3>4, <3>5 DEF IsLineOf
    <3>7. next.end = "eof" /\ next.len = 0
      <4> HIDE DEF n
      <4> QED
        BY <1>3, <3>6, BufferAssumption
    <3> QED
      BY <1>5, <3>3, <3>7 DEF AtEnd, next
  <2>7. ItemsAt(body)[pos] = {}
    <3>1. pos \in 1 .. n
      BY <1>3, <2>5
    <3> HIDE DEF pos
    <3> QED
      BY <1>2, <2>1, <2>6, <3>1, ItemsAtItem
  <2> HIDE DEF pos
  <2> QED
    BY <1>2, <2>7 DEF GoOnAt
<1> QED
  BY <1>1, <1>4, <1>5, FailStep

\* A reading goes on with the payload at i.
LEMMA ReadingHasItem ==
    ASSUME NEW b \in Seq(Bytes), NEW S \in Seq(Announced), NEW i, IsHeaderAt(b, i), GoOnAt(b, S, i),
           NEW r \in Readings(b), NEW p, p = Payload(b, i, LineEnd(b, i))
    PROVE  IsPayload(b, p) /\ \E k \in DOMAIN r : r[k] = p
<1> DEFINE A == ItemsAt(b)[p.to + 2]
<1>1. i \in 1 .. Len(b) /\ IsHeader(SubSeq(b, i, LineEnd(b, i) - 1))
      /\ b[i] # Newline /\ i \in 1 .. Len(b) + 1
  <2>1. i \in 1 .. Len(b) /\ IsHeader(SubSeq(b, i, LineEnd(b, i) - 1))
    BY DEF IsHeaderAt
  <2>2. i \in 1 .. Len(b) + 1
    BY <2>1
  <2> QED
    BY <2>1, <2>2, HeaderFacts
<1>2. PICK rest \in ItemsAt(b)[i] : r = S \o rest
  BY DEF GoOnAt
<1>3. IsPayload(b, p) /\ ItemsAt(b)[i] = {<<p>> \o x : x \in A}
  BY <1>1, <1>2, ItemsAtItem
<1>4. p \in Announced /\ p.to + 2 \in i + 1 .. Len(b) + 2
  BY <1>1, <1>3, PayloadFacts
<1>5. A \subseteq Seq(Announced)
  <2>1. p.to + 2 \in 1 .. Len(b) + 2
    BY <1>1, <1>4
  <2> QED
    BY <2>1, ReadingsAreSequences
<1> HIDE DEF A
<1>6. PICK x \in A : rest = <<p>> \o x
  BY <1>2, <1>3
<1>7. <<p>> \in Seq(Announced) /\ Len(<<p>>) = 1 /\ <<p>>[1] = p /\ x \in Seq(Announced)
  BY <1>4, <1>5
<1>8. rest \in Seq(Announced) /\ Len(rest) = 1 + Len(x) /\ Len(x) \in Nat /\ rest[1] = p
  <2>1. rest \in Seq(Announced) /\ Len(rest) = 1 + Len(x) /\ Len(x) \in Nat
        /\ \A j \in 1 .. 1 + Len(x) : rest[j] = IF j <= 1 THEN <<p>>[j] ELSE x[j - 1]
    BY <1>6, <1>7, ConcatProperties
  <2>2. 1 \in 1 .. 1 + Len(x)
    BY <2>1
  <2> QED
    BY <1>7, <2>1, <2>2
<1> DEFINE k == Len(S) + 1
<1>9. r \in Seq(Announced) /\ Len(r) = Len(S) + Len(rest) /\ Len(S) \in Nat
      /\ \A j \in 1 .. Len(S) + Len(rest) : r[j] = IF j <= Len(S) THEN S[j] ELSE rest[j - Len(S)]
  <2>1. rest \in Seq(Announced)
    BY <1>8
  <2>2. /\ S \o rest \in Seq(Announced) /\ Len(S \o rest) = Len(S) + Len(rest)
        /\ \A j \in 1 .. Len(S) + Len(rest) :
              (S \o rest)[j] = IF j <= Len(S) THEN S[j] ELSE rest[j - Len(S)]
    BY <2>1, ConcatProperties
  <2>3. Len(S) \in Nat
    BY LenProperties
  <2> QED
    BY <1>2, <2>2, <2>3
<1>10. k \in 1 .. Len(S) + Len(rest) /\ ~(k <= Len(S)) /\ k - Len(S) = 1
  BY <1>8, <1>9
<1>11. k \in DOMAIN r /\ r[k] = p
  BY <1>8, <1>9, <1>10
<1> QED
  BY <1>3, <1>11

\* The payload is missing, too large, or not one the grammar allows.
LEMMA RejectPayloadStep ==
    ASSUME IInv, RejectPayload
    PROVE  IInv'
<1> DEFINE C == Consumed(reader)
           n == Len(body)
           e == LineEnd(body, C + 1)
<1>1. /\ pc = "payload" /\ Fail
      /\ IF length = Implicit THEN ~(Line.kind = "line" /\ Line.len <= MaxItemBytes) ELSE ~IsCounted
  BY DEF RejectPayload
<1>2. /\ body \in Seq(Bytes) /\ IsAhead(reader, body) /\ items \in Seq(Item)
      /\ length \in Int \cup {Implicit}
  BY DEF IInv, TypeOK
<1>3. PICK i \in 1 .. n :
        /\ IsHeaderAt(body, i) /\ GoOnAt(body, Spans, i)
        /\ length = LengthIn[body[i]]
        /\ C + 1 = IF i = n THEN i + 1 ELSE i + 2
  BY <1>1 DEF IInv, OnTrack
<1> DEFINE p == Payload(body, i, LineEnd(body, i))
<1>4. C \in 0 .. n /\ n \in Nat
  BY <1>2, AheadFacts
<1>5. /\ p \in Announced /\ p.length = length /\ p.from = C + 1
      /\ p.to = IF length = Implicit THEN e - 1 ELSE C + length
  <2>1. i \in 1 .. Len(body) + 1 /\ IsHeader(SubSeq(body, i, LineEnd(body, i) - 1))
    BY <1>3 DEF IsHeaderAt
  <2> DEFINE from == IF i = Len(body) THEN i + 1 ELSE i + 2
  <2>2. /\ p \in Announced /\ p.length = LengthIn[body[i]] /\ p.from = from
        /\ p.to = IF p.length = Implicit THEN LineEnd(body, from) - 1 ELSE from + p.length - 1
    BY <1>2, <2>1, PayloadFacts
  <2>3. from = C + 1
    BY <1>3
  <2>4. length # Implicit => C + 1 + length - 1 = C + length
    BY <1>2, <1>4
  <2> HIDE DEF p, from, C, n
  <2> QED
    BY <1>3, <2>2, <2>3, <2>4 DEF e
<1>6. e \in C + 1 .. n + 1
  <2>1. C + 1 \in 1 .. n + 1
    BY <1>4
  <2> HIDE DEF C
  <2> QED
    BY <1>2, <2>1, LineEndIs
<1>7. ASSUME NEW r \in Readings(body)
      PROVE  IsPayload(body, p) /\ \E k \in DOMAIN r : r[k] = p
  BY <1>2, <1>3, SpansFacts, ReadingHasItem
<1>8. /\ Line.kind \in {"line", "eof", "error"} /\ Line.len \in Nat
      /\ Line.kind = "line" => Line.len = e - (C + 1)
      /\ Line.kind = "eof" => C + 1 = n + 1
      /\ Line.kind = "error" => e - (C + 1) >= BufferSize
  BY <1>2, LineIs
<1> HIDE DEF p
<1>9. ASSUME length = Implicit, NEW r \in Readings(body)
      PROVE  Refusable(r)
  <2>1. PICK k \in DOMAIN r : r[k] = p
    BY <1>7
  <2>2. r[k].length = Implicit /\ r[k].from = C + 1 /\ r[k].to = e - 1
    BY <1>5, <1>9, <2>1
  <2> DEFINE size == e - (C + 1)
             most == Min({BufferSize - 1, MaxItemBytes})
  <2>3. r[k].to - r[k].from + 1 = size /\ size \in Nat
    BY <1>4, <1>6, <2>2
  <2>4. most = IF BufferSize - 1 <= MaxItemBytes THEN BufferSize - 1 ELSE MaxItemBytes
    <3> DEFINE b == BufferSize - 1
    <3>1. b \in Int /\ MaxItemBytes \in Int
      BY BufferAssumption, ParserAssumption
    <3> HIDE DEF b
    <3>2. Min({b, MaxItemBytes}) = IF b <= MaxItemBytes THEN b ELSE MaxItemBytes
      BY <3>1, MinOfTwo
    <3> QED
      BY <3>2 DEF b
  <2> HIDE DEF most, size
  <2>5. Line.kind = "eof" => LacksPayload(r)
    <3> SUFFICES ASSUME Line.kind = "eof" PROVE LacksPayload(r)
      OBVIOUS
    <3>1. r[k].from > Len(body)
      BY <1>4, <1>8, <2>2
    <3> QED
      BY <2>2, <3>1 DEF LacksPayload
  <2>6. Line.kind # "eof" => ~Small(r)
    <3> SUFFICES ASSUME Line.kind # "eof" PROVE ~(size <= most)
      BY <2>2, <2>3 DEF Small, most
    <3>1. CASE Line.kind = "line"
      <4>1. size > MaxItemBytes
        BY <1>1, <1>8, <1>9, <2>3, <3>1, ParserAssumption DEF size
      <4> QED
        BY <2>3, <2>4, <4>1, ParserAssumption, BufferAssumption
    <3>2. CASE Line.kind = "error"
      <4>1. size >= BufferSize
        BY <1>8, <3>2 DEF size
      <4> QED
        BY <2>3, <2>4, <4>1, ParserAssumption, BufferAssumption
    <3> QED
      BY <1>8, <3>1, <3>2
  <2> QED
    BY <2>5, <2>6 DEF Refusable
<1>10. ASSUME length # Implicit, NEW r \in Readings(body)
       PROVE  Refusable(r)
  <2>1. PICK k \in DOMAIN r : r[k] = p
    BY <1>7
  <2>2. r[k].length = length /\ r[k].from = C + 1 /\ r[k].to = C + length /\ length \in Int
    BY <1>2, <1>5, <1>10, <2>1
  <2>3. /\ (C + 1) - 1 <= C + length /\ C + length <= n
        /\ C + length < n => body[C + length + 1] = Newline
    <3>1. IsPayload(body, p)
      BY <1>7
    <3> QED
      BY <1>5, <1>10, <3>1 DEF IsPayload
  <2>4. length \in Nat /\ CanReadFull(reader, body, length)
    <3>1. length \in Nat /\ length <= n - C
      BY <1>4, <2>2, <2>3
    <3> QED
      BY <3>1 DEF CanReadFull
  <2>5. length > MaxItemBytes
    <3> SUFFICES ASSUME length <= MaxItemBytes PROVE IsCounted
      BY <1>1, <1>10, <2>4, ParserAssumption
    <3>1. Counted
      BY <1>10, <2>4 DEF Counted
    <3> DEFINE s == ReadFull(reader, body, length)
               t == ReadByte(s.reader, body)
    <3>2. IsAhead(s.reader, body) /\ Consumed(s.reader) = C + length
      BY <1>2, <2>4, ReadFullIsNext
    <3> HIDE DEF s
    <3>3. t.some => C + length < n /\ t.byte = body[C + length + 1]
      BY <1>2, <3>2, ReadByteIsNext
    <3> QED
      BY <2>3, <2>4, <3>1, <3>3 DEF IsCounted, AfterCounted, s
  <2>6. (C + length) - (C + 1) + 1 = length
    BY <1>4, <2>2
  <2>7. ~Small(r)
    <3>1. ~(length <= MaxItemBytes)
      BY <2>4, <2>5, ParserAssumption
    <3> QED
      BY <1>10, <2>2, <2>6, <3>1 DEF Small
  <2> QED
    BY <2>7 DEF Refusable
<1> QED
  BY <1>1, <1>9, <1>10, FailStep

\* Every step keeps the invariant.
LEMMA StepInvariant == IInv /\ [Next]_vars => IInv'
<1> SUFFICES ASSUME IInv, [Next]_vars PROVE IInv'
  OBVIOUS
<1>1. CASE ReadEnvelopeHeader
  BY <1>1, HeaderStep
<1>2. CASE RejectEnvelopeHeader
  BY <1>2, RejectHeaderStep
<1>3. CASE ReadItemHeader
  BY <1>3, ItemHeaderStep
<1>4. CASE RejectItemHeader
  BY <1>4, RejectItemHeaderStep
<1>5. CASE Finish
  BY <1>5, FinishStep
<1>6. CASE ReadCountedPayload
  BY <1>6, CountedStep
<1>7. CASE ReadLinePayload
  BY <1>7, LineStep
<1>8. CASE RejectPayload
  BY <1>8, RejectPayloadStep
<1>9. CASE UNCHANGED vars
  <2>1. body' = body /\ reader' = reader /\ pc' = pc /\ length' = length /\ items' = items
    BY <1>9 DEF vars
  <2>2. TypeOK' /\ CopiesAreExact' /\ items' \in Seq(Item) /\ Spans' = Spans
    BY <2>1 DEF IInv, TypeOK, CopiesAreExact, Spans
  <2>3. OnTrack'
    BY <2>1, <2>2 DEF IInv, OnTrack
  <2>4. FramingIsExact' /\ RejectsOnlyUnreadable'
    BY <2>1, <2>2 DEF IInv, FramingIsExact, RejectsOnlyUnreadable, Small, LacksPayload
  <2> QED
    BY <2>1, <2>2, <2>3, <2>4 DEF IInv
<1> QED
  BY <1>1, <1>2, <1>3, <1>4, <1>5, <1>6, <1>7, <1>8, <1>9 DEF Next

\* It holds in every reachable state.
LEMMA Invariant == Spec => []IInv
<1>1. Init => IInv
  BY InitInvariant
<1>2. IInv /\ [Next]_vars => IInv'
  BY StepInvariant
<1> QED
  BY <1>1, <1>2, PTL DEF Spec

-----------------------------------------------------------------------------
(* The reader is at all times ahead of what was consumed, by exactly the   *)
(* bytes that come next: no refill loses or repeats one.                   *)
THEOREM TypeCorrect == Spec => []TypeOK
<1>1. IInv => TypeOK
  BY DEF IInv
<1> QED
  BY <1>1, Invariant, PTL

(* An accepted body is split where the grammar splits it, for every size   *)
(* of the buffer: ParseEnvelope never approximates.                        *)
THEOREM FramedExactly == Spec => []FramingIsExact
<1>1. IInv => FramingIsExact
  BY DEF IInv
<1> QED
  BY <1>1, Invariant, PTL

(* A body that is rejected has no reading within the limits, but for the   *)
(* two corner cases: ParseEnvelope loses nothing readable.                 *)
THEOREM RejectedJustly == Spec => []RejectsOnlyUnreadable
<1>1. IInv => RejectsOnlyUnreadable
  BY DEF IInv
<1> QED
  BY <1>1, Invariant, PTL

(* A payload with a `length` stays what was announced, whatever is read    *)
(* after it.                                                               *)
THEOREM CountedExactly == Spec => []CountedPayloadsAreExact
<1>1. IInv => CountedPayloadsAreExact
  BY DEF IInv, CopiesAreExact, IsExactCopy, CountedPayloadsAreExact, Exact, BytesOf
<1> QED
  BY <1>1, Invariant, PTL
=============================================================================
