--------------------------- MODULE GroupingProofs ---------------------------
(***************************************************************************)
(* Machine-checked proofs about IssueId: which events get the same issue   *)
(* id, for texts of any length.                                            *)
(***************************************************************************)
EXTENDS IssueId, SequenceTheorems, FiniteSetTheorems, PositionProofs

-----------------------------------------------------------------------------
(* Trimming and lowering.                                                  *)

\* A text in which no word is the separator.
Unseparated(text) == text \in Text /\ IsPlainText(text)

\* Normalizing a text makes a text, and no separator.
LEMMA NormalizeUnseparated ==
    ASSUME NEW text, Unseparated(text)
    PROVE  Unseparated(Normalize(text))
<1> DEFINE solid == {i \in DOMAIN text : text[i] # Blank}
           trimmed == TrimSpace(text)
<1>1. Unseparated(trimmed)
  <2>1. CASE solid = {}
    BY <2>1 DEF TrimSpace, Unseparated, IsPlainText, Text
  <2>2. CASE solid # {}
    <3>1. DOMAIN text = 1 .. Len(text) /\ Len(text) \in Nat
      BY DEF Unseparated, IsPlainText, Text
    <3>2. Min(solid) \in 1 .. Len(text) /\ Max(solid) \in 1 .. Len(text)
      <4>1. solid \in SUBSET Nat /\ solid \in SUBSET (1 .. Len(text))
        BY <3>1
      <4> QED
        BY <2>2, <3>1, <4>1, MinOfPositions, MaxOfPositions
    <3> DEFINE m == Min(solid)
               n == Max(solid)
    <3>3. trimmed = SubSeq(text, m, n)
      BY <2>2 DEF TrimSpace
    <3> HIDE DEF m, n, trimmed, solid
    <3>4. SubSeq(text, m, n) \in Seq(Words)
      BY <3>2 DEF Unseparated, IsPlainText, Text, m, n
    <3>5. \A i \in DOMAIN SubSeq(text, m, n) : SubSeq(text, m, n)[i] = text[i + m - 1] /\ i + m - 1 \in DOMAIN text
      BY <3>1, <3>2 DEF Unseparated, IsPlainText, Text, m, n
    <3> QED
      BY <3>3, <3>4, <3>5 DEF Unseparated, IsPlainText, Text
  <2> QED
    BY <2>1, <2>2
<1>2. Normalize(text) = [i \in DOMAIN trimmed |-> Lower(trimmed[i])]
  BY DEF Normalize
<1> HIDE DEF trimmed
<1>3. DOMAIN trimmed = 1 .. Len(trimmed) /\ Len(trimmed) \in Nat
  BY <1>1 DEF Unseparated, IsPlainText, Text
<1>4. \A i \in DOMAIN trimmed : Lower(trimmed[i]) \in Words /\ Lower(trimmed[i]) # Separator
  <2>1. \A word \in Words : word # Separator => Lower(word) \in Words /\ Lower(word) # Separator
    BY WordsAssumption DEF Lower, Separator
  <2>2. \A i \in DOMAIN trimmed : trimmed[i] \in Words /\ trimmed[i] # Separator
    BY <1>1, <1>3 DEF Unseparated, IsPlainText, Text
  <2> QED
    BY <2>1, <2>2
<1>5. Normalize(text) \in [1 .. Len(trimmed) -> Words]
  BY <1>2, <1>3, <1>4
<1>6. Normalize(text) \in Seq(Words)
  BY <1>3, <1>5, SeqDef
<1> QED
  BY <1>2, <1>4, <1>6 DEF Unseparated, IsPlainText, Text

-----------------------------------------------------------------------------
(* Fields.                                                                 *)

\* What is hashed.
Hashed == Seq(Words \cup Int)

\* A text, the separator, and the rest.
Join(a, r) == Append(a, Separator) \o r

IsJoin(t, a, r) ==
    /\ t \in Hashed
    /\ Len(t) = Len(a) + 1 + Len(r)
    /\ \A i \in 1 .. Len(a) : t[i] = a[i] /\ t[i] # Separator
    /\ t[Len(a) + 1] = Separator
    /\ \A i \in 1 .. Len(r) : t[Len(a) + 1 + i] = r[i]

LEMMA JoinFacts ==
    ASSUME NEW a, Unseparated(a), NEW r \in Hashed
    PROVE  IsJoin(Join(a, r), a, r)
<1> DEFINE f == Append(a, Separator)
<1>1. a \in Hashed /\ Separator \in Words \cup Int
  <2>1. a \in Seq(Words) /\ Words \subseteq Words \cup Int
    BY DEF Unseparated, IsPlainText, Text
  <2> QED
    BY <2>1, SeqMonotonic, WordsAssumption DEF Hashed
<1>2. /\ f \in Hashed /\ Len(f) = Len(a) + 1
      /\ \A i \in 1 .. Len(a) : f[i] = a[i]
      /\ f[Len(a) + 1] = Separator
  BY <1>1, AppendProperties DEF Hashed
<1>3. Len(a) \in Nat /\ Len(r) \in Nat /\ \A i \in 1 .. Len(a) : a[i] # Separator
  BY DEF Unseparated, IsPlainText, Text, Hashed
<1> HIDE DEF f
<1>4. /\ f \o r \in Hashed
      /\ Len(f \o r) = Len(f) + Len(r)
      /\ \A i \in 1 .. Len(f) + Len(r) : (f \o r)[i] = IF i <= Len(f) THEN f[i] ELSE r[i - Len(f)]
  BY <1>2, ConcatProperties DEF Hashed
<1> QED
  BY <1>2, <1>3, <1>4 DEF f, Join, IsJoin

\* A field ends at the first separator: equal texts have equal first fields
\* and equal rests.
LEMMA FirstField ==
    ASSUME NEW a, NEW b, Unseparated(a), Unseparated(b),
           NEW r \in Hashed, NEW s \in Hashed,
           Join(a, r) = Join(b, s)
    PROVE  a = b /\ r = s
<1> DEFINE t == Join(a, r)
           u == Join(b, s)
<1>1. IsJoin(t, a, r)
  BY JoinFacts
<1>2. IsJoin(u, b, s)
  BY JoinFacts
<1>3. t = u
  OBVIOUS
<1>4. a \in Seq(Words) /\ b \in Seq(Words) /\ Len(a) \in Nat /\ Len(b) \in Nat
      /\ Len(r) \in Nat /\ Len(s) \in Nat
  BY DEF Unseparated, IsPlainText, Text, Hashed
<1> HIDE DEF t, u
<1>5. Len(a) = Len(b)
  <2>1. ~(Len(a) < Len(b))
    BY <1>1, <1>2, <1>3, <1>4 DEF IsJoin
  <2>2. ~(Len(b) < Len(a))
    BY <1>1, <1>2, <1>3, <1>4 DEF IsJoin
  <2> QED
    BY <2>1, <2>2, <1>4
<1>6. a = b
  <2>1. \A i \in 1 .. Len(a) : a[i] = b[i]
    BY <1>1, <1>2, <1>3, <1>5 DEF IsJoin
  <2> QED
    BY <2>1, <1>4, <1>5, SeqEqual
<1>7. r = s
  <2>1. Len(r) = Len(s) /\ \A i \in 1 .. Len(r) : r[i] = s[i]
    BY <1>1, <1>2, <1>3, <1>4, <1>5 DEF IsJoin
  <2> QED
    BY <2>1, SeqEqual DEF Hashed
<1> QED
  BY <1>6, <1>7

\* What Field writes before the rest, of two texts.
LEMMA SameFields ==
    ASSUME NEW a, NEW b, Unseparated(a), Unseparated(b), NEW r \in Hashed, NEW s \in Hashed
    PROVE  Join(Normalize(a), r) = Join(Normalize(b), s) <=> Normalize(a) = Normalize(b) /\ r = s
<1>1. Unseparated(Normalize(a)) /\ Unseparated(Normalize(b))
  BY NormalizeUnseparated
<1> QED
  BY <1>1, FirstField

\* A field and what follows it.
LEMMA FieldJoin ==
    ASSUME NEW a, Unseparated(a)
    PROVE  /\ Field(a) \in Hashed
           /\ \A r : Field(a) \o r = Join(Normalize(a), r)
           /\ \A r \in Hashed : Join(Normalize(a), r) \in Hashed
<1>1. Unseparated(Normalize(a)) /\ Field(a) = Append(Normalize(a), Separator)
  BY NormalizeUnseparated DEF Field
<1>2. Field(a) \in Hashed
  <2>1. Normalize(a) \in Seq(Words) /\ Words \subseteq Words \cup Int
    BY <1>1 DEF Unseparated, Text
  <2>2. Normalize(a) \in Hashed /\ Separator \in Words \cup Int
    BY <2>1, SeqMonotonic, WordsAssumption DEF Hashed
  <2> QED
    BY <1>1, <2>2, AppendProperties DEF Hashed
<1>3. \A r \in Hashed : Join(Normalize(a), r) \in Hashed
  BY <1>1, JoinFacts DEF IsJoin
<1> QED
  BY <1>1, <1>2, <1>3 DEF Join

-----------------------------------------------------------------------------
(* Frames, exceptions and events.                                          *)

PlainFrame(f) == Unseparated(f.file) /\ Unseparated(f.function) /\ f.line \in Int

PlainException(x) ==
    /\ Unseparated(x.type) /\ Unseparated(x.value)
    /\ x.frames # << >> => PlainFrame(Head(x.frames))

PlainEvent(e) ==
    /\ Unseparated(e.platform) /\ Unseparated(e.message)
    /\ e.exceptions # << >> => PlainException(Head(e.exceptions))

\* Of the parts that are read, IsPlain says what it says of all.
LEMMA PlainParts ==
    ASSUME NEW e \in Event, IsPlain(e)
    PROVE  PlainEvent(e)
<1>1. e.platform \in Text /\ e.message \in Text /\ e.exceptions \in Seq(Exception)
  BY DEF Event
<1>2. Unseparated(e.platform) /\ Unseparated(e.message)
  BY <1>1 DEF IsPlain, Unseparated
<1>3. ASSUME e.exceptions # << >> PROVE PlainException(Head(e.exceptions))
  <2> DEFINE x == Head(e.exceptions)
  <2>1. 1 \in DOMAIN e.exceptions /\ x = e.exceptions[1] /\ x \in Exception
    BY <1>1, <1>3
  <2>2. x.type \in Text /\ x.value \in Text /\ x.frames \in Seq(Frame)
    BY <2>1 DEF Exception
  <2>3. /\ IsPlainText(x.type) /\ IsPlainText(x.value)
        /\ \A j \in DOMAIN x.frames : IsPlainText(x.frames[j].file) /\ IsPlainText(x.frames[j].function)
    BY <2>1 DEF IsPlain
  <2> HIDE DEF x
  <2>4. ASSUME x.frames # << >> PROVE PlainFrame(Head(x.frames))
    <3>1. 1 \in DOMAIN x.frames /\ Head(x.frames) = x.frames[1] /\ Head(x.frames) \in Frame
      BY <2>2, <2>4
    <3> QED
      BY <2>3, <3>1 DEF PlainFrame, Frame, Unseparated
  <2> QED
    BY <2>2, <2>3, <2>4 DEF PlainException, Unseparated, x
<1> QED
  BY <1>2, <1>3 DEF PlainEvent

\* What follows the file.
FrameRest(f) == Join(Normalize(f.function), <<f.line>>)

LEMMA FrameTextParts ==
    ASSUME NEW f, PlainFrame(f)
    PROVE  /\ <<f.line>> \in Hashed
           /\ FrameRest(f) \in Hashed
           /\ FrameText(f) = Join(Normalize(f.file), FrameRest(f))
           /\ FrameText(f) \in Hashed
<1> DEFINE g == Field(f.file)
           h == Field(f.function)
<1>1. f.line \in Words \cup Int /\ <<f.line>> \in Hashed
  BY DEF PlainFrame, Hashed
<1>2. Unseparated(f.file) /\ Unseparated(f.function)
  BY DEF PlainFrame
<1>3. g \in Hashed /\ h \in Hashed
  BY <1>2, FieldJoin
<1>4. FrameText(f) = Append(g \o h, f.line)
  BY DEF FrameText
<1>5. h \o <<f.line>> = FrameRest(f) /\ FrameRest(f) \in Hashed
  BY <1>1, <1>2, FieldJoin DEF FrameRest
<1>6. g \o FrameRest(f) = Join(Normalize(f.file), FrameRest(f))
  BY <1>2, FieldJoin
<1>7. Join(Normalize(f.file), FrameRest(f)) \in Hashed
  BY <1>2, <1>5, FieldJoin
<1> HIDE DEF g, h
<1>8. g \o h \in Hashed
  BY <1>3, ConcatProperties DEF Hashed
<1>9. Append(g \o h, f.line) = (g \o h) \o <<f.line>>
  BY <1>1, <1>8, AppendIsConcat DEF Hashed
<1>10. (g \o h) \o <<f.line>> = g \o (h \o <<f.line>>)
  BY <1>1, <1>3, ConcatAssociative DEF Hashed
<1> QED
  BY <1>1, <1>4, <1>5, <1>6, <1>7, <1>9, <1>10

LEMMA SameFrames ==
    ASSUME NEW f, NEW g, PlainFrame(f), PlainFrame(g)
    PROVE  FrameText(f) = FrameText(g) <=> AlikeFrames(f, g)
<1>1. Unseparated(f.file) /\ Unseparated(f.function) /\ Unseparated(g.file) /\ Unseparated(g.function)
  BY DEF PlainFrame
<1>2. FrameText(f) = FrameText(g) <=> Normalize(f.file) = Normalize(g.file) /\ FrameRest(f) = FrameRest(g)
  <2>1. /\ FrameRest(f) \in Hashed /\ FrameText(f) = Join(Normalize(f.file), FrameRest(f))
        /\ FrameRest(g) \in Hashed /\ FrameText(g) = Join(Normalize(g.file), FrameRest(g))
    BY FrameTextParts
  <2>2. Join(Normalize(f.file), FrameRest(f)) = Join(Normalize(g.file), FrameRest(g)) <=>
          Normalize(f.file) = Normalize(g.file) /\ FrameRest(f) = FrameRest(g)
    BY <1>1, <2>1, SameFields
  <2> QED
    BY <2>1, <2>2
<1>3. FrameRest(f) = FrameRest(g) <=>
        Normalize(f.function) = Normalize(g.function) /\ <<f.line>> = <<g.line>>
  BY <1>1, FrameTextParts, SameFields DEF FrameRest
<1>4. <<f.line>> = <<g.line>> <=> f.line = g.line
  OBVIOUS
<1> QED
  BY <1>2, <1>3, <1>4 DEF AlikeFrames

\* What follows an exception's value, and what follows its type.
FramesText(x) == IF x.frames = << >> THEN << >> ELSE FrameText(Head(x.frames))

ExceptionRest(x) == Join(Normalize(x.value), FramesText(x))

LEMMA ExceptionTextParts ==
    ASSUME NEW x, PlainException(x)
    PROVE  /\ FramesText(x) \in Hashed
           /\ ExceptionRest(x) \in Hashed
           /\ ExceptionText(x) = Join(Normalize(x.type), ExceptionRest(x))
           /\ ExceptionText(x) \in Hashed
<1> DEFINE g == Field(x.type)
           h == Field(x.value)
           r == FramesText(x)
<1>1. Unseparated(x.type) /\ Unseparated(x.value)
  BY DEF PlainException
<1>2. r \in Hashed
  <2>1. CASE x.frames = << >>
    BY <2>1, EmptySeq DEF FramesText, Hashed
  <2>2. CASE x.frames # << >>
    BY <2>2, FrameTextParts DEF FramesText, PlainException
  <2> QED
    BY <2>1, <2>2
<1>3. g \in Hashed /\ h \in Hashed
  BY <1>1, FieldJoin
<1>4. ExceptionText(x) = (g \o h) \o r
  BY DEF ExceptionText, FramesText
<1>5. h \o r = ExceptionRest(x) /\ ExceptionRest(x) \in Hashed
  BY <1>1, <1>2, FieldJoin DEF ExceptionRest
<1>6. g \o ExceptionRest(x) = Join(Normalize(x.type), ExceptionRest(x))
  BY <1>1, FieldJoin
<1>7. Join(Normalize(x.type), ExceptionRest(x)) \in Hashed
  BY <1>1, <1>5, FieldJoin
<1> HIDE DEF g, h, r
<1>8. (g \o h) \o r = g \o (h \o r)
  BY <1>2, <1>3, ConcatAssociative DEF Hashed
<1> QED
  BY <1>2, <1>4, <1>5, <1>6, <1>7, <1>8 DEF r

\* A frame is never the absence of one.
LEMMA SameFramesText ==
    ASSUME NEW x, NEW y, PlainException(x), PlainException(y)
    PROVE  FramesText(x) = FramesText(y) <=>
             /\ (x.frames = << >>) <=> (y.frames = << >>)
             /\ x.frames # << >> => AlikeFrames(Head(x.frames), Head(y.frames))
<1>1. ASSUME NEW z, PlainException(z), z.frames # << >>
      PROVE  PlainFrame(Head(z.frames)) /\ FramesText(z) = FrameText(Head(z.frames)) /\ FramesText(z) # << >>
  <2> DEFINE f == Head(z.frames)
  <2>1. PlainFrame(f) /\ FramesText(z) = FrameText(f)
    BY <1>1 DEF PlainException, FramesText
  <2>2. FrameRest(f) \in Hashed /\ FrameText(f) = Join(Normalize(f.file), FrameRest(f))
    BY <2>1, FrameTextParts
  <2>3. Unseparated(Normalize(f.file))
    BY <2>1, NormalizeUnseparated DEF PlainFrame
  <2> HIDE DEF f
  <2>4. IsJoin(FrameText(f), Normalize(f.file), FrameRest(f))
    BY <2>2, <2>3, JoinFacts
  <2>5. Len(Normalize(f.file)) \in Nat /\ Len(FrameRest(f)) \in Nat
    BY <2>2, <2>3 DEF Unseparated, Text, Hashed
  <2>6. Len(FrameText(f)) > 0
    BY <2>4, <2>5 DEF IsJoin
  <2>7. FrameText(f) # << >>
    BY <2>6, EmptySeq
  <2> QED
    BY <2>1, <2>7 DEF f
<1>2. CASE x.frames = << >> /\ y.frames = << >>
  BY <1>2 DEF FramesText
<1>3. CASE x.frames = << >> /\ y.frames # << >>
  <2>1. FramesText(x) = << >> /\ FramesText(y) # << >>
    BY <1>1, <1>3 DEF FramesText
  <2> QED
    BY <1>3, <2>1
<1>4. CASE x.frames # << >> /\ y.frames = << >>
  <2>1. FramesText(y) = << >> /\ FramesText(x) # << >>
    BY <1>1, <1>4 DEF FramesText
  <2> QED
    BY <1>4, <2>1
<1>5. CASE x.frames # << >> /\ y.frames # << >>
  <2> DEFINE f == Head(x.frames)
             g == Head(y.frames)
  <2>1. PlainFrame(f) /\ PlainFrame(g) /\ FramesText(x) = FrameText(f) /\ FramesText(y) = FrameText(g)
    BY <1>1, <1>5
  <2>2. FrameText(f) = FrameText(g) <=> AlikeFrames(f, g)
    BY <2>1, SameFrames
  <2> QED
    BY <1>5, <2>1, <2>2
<1> QED
  BY <1>2, <1>3, <1>4, <1>5

LEMMA SameExceptions ==
    ASSUME NEW x, NEW y, PlainException(x), PlainException(y)
    PROVE  ExceptionText(x) = ExceptionText(y) <=> AlikeExceptions(x, y)
<1>1. /\ Unseparated(x.type) /\ Unseparated(x.value)
      /\ Unseparated(y.type) /\ Unseparated(y.value)
  BY DEF PlainException
<1>2. /\ FramesText(x) \in Hashed /\ ExceptionRest(x) \in Hashed
      /\ FramesText(y) \in Hashed /\ ExceptionRest(y) \in Hashed
      /\ ExceptionText(x) = Join(Normalize(x.type), ExceptionRest(x))
      /\ ExceptionText(y) = Join(Normalize(y.type), ExceptionRest(y))
  BY ExceptionTextParts
<1>3. Join(Normalize(x.type), ExceptionRest(x)) = Join(Normalize(y.type), ExceptionRest(y)) <=>
        Normalize(x.type) = Normalize(y.type) /\ ExceptionRest(x) = ExceptionRest(y)
  BY <1>1, <1>2, SameFields
<1>4. Join(Normalize(x.value), FramesText(x)) = Join(Normalize(y.value), FramesText(y)) <=>
        Normalize(x.value) = Normalize(y.value) /\ FramesText(x) = FramesText(y)
  BY <1>1, <1>2, SameFields
<1>5. ExceptionText(x) = ExceptionText(y) <=>
        /\ Normalize(x.type) = Normalize(y.type)
        /\ Normalize(x.value) = Normalize(y.value)
        /\ FramesText(x) = FramesText(y)
  BY <1>2, <1>3, <1>4 DEF ExceptionRest
<1> QED
  BY <1>5, SameFramesText DEF AlikeExceptions

\* An exception whose type reads like the literal is still no message: behind
\* the type comes another separator, in a message there is none.
LEMMA ExceptionIsNoMessage ==
    ASSUME NEW x, PlainException(x), NEW m, Unseparated(m)
    PROVE  ExceptionText(x) # <<NoException, Separator>> \o m
<1> SUFFICES ASSUME ExceptionText(x) = <<NoException, Separator>> \o m PROVE FALSE
  OBVIOUS
<1> DEFINE literal == <<NoException>>
<1>1. Unseparated(literal)
  BY WordsAssumption DEF Unseparated, IsPlainText, Text, NoException, Separator
<1>2. Append(literal, Separator) = <<NoException, Separator>>
  <2>1. NoException \in Words /\ Separator \in Words
    BY WordsAssumption
  <2>2. literal \in Seq(Words) /\ <<NoException, Separator>> \in Seq(Words)
    BY <2>1
  <2> DEFINE s == Append(literal, Separator)
             t == <<NoException, Separator>>
  <2>3. s \in Seq(Words) /\ Len(s) = 2 /\ s[1] = NoException /\ s[2] = Separator
    BY <2>1, <2>2, AppendProperties
  <2>4. Len(t) = 2 /\ t[1] = NoException /\ t[2] = Separator
    OBVIOUS
  <2> HIDE DEF s, t
  <2>5. \A i \in 1 .. Len(s) : s[i] = t[i]
    BY <2>3, <2>4
  <2>6. t \in Seq(Words)
    BY <2>2 DEF t
  <2>7. s = t
    BY <2>3, <2>4, <2>5, <2>6, SeqEqual
  <2> QED
    BY <2>7 DEF s, t
<1>3. m \in Hashed
  <2>1. m \in Seq(Words) /\ Words \subseteq Words \cup Int
    BY DEF Unseparated, Text
  <2> QED
    BY <2>1, SeqMonotonic DEF Hashed
<1>4. /\ FramesText(x) \in Hashed /\ ExceptionRest(x) \in Hashed
      /\ ExceptionText(x) = Join(Normalize(x.type), ExceptionRest(x))
  BY ExceptionTextParts
<1>5. Unseparated(Normalize(x.type)) /\ Unseparated(Normalize(x.value))
  BY NormalizeUnseparated DEF PlainException
<1>6. Join(Normalize(x.type), ExceptionRest(x)) = Join(literal, m)
  BY <1>2, <1>4 DEF Join
<1> HIDE DEF literal
<1>7. ExceptionRest(x) = m
  BY <1>1, <1>3, <1>4, <1>5, <1>6, FirstField
<1>8. IsJoin(m, Normalize(x.value), FramesText(x))
  BY <1>4, <1>5, <1>7, JoinFacts DEF ExceptionRest
<1> DEFINE p == Len(Normalize(x.value)) + 1
<1>9. p \in DOMAIN m /\ m[p] = Separator
  <2>1. Len(Normalize(x.value)) \in Nat /\ Len(FramesText(x)) \in Nat /\ DOMAIN m = 1 .. Len(m)
    BY <1>3, <1>4, <1>5 DEF Unseparated, Text, Hashed
  <2> QED
    BY <1>8, <2>1 DEF IsJoin
<1> QED
  BY <1>9 DEF Unseparated, IsPlainText

-----------------------------------------------------------------------------
(* Events.                                                                 *)

\* What follows the platform.
EventRest(e) ==
    IF e.exceptions = << >> THEN <<NoException, Separator>> \o Normalize(e.message)
    ELSE ExceptionText(Head(e.exceptions))

LEMMA EventTextParts ==
    ASSUME NEW e, PlainEvent(e)
    PROVE  EventRest(e) \in Hashed /\ ComputeIssueId(e) = Join(Normalize(e.platform), EventRest(e))
<1>1. EventRest(e) \in Hashed
  <2>1. CASE e.exceptions = << >>
    <3>1. Unseparated(Normalize(e.message))
      BY NormalizeUnseparated DEF PlainEvent
    <3>2. Normalize(e.message) \in Seq(Words) /\ <<NoException, Separator>> \in Seq(Words)
      BY <3>1, WordsAssumption DEF Unseparated, Text
    <3>3. <<NoException, Separator>> \o Normalize(e.message) \in Seq(Words)
      BY <3>2, ConcatProperties
    <3>4. Words \subseteq Words \cup Int
      OBVIOUS
    <3> QED
      BY <2>1, <3>3, <3>4, SeqMonotonic DEF EventRest, Hashed
  <2>2. CASE e.exceptions # << >>
    BY <2>2, ExceptionTextParts DEF EventRest, PlainEvent
  <2> QED
    BY <2>1, <2>2
<1>2. ComputeIssueId(e) = Field(e.platform) \o EventRest(e)
  BY DEF ComputeIssueId, EventRest
<1> QED
  BY <1>1, <1>2, FieldJoin DEF PlainEvent

\* A message as it is hashed gives the message.
LEMMA SameMessages ==
    ASSUME NEW m, NEW n, Unseparated(m), Unseparated(n)
    PROVE  <<NoException, Separator>> \o m = <<NoException, Separator>> \o n <=> m = n
<1> DEFINE c == <<NoException, Separator>>
<1>1. c \in Seq(Words) /\ m \in Seq(Words) /\ n \in Seq(Words)
  BY WordsAssumption DEF Unseparated, Text
<1> HIDE DEF c
<1>2. c \o m = c \o n <=> m = n
  BY <1>1, ConcatSimplifications
<1> QED
  BY <1>2 DEF c

(* Two events get the same issue id exactly when they have the same        *)
(* platform, first exception (its value included) and top frame, or,       *)
(* without exceptions, the same platform and message, up to case and       *)
(* surrounding blanks; unless a part contains the separator                *)
(* (computeIssueID, AI.md:18-22).                                          *)
THEOREM IssueIdsAreExact ==
    ASSUME NEW e \in Event, NEW f \in Event, IsPlain(e), IsPlain(f)
    PROVE  ComputeIssueId(e) = ComputeIssueId(f) <=> Alike(e, f)
<1>1. PlainEvent(e) /\ PlainEvent(f)
  BY PlainParts
<1>2. ComputeIssueId(e) = ComputeIssueId(f) <=>
        Normalize(e.platform) = Normalize(f.platform) /\ EventRest(e) = EventRest(f)
  <2>1. /\ EventRest(e) \in Hashed /\ ComputeIssueId(e) = Join(Normalize(e.platform), EventRest(e))
        /\ EventRest(f) \in Hashed /\ ComputeIssueId(f) = Join(Normalize(f.platform), EventRest(f))
    BY <1>1, EventTextParts
  <2>2. Join(Normalize(e.platform), EventRest(e)) = Join(Normalize(f.platform), EventRest(f)) <=>
          Normalize(e.platform) = Normalize(f.platform) /\ EventRest(e) = EventRest(f)
    BY <1>1, <2>1, SameFields DEF PlainEvent
  <2> QED
    BY <2>1, <2>2
<1>3. Unseparated(Normalize(e.message)) /\ Unseparated(Normalize(f.message))
  BY <1>1, NormalizeUnseparated DEF PlainEvent
<1>4. CASE e.exceptions = << >> /\ f.exceptions = << >>
  <2>1. EventRest(e) = EventRest(f) <=> Normalize(e.message) = Normalize(f.message)
    BY <1>3, <1>4, SameMessages DEF EventRest
  <2> QED
    BY <1>2, <1>4, <2>1 DEF Alike
<1>5. CASE e.exceptions # << >> /\ f.exceptions # << >>
  <2> DEFINE x == Head(e.exceptions)
             y == Head(f.exceptions)
  <2>1. PlainException(x) /\ PlainException(y)
    BY <1>1, <1>5 DEF PlainEvent
  <2>2. EventRest(e) = EventRest(f) <=> AlikeExceptions(x, y)
    BY <1>5, <2>1, SameExceptions DEF EventRest
  <2> QED
    BY <1>2, <1>5, <2>2 DEF Alike
<1>6. CASE e.exceptions = << >> /\ f.exceptions # << >>
  <2>1. EventRest(e) # EventRest(f)
    BY <1>1, <1>3, <1>6, ExceptionIsNoMessage DEF EventRest, PlainEvent
  <2> QED
    BY <1>2, <1>6, <2>1 DEF Alike
<1>7. CASE e.exceptions # << >> /\ f.exceptions = << >>
  <2>1. EventRest(e) # EventRest(f)
    BY <1>1, <1>3, <1>7, ExceptionIsNoMessage DEF EventRest, PlainEvent
  <2> QED
    BY <1>2, <1>7, <2>1 DEF Alike
<1> QED
  BY <1>4, <1>5, <1>6, <1>7
=============================================================================
