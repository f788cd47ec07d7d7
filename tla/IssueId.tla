------------------------------ MODULE IssueId ------------------------------
(***************************************************************************)
(* The issue id of an event: computeIssueID of src/lambda/processor.       *)
(*                                                                         *)
(* A text is a sequence of words, as far as they matter: a blank, the      *)
(* separator, capitals, and the literal that the code writes for an event  *)
(* without exceptions.  The hash is taken to be free of collisions: an     *)
(* issue id is the text that is hashed.                                    *)
(***************************************************************************)
EXTENDS Integers, Sequences, FiniteSetsExt

CONSTANT Words   \* what texts are made of

Blank == " "
Separator == "|"
NoException == "no-exception"

ASSUME WordsAssumption == {Blank, Separator, NoException, "A", "a"} \subseteq Words

Text == Seq(Words)

\* The part of a sentryEvent that is read; `line` is Lineno.
Frame == [file: Text, function: Text, line: Int]

Exception == [type: Text, value: Text, frames: Seq(Frame)]

Event == [platform: Text, message: Text, exceptions: Seq(Exception)]

\* strings.ToLower, of a word.
Lower(word) == IF word = "A" THEN "a" ELSE word

\* strings.TrimSpace.
TrimSpace(text) ==
    LET solid == {i \in DOMAIN text : text[i] # Blank}
    IN  IF solid = {} THEN << >> ELSE SubSeq(text, Min(solid), Max(solid))

Normalize(text) ==
    LET trimmed == TrimSpace(text) IN [i \in DOMAIN trimmed |-> Lower(trimmed[i])]

\* "%s|".
Field(text) == Append(Normalize(text), Separator)

FrameText(frame) ==
    Append(Field(frame.file) \o Field(frame.function), frame.line)

\* Only the first exception counts, and only the first of its frames.
ExceptionText(x) ==
    Field(x.type) \o Field(x.value) \o
    (IF x.frames = << >> THEN << >> ELSE FrameText(Head(x.frames)))

ComputeIssueId(ev) ==
    Field(ev.platform) \o
    (IF ev.exceptions = << >>
     THEN <<NoException, Separator>> \o Normalize(ev.message)
     ELSE ExceptionText(Head(ev.exceptions)))

\* The zero sentryEvent.
EmptyEvent == [platform |-> << >>, message |-> << >>, exceptions |-> << >>]

-----------------------------------------------------------------------------
\* "Platform + first exception type/value + top stacktrace frame"; of an event
\* without exceptions, the message (AI.md:18-22).  The value counts, here as in
\* the code: TestComputeIssueIDGroupsSimilarEvents (main_test.go:25-35) means to
\* group two events with different values, but its `b := a` shares the slice of
\* exceptions, so that it compares an event with itself.
AlikeFrames(f, g) ==
    /\ Normalize(f.file) = Normalize(g.file)
    /\ Normalize(f.function) = Normalize(g.function)
    /\ f.line = g.line

AlikeExceptions(x, y) ==
    /\ Normalize(x.type) = Normalize(y.type)
    /\ Normalize(x.value) = Normalize(y.value)
    /\ (x.frames = << >>) <=> (y.frames = << >>)
    /\ x.frames # << >> => AlikeFrames(Head(x.frames), Head(y.frames))

Alike(e, f) ==
    /\ Normalize(e.platform) = Normalize(f.platform)
    /\ (e.exceptions = << >>) <=> (f.exceptions = << >>)
    /\ IF e.exceptions = << >> THEN Normalize(e.message) = Normalize(f.message)
       ELSE AlikeExceptions(Head(e.exceptions), Head(f.exceptions))

IsPlainText(text) == \A i \in DOMAIN text : text[i] # Separator

\* No part of the event contains the separator.
IsPlain(ev) ==
    /\ IsPlainText(ev.platform) /\ IsPlainText(ev.message)
    /\ \A i \in DOMAIN ev.exceptions :
         LET x == ev.exceptions[i]
         IN  /\ IsPlainText(x.type) /\ IsPlainText(x.value)
             /\ \A j \in DOMAIN x.frames :
                  IsPlainText(x.frames[j].file) /\ IsPlainText(x.frames[j].function)
=============================================================================
