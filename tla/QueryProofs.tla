---------------------------- MODULE QueryProofs ----------------------------
(***************************************************************************)
(* Machine-checked proofs about Query, for any keys, timestamps, queries   *)
(* and limits.                                                             *)
(***************************************************************************)
EXTENDS Query, FiniteSetTheorems, TLAPS

-----------------------------------------------------------------------------
(* The inductive invariant.                                                *)

Listed == session.listed \cup session.page

\* How far the client is: what it has been given lies up to the cursor, and
\* every steady row that it has not been given lies behind it.
CursorIsBetween ==
    session.pc = "paging" =>
        /\ session.cursor = NoCursor => Listed = {}
        /\ session.cursor # NoCursor =>
             /\ \A p \in Listed : p = session.cursor \/ Before(session.query, p, session.cursor)
             /\ \A k \in steady :
                  \/ \E p \in Listed : p.key = k
                  \/ Before(session.query, session.cursor, At(rows, k))

IInv ==
    /\ TypeOK
    /\ steady \subseteq Certain(session.query)
    /\ CursorIsBetween
    /\ PagesAreInOrder
    /\ NothingMissed

-----------------------------------------------------------------------------
(* Positions.                                                              *)

LEMMA BeforeIsTransitive ==
    ASSUME NEW q, NEW x \in Position, NEW y \in Position, NEW z \in Position,
           Before(q, x, y), Before(q, y, z)
    PROVE  Before(q, x, z)
<1>1. \A p \in Position : p.key \in Nat /\ p.ts \in Nat
  BY QueryAssumption DEF Position
<1>2. x.key \in Nat /\ x.ts \in Nat /\ y.key \in Nat /\ y.ts \in Nat
      /\ z.key \in Nat /\ z.ts \in Nat
  BY <1>1
<1>3. CASE UsesIndex(q)
  BY <1>2, <1>3 DEF Before
<1>4. CASE ~UsesIndex(q)
  BY <1>2, <1>4 DEF Before
<1> QED
  BY <1>3, <1>4

LEMMA QueryType ==
    ASSUME NEW q \in Queries, IsLimit(q)
    PROVE  LimitOf(q) \in 1 .. MaxLimit
<1>1. q.limit \in Int \cup {None}
  BY QueryAssumption DEF Query
<1> QED
  BY <1>1, QueryAssumption DEF LimitOf, IsLimit

(* What any replica shows of a key is a row or nothing, and a row has a    *)
(* position.                                                               *)
LEMMA ViewType ==
    ASSUME TypeOK, NEW q, NEW view, IsView(q, view), NEW k \in Keys, view[k] # Gone
    PROVE  view[k] \in Row /\ At(view, k) \in Position
<1>1. view[k] \in Shown
  BY DEF TypeOK, IsView, MayShow, Versions, Shown
<1> QED
  BY <1>1 DEF Shown, Row, At, Position

(* A row that every replica lists has one place, whichever is read: the    *)
(* key orders the table, and a row that moves in the index is missing from *)
(* some replica of it.                                                     *)
LEMMA OnePlace ==
    ASSUME NEW q, NEW k \in Certain(q), NEW view, IsView(q, view), NEW c,
           Before(q, c, At(view, k)) \/ Before(q, c, At(rows, k))
    PROVE  Before(q, c, At(view, k)) /\ Before(q, c, At(rows, k))
<1>1. k \in Keys /\ view[k] \in MayShow(q, k) /\ rows[k] \in MayShow(q, k)
  BY DEF Certain, IsView, MayShow, Versions
<1>2. Gone \notin MayShow(q, k)
  BY DEF Certain, IsListed
<1>3. CASE UsesIndex(q)
  <2>1. ~IsMoving(k) /\ view[k] \in Versions(k) /\ rows[k] \in Versions(k)
    BY <1>1, <1>2, <1>3 DEF MayShow
  <2>2. view[k].ts = rows[k].ts
    BY <1>1, <1>2, <2>1 DEF IsMoving
  <2> QED
    BY <1>3, <2>2 DEF At
<1>4. CASE ~UsesIndex(q)
  BY <1>4 DEF Before, At
<1> QED
  BY <1>3, <1>4

-----------------------------------------------------------------------------
(* The table changes, and the replicas follow.                             *)

(* A steady row keeps its place: the row it was is one that some replica   *)
(* may still show.                                                         *)
LEMMA ChangeInv ==
    ASSUME IInv, TypeOK', UNCHANGED session, Watch,
           \A k \in Keys : rows[k] \in Versions(k)'
    PROVE  IInv'
<1>1. steady' \subseteq steady /\ steady' \subseteq Certain(session.query)'
  BY DEF Watch
<1>2. CursorIsBetween'
  <2>1. ASSUME NEW k \in steady', NEW c,
               Before(session.query, c, At(rows, k))
        PROVE  Before(session.query, c, At(rows', k))
    <3>1. k \in Keys /\ rows[k] \in Versions(k)' /\ rows'[k] \in Versions(k)'
      BY <1>1 DEF IInv, TypeOK, Versions
    <3>2. Gone \notin MayShow(session.query, k)'
      BY <1>1 DEF Certain, IsListed
    <3>3. CASE UsesIndex(session.query)
      <4>1. ~IsMoving(k)' /\ rows[k] # Gone /\ rows'[k] # Gone
        BY <3>1, <3>2, <3>3 DEF MayShow
      <4>2. rows[k].ts = rows'[k].ts
        BY <3>1, <4>1 DEF IsMoving
      <4> QED
        BY <2>1, <3>3, <4>2 DEF Before, At
    <3>4. CASE ~UsesIndex(session.query)
      BY <2>1, <3>4 DEF Before, At
    <3> QED
      BY <3>3, <3>4
  <2> QED
    BY <1>1, <2>1 DEF IInv, CursorIsBetween, Listed
<1>3. PagesAreInOrder'
  BY DEF IInv, PagesAreInOrder
<1>4. NothingMissed'
  BY <1>1 DEF IInv, NothingMissed
<1> QED
  BY <1>1, <1>2, <1>3, <1>4 DEF IInv

LEMMA WriteInv ==
    ASSUME IInv, NEW k \in Keys, NEW v \in Shown, Write(k, v)
    PROVE  IInv'
<1>1. /\ rows' = [rows EXCEPT ![k] = v]
      /\ old' = [old EXCEPT ![k] = Versions(k) \ {v}]
      /\ writes < MaxWrites /\ writes' = writes + 1
      /\ UNCHANGED session
      /\ steady' \subseteq steady
  BY DEF Write, Watch
<1>2. rows' \in [Keys -> Shown] /\ Versions(k) \subseteq Shown
  BY <1>1 DEF IInv, TypeOK, Versions
<1>3. old' \in [Keys -> SUBSET Shown]
  BY <1>1, <1>2 DEF IInv, TypeOK
<1>4. writes' \in 0 .. MaxWrites
  BY <1>1, QueryAssumption DEF IInv, TypeOK
<1>5. TypeOK'
  BY <1>1, <1>2, <1>3, <1>4 DEF IInv, TypeOK
<1>6. \A j \in Keys : rows[j] \in Versions(j)'
  BY <1>1 DEF IInv, TypeOK, Versions
<1> QED
  BY <1>1, <1>5, <1>6, ChangeInv DEF Write

LEMMA CatchUpInv ==
    ASSUME IInv, NEW k \in Keys, NEW v, CatchUp(k, v)
    PROVE  IInv'
<1>1. TypeOK'
  BY DEF IInv, TypeOK, CatchUp, Watch
<1>2. \A j \in Keys : rows[j] \in Versions(j)'
  BY DEF CatchUp, Versions
<1> QED
  BY <1>1, <1>2, ChangeInv DEF CatchUp

-----------------------------------------------------------------------------
(* The client goes on.                                                     *)

LEMMA BeginInv ==
    ASSUME IInv, NEW q \in Queries, Begin(q)
    PROVE  IInv'
<1>1. session' = [pc |-> "paging", query |-> q, cursor |-> NoCursor,
                  listed |-> {}, page |-> {}]
  BY DEF Begin
<1>2. steady' = Certain(q) /\ UNCHANGED <<rows, old, writes>>
  BY DEF Begin
<1>3. Certain(q) \subseteq Keys
  BY DEF Certain
<1>4. Cardinality({}) = 0
  BY FS_EmptySet
<1>5. TypeOK'
  BY <1>1, <1>2, <1>3, <1>4, QueryAssumption DEF IInv, TypeOK, Session
<1>6. (steady \subseteq Certain(session.query))'
  BY <1>1, <1>2 DEF Certain, MayShow, Versions, IsMoving
<1> QED
  BY <1>1, <1>2, <1>5, <1>6 DEF IInv, CursorIsBetween, Listed, PagesAreInOrder, NothingMissed

LEMMA RefuseInv == IInv /\ Refuse => IInv'
<1>1. SUFFICES ASSUME IInv, Refuse
               PROVE  IInv'
  OBVIOUS
<1>2. /\ session' = [pc |-> "refused", query |-> session.query, cursor |-> session.cursor,
                     listed |-> session.listed, page |-> session.page]
      /\ UNCHANGED <<rows, old, steady, writes>>
  BY <1>1 DEF Refuse, IInv, TypeOK, Session
<1>3. TypeOK'
  BY <1>1, <1>2 DEF IInv, TypeOK, Session
<1> QED
  BY <1>1, <1>2, <1>3
  DEF IInv, Certain, MayShow, Versions, IsMoving, CursorIsBetween, PagesAreInOrder, NothingMissed

(* What a request reads lies behind the cursor, and what it leaves lies    *)
(* behind what it reads.                                                   *)
LEMMA PageInv ==
    ASSUME IInv, NEW view, NEW page, Page(view, page)
    PROVE  IInv'
<1> DEFINE q == session.query
           readable == Readable(q, view, session.cursor)
           passed == {p \in page : Passes(q, view[p.key])}
           Answer(next) ==
             session' = [pc     |-> IF next = NoCursor THEN "done" ELSE "paging",
                         query  |-> q,
                         cursor |-> next,
                         listed |-> Listed,
                         page   |-> passed]
<1>1. /\ session.pc = "paging"
      /\ IsLimit(q)
      /\ IsView(q, view)
      /\ IsPage(q, readable, page)
      /\ \/ page = readable /\ Answer(NoCursor)
         \/ \E last \in page : IsLast(q, page, last) /\ Answer(last)
      /\ UNCHANGED <<rows, old, steady, writes>>
  BY DEF Page, StartKey, NextCursor, Listed
<1>2. q \in Queries /\ Listed \subseteq Position
      /\ (session.cursor # NoCursor => session.cursor \in Position)
  BY DEF IInv, TypeOK, Session, Listed
<1>3. page \subseteq readable /\ readable \subseteq Position
      /\ \A x \in page : \A y \in readable \ page : Before(q, x, y)
  BY <1>1, ViewType DEF IsPage, Readable, IInv
<1>4. passed \subseteq page /\ passed \subseteq Position
  BY <1>3
<1>5. Cardinality(passed) <= MaxLimit
  <2>1. IsFiniteSet(page) /\ Cardinality(page) <= LimitOf(q)
    BY <1>1 DEF IsPage
  <2>2. Cardinality(passed) <= Cardinality(page) /\ IsFiniteSet(passed)
    BY <1>4, <2>1, FS_Subset
  <2>3. Cardinality(passed) \in Nat /\ Cardinality(page) \in Nat
    BY <2>1, <2>2, FS_CardinalityType
  <2> HIDE DEF passed
  <2> QED
    BY <1>1, <1>2, <2>1, <2>2, <2>3, QueryType, QueryAssumption
\* Everything given before lies before everything read now.
<1>6. ASSUME NEW x \in Listed, NEW y \in page
      PROVE  Before(q, x, y)
  <2>1. session.cursor # NoCursor
    BY <1>1 DEF IInv, CursorIsBetween
  <2>2. Before(q, session.cursor, y)
    BY <1>3, <2>1 DEF Readable
  <2>3. x = session.cursor \/ Before(q, x, session.cursor)
    BY <1>1, <2>1 DEF IInv, CursorIsBetween
  <2> QED
    BY <1>2, <1>3, <2>1, <2>2, <2>3, BeforeIsTransitive
\* A steady row not given before can be read now; if read, it passes.
<1>7. ASSUME NEW k \in steady
      PROVE  \/ \E p \in Listed : p.key = k
             \/ At(view, k) \in readable
  <2>1. k \in Keys /\ k \in Certain(q) /\ view[k] # Gone /\ InRange(q, view[k])
    BY <1>1 DEF IInv, Certain, IsView, IsListed
  <2>2. session.cursor # NoCursor =>
          \/ \E p \in Listed : p.key = k
          \/ Before(q, session.cursor, At(view, k))
    BY <1>1, <2>1, OnePlace DEF IInv, CursorIsBetween
  <2>3. At(view, k).key = k
    BY DEF At
  <2> QED
    BY <2>1, <2>2, <2>3 DEF Readable
<1>8. ASSUME NEW k \in steady, At(view, k) \in page
      PROVE  At(view, k) \in passed /\ At(view, k).key = k
  BY <1>1, <1>8 DEF IInv, Certain, IsView, IsListed, At
<1> HIDE DEF passed, readable
<1>10. CASE page = readable /\ Answer(NoCursor)
  <2>1. /\ session'.pc = "done" /\ session'.query = q /\ session'.cursor = NoCursor
        /\ session'.listed = Listed /\ session'.page = passed
        /\ session' \in Session
    BY <1>2, <1>4, <1>10 DEF Session
  <2>2. TypeOK'
    BY <1>1, <1>5, <2>1 DEF IInv, TypeOK
  <2>3. PagesAreInOrder'
    BY <1>4, <1>6, <2>1 DEF PagesAreInOrder
  <2>4. NothingMissed'
    BY <1>1, <1>7, <1>8, <1>10, <2>1 DEF NothingMissed
  <2>5. (steady \subseteq Certain(session.query))'
    BY <1>1, <2>1 DEF IInv, Certain, MayShow, Versions, IsMoving
  <2> QED
    BY <2>1, <2>2, <2>3, <2>4, <2>5 DEF IInv, CursorIsBetween
<1>11. ASSUME NEW last \in page, IsLast(q, page, last), Answer(last)
       PROVE  IInv'
  <2>1. last \in Position /\ last # NoCursor
    BY <1>3, QueryAssumption
  <2>2. /\ session'.pc = "paging" /\ session'.query = q /\ session'.cursor = last
        /\ session'.listed = Listed /\ session'.page = passed
        /\ session' \in Session
    BY <1>2, <1>4, <1>11, <2>1 DEF Session
  <2>3. TypeOK'
    BY <1>1, <1>5, <2>2 DEF IInv, TypeOK
  <2>4. PagesAreInOrder'
    BY <1>4, <1>6, <2>2 DEF PagesAreInOrder
  <2>5. (steady \subseteq Certain(session.query))'
    BY <1>1, <2>2 DEF IInv, Certain, MayShow, Versions, IsMoving
  <2>7. \A p \in Listed \cup passed : p = last \/ Before(q, p, last)
    BY <1>4, <1>6, <1>11 DEF IsLast
  <2>8. \A k \in steady :
          \/ \E p \in Listed \cup passed : p.key = k
          \/ Before(q, last, At(rows, k))
    BY <1>1, <1>3, <1>7, <1>8, OnePlace DEF IInv
  <2>9. CursorIsBetween'
    <3>1. Listed' = Listed \cup passed
      BY <2>2 DEF Listed
    <3> QED
      BY <1>1, <2>1, <2>2, <2>7, <2>8, <3>1 DEF CursorIsBetween
  <2>10. NothingMissed'
    BY <2>2 DEF NothingMissed
  <2> QED
    BY <2>3, <2>4, <2>5, <2>9, <2>10 DEF IInv
<1> QED
  BY <1>1, <1>10, <1>11

-----------------------------------------------------------------------------
(* The theorems.                                                           *)

LEMMA InitInv == Init => IInv
<1>1. SUFFICES ASSUME Init
               PROVE  IInv
  OBVIOUS
<1>3. session \in Session /\ session.pc = "idle" /\ session.listed = {} /\ session.page = {}
  <2>1. (CHOOSE q \in Queries : TRUE) \in Queries
    BY QueryAssumption
  <2> QED
    BY <1>1, <2>1 DEF Init, Session
<1>4. Cardinality({}) = 0
  BY FS_EmptySet
<1>5. TypeOK
  BY <1>1, <1>3, <1>4, QueryAssumption DEF Init, TypeOK
<1> QED
  BY <1>1, <1>3, <1>5 DEF Init, IInv, CursorIsBetween, PagesAreInOrder, NothingMissed

LEMMA StutterInv == IInv /\ UNCHANGED vars => IInv'
BY DEF IInv, TypeOK, Certain, MayShow, Versions, IsMoving, CursorIsBetween, Listed,
   PagesAreInOrder, NothingMissed, vars

LEMMA NextInv == IInv /\ [Next]_vars => IInv'
<1>1. SUFFICES ASSUME IInv, [Next]_vars
               PROVE  IInv'
  OBVIOUS
<1>2. CASE \E k \in Keys : \E row \in Row : PutRow(k, row)
  BY <1>1, <1>2, WriteInv DEF PutRow, Shown
<1>3. CASE \E k \in Keys : ExpireRow(k)
  BY <1>1, <1>3, WriteInv DEF ExpireRow, Shown
<1>4. CASE \E k \in Keys : \E v \in old[k] : CatchUp(k, v)
  BY <1>1, <1>4, CatchUpInv
<1>5. CASE \E q \in Queries : Begin(q)
  BY <1>1, <1>5, BeginInv
<1>6. CASE Refuse
  BY <1>1, <1>6, RefuseInv
<1>7. CASE NextPage
  BY <1>1, <1>7, PageInv DEF NextPage
<1>8. CASE UNCHANGED vars
  BY <1>1, <1>8, StutterInv
<1> QED
  BY <1>1, <1>2, <1>3, <1>4, <1>5, <1>6, <1>7, <1>8 DEF Next

(* The inductive invariant holds in every reachable state: the cursor      *)
(* stands between what has been given and what is still to come.           *)
THEOREM Invariance == Spec => []IInv
<1> QED
  BY InitInv, NextInv, PTL DEF Spec

(* Every variable has its type, and no page exceeds the maximum.           *)
THEOREM TypeCorrect == Spec => []TypeOK
<1>1. IInv => TypeOK
  BY DEF IInv
<1> QED
  BY <1>1, Invariance, PTL

(* A client that follows the cursors to the end is given every row that    *)
(* matched all the while in every replica, whichever replicas answered and *)
(* whatever changed around it.                                             *)
THEOREM Complete == Spec => []NothingMissed
<1>1. IInv => NothingMissed
  BY DEF IInv
<1> QED
  BY <1>1, Invariance, PTL

(* Every page lies behind all pages before it.                             *)
THEOREM Ordered == Spec => []PagesAreInOrder
<1>1. IInv => PagesAreInOrder
  BY DEF IInv
<1> QED
  BY <1>1, Invariance, PTL

(* Each answer of a listing but the last has a cursor, behind the one that *)
(* was asked with, however many of the rows read the filter drops.         *)
LEMMA PageAdvances ==
    ASSUME IInv, NEW view, NEW page, Page(view, page), session'.pc = "paging"
    PROVE  /\ session'.cursor # NoCursor
           /\ session.cursor # NoCursor => Before(session.query, session.cursor, session'.cursor)
<1> DEFINE readable == Readable(session.query, view, session.cursor)
<1>1. page \subseteq readable
  BY DEF Page, IsPage, StartKey
<1>2. session'.cursor # NoCursor /\ session'.cursor \in page
  <2>1. \/ session'.cursor = NoCursor /\ session'.pc = "done"
        \/ \E last \in page :
             /\ session'.cursor = last
             /\ session'.pc = IF last = NoCursor THEN "done" ELSE "paging"
    BY DEF Page, NextCursor
  <2> QED
    BY <2>1
<1>3. session.cursor # NoCursor => Before(session.query, session.cursor, session'.cursor)
  BY <1>1, <1>2 DEF Readable
<1> QED
  BY <1>2, <1>3

(* A client that follows the cursors never asks for the same page again.   *)
THEOREM Advance == Spec => CursorsAdvance
<1>1. ASSUME IInv, [Next]_vars, session' # session, session.pc = "paging", session'.pc = "paging"
      PROVE  /\ session'.cursor # NoCursor
             /\ session.cursor # NoCursor =>
                  Before(session.query, session.cursor, session'.cursor)
  <2>1. ~Refuse
    BY <1>1 DEF Refuse, IInv, TypeOK, Session
  <2>2. NextPage
    BY <1>1, <2>1 DEF Next, vars, PutRow, ExpireRow, Write, CatchUp, Begin
  <2> QED
    BY <1>1, <2>2, PageAdvances DEF NextPage
<1>2. IInv /\ [Next]_vars =>
        [session.pc = "paging" /\ session'.pc = "paging" =>
           /\ session'.cursor # NoCursor
           /\ session.cursor # NoCursor =>
                Before(session.query, session.cursor, session'.cursor)]_session
  BY <1>1
<1> QED
  BY <1>2, Invariance, PTL DEF Spec, CursorsAdvance
=============================================================================
