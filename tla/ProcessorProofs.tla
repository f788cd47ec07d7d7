-------------------------- MODULE ProcessorProofs --------------------------
(***************************************************************************)
(* Machine-checked proofs about Processor, for any number of overlapping   *)
(* runs, keys and events and every value of the bounds.                    *)
(***************************************************************************)
EXTENDS Processor, SequenceTheorems, FiniteSetTheorems, TLAPS

-----------------------------------------------------------------------------
(* The inductive invariant.                                                *)

\* What a run knows: a row is at hand, and the issue it is about to write is
\* one of that row's events.
Sound(s) ==
    /\ s.pc \in {"fetch", "update"} => s.batch # << >>
    /\ s.pc = "update" => s.issue \in IssuesFor(Head(s.batch).key)

\* What may still be written is an issue of the row's events.
LateIsSound == \A call \in Call : late[call] > 0 => call.issue \in IssuesFor(call.key)

IInv ==
    /\ TypeOK
    /\ OncePerPut
    /\ IssueOfItsEvent
    /\ \A r \in Runs : Sound(run[r])
    /\ LateIsSound

-----------------------------------------------------------------------------
(* Entries of a batch, and issues.                                         *)

LEMMA EntryType ==
    ASSUME NEW x \in Entry
    PROVE  x.key \in Keys /\ x.path \in Path /\ x.path.key = x.key
BY DEF Entry, Path

LEMMA HeadTail ==
    ASSUME NEW b \in Seq(Entry), b # << >>
    PROVE  Head(b) \in Entry /\ Tail(b) \in Seq(Entry)
OBVIOUS

LEMMA TailNotEmpty ==
    ASSUME NEW b \in Seq(Entry), Len(b) > 1
    PROVE  Tail(b) # << >>
<1>1. Len(Tail(b)) = Len(b) - 1 /\ Len(b) \in Nat /\ Tail(b) \in Seq(Entry)
  OBVIOUS
<1>2. Tail(b) = << >> <=> Len(Tail(b)) = 0
  BY <1>1, EmptySeq
<1> QED
  BY <1>1, <1>2

(* An issue that a row may get is an issue, and never "none".              *)
LEMMA IssuesForType ==
    ASSUME NEW k \in Keys, NEW i \in IssuesFor(k)
    PROVE  i \in Issues /\ i # NoIssue
BY ProcessorAssumption DEF IssuesFor, Issues

LEMMA IdleType == Idle \in RunState /\ Sound(Idle)
BY DEF Idle, RunState, Sound

(* A run that moves to a sound state leaves all runs sound.                *)
LEMMA RunStep ==
    ASSUME IInv, NEW r \in Runs, NEW s \in RunState, Sound(s),
           run' = [run EXCEPT ![r] = s]
    PROVE  /\ run' \in [Runs -> RunState]
           /\ \A q \in Runs : Sound(run'[q])
           /\ \A q \in Runs : run'[q].pc \in {"fetch", "update"} => run'[q].batch # << >>
           /\ \A q \in Runs : run'[q].pc = "update" => run'[q].issue # NoIssue
<1>1. run \in [Runs -> RunState] /\ \A q \in Runs : Sound(run[q])
  BY DEF IInv, TypeOK
<1>2. run' \in [Runs -> RunState] /\ \A q \in Runs : Sound(run'[q])
  BY <1>1
<1>3. ASSUME NEW q \in Runs, run'[q].pc = "update"
      PROVE  run'[q].issue # NoIssue
  <2>1. run'[q].batch \in Seq(Entry) /\ run'[q].batch # << >>
    BY <1>2, <1>3 DEF Sound, RunState
  <2>2. Head(run'[q].batch).key \in Keys
    BY <2>1, HeadTail, EntryType
  <2>3. run'[q].issue \in IssuesFor(Head(run'[q].batch).key)
    BY <1>2, <1>3 DEF Sound
  <2> QED
    BY <2>2, <2>3, IssuesForType
<1> QED
  BY <1>2, <1>3 DEF Sound

(* Going on to the next row of the batch is such a move.                   *)
LEMMA ContinueStep ==
    ASSUME IInv, NEW r \in Runs, run[r].pc \in {"fetch", "update"}, Continue(r)
    PROVE  /\ run' \in [Runs -> RunState]
           /\ \A q \in Runs : Sound(run'[q])
           /\ \A q \in Runs : run'[q].pc \in {"fetch", "update"} => run'[q].batch # << >>
           /\ \A q \in Runs : run'[q].pc = "update" => run'[q].issue # NoIssue
<1> DEFINE s == [pc    |-> IF Len(run[r].batch) > 1 THEN "fetch" ELSE "idle",
                 left  |-> {},
                 batch |-> Tail(run[r].batch),
                 issue |-> NoIssue]
<1>1. run[r].batch \in Seq(Entry) /\ run[r].batch # << >>
  BY DEF IInv, TypeOK, RunState
<1>2. Tail(run[r].batch) \in Seq(Entry)
  BY <1>1, HeadTail
<1>3. s \in RunState
  BY <1>2 DEF RunState
<1>4. Sound(s)
  BY <1>1, TailNotEmpty DEF Sound
<1>5. run' = [run EXCEPT ![r] = s]
  BY DEF Continue
<1> HIDE DEF s
<1> QED
  BY <1>3, <1>4, <1>5, RunStep

(* The row at hand.                                                        *)
LEMMA RowType ==
    ASSUME IInv, NEW r \in Runs, run[r].pc \in {"fetch", "update"}
    PROVE  Row(r).key \in Keys /\ Row(r).path \in Path /\ Row(r).path.key = Row(r).key
<1>1. run[r].batch \in Seq(Entry) /\ run[r].batch # << >>
  BY DEF IInv, TypeOK, RunState
<1> QED
  BY <1>1, HeadTail, EntryType DEF Row

-----------------------------------------------------------------------------
(* Steps that leave the rows alone.                                        *)

(* If no row changes and all runs stay sound, the invariant stays.         *)
LEMMA StorageUnchanged ==
    ASSUME IInv, UNCHANGED Stored, faults' \in 0 .. MaxFaults,
           late' \in [Call -> Nat], LateIsSound',
           run' \in [Runs -> RunState],
           \A q \in Runs : Sound(run'[q]),
           \A q \in Runs : run'[q].pc \in {"fetch", "update"} => run'[q].batch # << >>,
           \A q \in Runs : run'[q].pc = "update" => run'[q].issue # NoIssue
    PROVE  IInv'
<1>1. TypeOK'
  BY DEF IInv, TypeOK, Stored
<1>2. OncePerPut' /\ IssueOfItsEvent'
  BY DEF IInv, OncePerPut, IssueOfItsEvent, Stored, IssuesFor
<1>3. (\A q \in Runs : Sound(run[q]))'
  BY DEF Sound
<1> QED
  BY <1>1, <1>2, <1>3 DEF IInv

(* The calls that may still get through.                                   *)
LEMMA LateUnchanged ==
    ASSUME IInv, UNCHANGED late
    PROVE  late' \in [Call -> Nat] /\ LateIsSound'
BY DEF IInv, TypeOK, LateIsSound

LEMMA CallType ==
    ASSUME IInv, NEW r \in Runs, run[r].pc = "update"
    PROVE  CallOf(r) \in Call /\ CallOf(r).issue \in IssuesFor(CallOf(r).key)
<1>1. Row(r).key \in Keys
  BY RowType
<1>2. run[r].issue \in IssuesFor(Row(r).key)
  BY DEF IInv, Sound, Row
<1>3. run[r].issue \in Issues
  BY <1>1, <1>2, IssuesForType
<1> QED
  BY <1>1, <1>2, <1>3 DEF CallOf, Call

LEMMA UnansweredType ==
    ASSUME IInv, NEW r \in Runs, Unanswered(r)
    PROVE  late' \in [Call -> Nat] /\ LateIsSound'
<1> DEFINE call == CallOf(r)
<1>1. call \in Call /\ call.issue \in IssuesFor(call.key)
  BY CallType DEF Unanswered
<1>2. late' = [late EXCEPT ![call] = @ + 1] /\ late \in [Call -> Nat]
  BY DEF Unanswered, IInv, TypeOK
<1> HIDE DEF call
<1>3. late' \in [Call -> Nat]
  BY <1>1, <1>2
<1>4. \A c \in Call : late'[c] > 0 => c = call \/ late[c] > 0
  BY <1>2
<1> QED
  BY <1>1, <1>3, <1>4 DEF IInv, LateIsSound, IssuesFor

LEMMA FaultType ==
    ASSUME IInv, Fault \/ faults' = faults
    PROVE  faults' \in 0 .. MaxFaults
BY ProcessorAssumption DEF IInv, TypeOK, Fault

-----------------------------------------------------------------------------
(* The scan's view.                                                        *)

LEMMA FoundType ==
    ASSUME TypeOK, NEW k \in Keys, NEW path \in MayFind(k)
    PROVE  path \in Path \cup {NoPath} /\ (path # NoPath => path.key = k)
BY DEF TypeOK, MayFind, Found, Matches

LEMMA LagType ==
    ASSUME TypeOK, NEW k \in Keys, NEW found, Lag(k, found)
    PROVE  /\ old' \in [Keys -> SUBSET (Path \cup {NoPath})]
           /\ \A j \in Keys : \A p \in old'[j] \ {NoPath} : p.key = j
<1>1. MayFind(k) \ {found} \subseteq Path \cup {NoPath}
      /\ \A p \in MayFind(k) \ {found} : p # NoPath => p.key = k
  BY FoundType
<1>2. old' = [old EXCEPT ![k] = MayFind(k) \ {found}] /\ old \in [Keys -> SUBSET (Path \cup {NoPath})]
  BY DEF Lag, TypeOK
<1> QED
  BY <1>1, <1>2 DEF TypeOK

-----------------------------------------------------------------------------
(* One lemma per action.                                                   *)

LEMMA InitInv == Init => IInv
<1>1. SUFFICES ASSUME Init
               PROVE  IInv
  OBVIOUS
<1>2. TypeOK
  BY <1>1, IdleType, ProcessorAssumption DEF Init, TypeOK, Days, Idle
<1>3. OncePerPut /\ IssueOfItsEvent
  BY <1>1 DEF Init, OncePerPut, IssueOfItsEvent
<1>4. (\A r \in Runs : Sound(run[r])) /\ LateIsSound
  BY <1>1, IdleType DEF Init, LateIsSound
<1> QED
  BY <1>2, <1>3, <1>4 DEF IInv

LEMMA MidnightInv == IInv /\ Midnight => IInv'
<1>1. SUFFICES ASSUME IInv, Midnight
               PROVE  IInv'
  OBVIOUS
<1>2. TypeOK'
  BY <1>1, ProcessorAssumption DEF IInv, TypeOK, Midnight, Feed!Midnight, Days
<1> QED
  BY <1>1, <1>2 DEF IInv, LateIsSound, OncePerPut, IssueOfItsEvent, Midnight, Feed!Midnight

LEMMA ArchiveInv ==
    ASSUME IInv, NEW p \in Path, NEW v \in EventsOf[p.key], Archive(p, v)
    PROVE  IInv'
<1>1. /\ DOMAIN objects' = DOMAIN objects \cup {p}
      /\ \A q \in DOMAIN objects' : objects'[q] = IF q = p THEN v ELSE objects[q]
      /\ UNCHANGED <<day, rows, old, late, run, grouped, puts, faults>>
  BY DEF Archive, Feed!Archive, Feed!Put
<1>2. DOMAIN objects' \subseteq Path /\ \A q \in DOMAIN objects' : objects'[q] \in EventsOf[q.key]
  BY <1>1 DEF IInv, TypeOK
<1>3. TypeOK'
  BY <1>1, <1>2 DEF IInv, TypeOK
<1> QED
  BY <1>1, <1>3 DEF IInv, LateIsSound, OncePerPut, IssueOfItsEvent

(* A row put, of an event or of another item, waits for its issue again,   *)
(* and may be grouped again.                                               *)
LEMMA NewRowInv ==
    ASSUME IInv, NEW k \in Keys, NEW path \in Path \cup {OtherPath}, NEW found,
           path \in Path => path.key = k,
           rows' = Feed!Put(rows, k, Received(path)), NewPut(k, found),
           UNCHANGED <<day, objects>>
    PROVE  IInv'
<1> DEFINE row == Received(path)
<1>1. /\ row.path = path /\ row.issue = NoIssue /\ row.status = "received"
      /\ row \in EventRow
  BY DEF Received, EventRow
<1>2. /\ DOMAIN rows' = DOMAIN rows \cup {k}
      /\ \A j \in DOMAIN rows' : rows'[j] = IF j = k THEN row ELSE rows[j]
  BY DEF Feed!Put
<1> HIDE DEF row
<1>3. \A j \in DOMAIN rows' :
         /\ rows'[j] \in EventRow
         /\ rows'[j].path \in Path => rows'[j].path.key = j
         /\ rows'[j].status = "grouped" <=> rows'[j].issue # NoIssue
  BY <1>1, <1>2 DEF IInv, TypeOK
<1>4. grouped' \in [Keys -> Nat] /\ puts' \in 0 .. MaxPuts
  BY ProcessorAssumption DEF IInv, TypeOK, NewPut
<1>5. TypeOK'
  BY <1>2, <1>3, <1>4, LagType DEF IInv, TypeOK, NewPut
<1>6. OncePerPut'
  BY <1>1, <1>2 DEF IInv, TypeOK, OncePerPut, NewPut
<1>7. IssueOfItsEvent'
  BY <1>1, <1>2 DEF IInv, IssueOfItsEvent
<1> QED
  BY <1>5, <1>6, <1>7 DEF IInv, NewPut, LateIsSound

LEMMA PutRowInv ==
    ASSUME IInv, NEW p \in DOMAIN objects, PutRow(p)
    PROVE  IInv'
<1>1. p \in Path /\ p.key \in Keys
  BY DEF IInv, TypeOK, Path
<1> QED
  BY <1>1, NewRowInv DEF PutRow, Feed!PutRow, KeyOf

LEMMA PutOtherInv ==
    ASSUME IInv, NEW k \in Keys, PutOther(k)
    PROVE  IInv'
BY ProcessorAssumption, NewRowInv DEF PutOther, Feed!PutOther

LEMMA ExpireRowInv ==
    ASSUME IInv, NEW k \in DOMAIN rows, ExpireRow(k)
    PROVE  IInv'
<1>1. /\ k \in Keys
      /\ DOMAIN rows' = DOMAIN rows \ {k}
      /\ \A j \in DOMAIN rows' : rows'[j] = rows[j]
  BY DEF IInv, TypeOK, ExpireRow, Remove
<1>2. TypeOK'
  BY <1>1, LagType DEF IInv, TypeOK, ExpireRow
<1>3. OncePerPut'
  BY <1>1 DEF IInv, TypeOK, OncePerPut, ExpireRow
<1>4. IssueOfItsEvent'
  BY <1>1 DEF IInv, IssueOfItsEvent
<1> QED
  BY <1>2, <1>3, <1>4 DEF IInv, ExpireRow, LateIsSound

LEMMA ExpireObjectInv ==
    ASSUME IInv, NEW p \in DOMAIN objects, ExpireObject(p)
    PROVE  IInv'
<1>1. TypeOK'
  BY DEF IInv, TypeOK, ExpireObject, Remove
<1> QED
  BY <1>1 DEF IInv, LateIsSound, OncePerPut, IssueOfItsEvent, ExpireObject

LEMMA CatchUpInv ==
    ASSUME IInv, NEW k \in Keys, CatchUp(k)
    PROVE  IInv'
<1>1. TypeOK'
  BY DEF IInv, TypeOK, CatchUp
<1> QED
  BY <1>1 DEF IInv, LateIsSound, OncePerPut, IssueOfItsEvent, CatchUp

LEMMA StartInv ==
    ASSUME IInv, NEW r \in Runs, Start(r)
    PROVE  IInv'
<1> DEFINE s == [pc |-> "scan", left |-> Keys, batch |-> << >>, issue |-> NoIssue]
<1>1. s \in RunState /\ Sound(s)
  BY DEF RunState, Sound
<1>2. run' = [run EXCEPT ![r] = s] /\ UNCHANGED <<Stored, late>> /\ faults' \in 0 .. MaxFaults
  BY DEF Start, IInv, TypeOK
<1> HIDE DEF s
<1> QED
  BY <1>1, <1>2, RunStep, LateUnchanged, StorageUnchanged

(* What a scan finds is an entry, be it the row as it is or as it was.     *)
LEMMA ScanItemInv ==
    ASSUME IInv, NEW r \in Runs, NEW k \in Keys, ScanItem(r, k)
    PROVE  IInv'
<1>1. PICK path \in MayFind(k) :
        run' = [run EXCEPT ![r] =
          [pc    |-> IF run[r].left \ {k} # {} THEN "scan"
                     ELSE IF (IF path # NoPath
                              THEN Append(run[r].batch, [key |-> k, path |-> path])
                              ELSE run[r].batch) # << >> THEN "fetch" ELSE "idle",
           left  |-> run[r].left \ {k},
           batch |-> IF path # NoPath THEN Append(run[r].batch, [key |-> k, path |-> path])
                     ELSE run[r].batch,
           issue |-> NoIssue]]
  BY DEF ScanItem
<1> DEFINE entry == [key |-> k, path |-> path]
           batch == IF path # NoPath THEN Append(run[r].batch, entry) ELSE run[r].batch
           left  == run[r].left \ {k}
           s     == [pc    |-> IF left # {} THEN "scan"
                               ELSE IF batch # << >> THEN "fetch" ELSE "idle",
                     left  |-> left,
                     batch |-> batch,
                     issue |-> NoIssue]
<1>2. path # NoPath => entry \in Entry
  BY FoundType DEF IInv, Entry
<1>3. run[r].batch \in Seq(Entry) /\ run[r].left \subseteq Keys
  BY DEF IInv, TypeOK, RunState
<1>4. run' = [run EXCEPT ![r] = s]
  BY <1>1
<1> HIDE DEF entry
<1>5. batch \in Seq(Entry)
  BY <1>2, <1>3
<1>6. left \subseteq Keys
  BY <1>3
<1> HIDE DEF batch, left
<1>7. s \in RunState
  BY <1>5, <1>6 DEF RunState
<1>8. Sound(s)
  BY DEF Sound
<1>9. UNCHANGED <<Stored, late>> /\ faults' \in 0 .. MaxFaults
  BY DEF ScanItem, IInv, TypeOK
<1> HIDE DEF s
<1> QED
  BY <1>4, <1>7, <1>8, <1>9, RunStep, LateUnchanged, StorageUnchanged

(* A failed page, or the end of the environment, makes the run idle.       *)
LEMMA StopsInv ==
    ASSUME IInv, NEW r \in Runs, ScanFails(r) \/ Kill(r)
    PROVE  IInv'
<1>1. run' = [run EXCEPT ![r] = Idle] /\ UNCHANGED Stored /\ (Fault \/ faults' = faults)
  BY DEF ScanFails, Kill, Unanswered
<1>2. late' \in [Call -> Nat] /\ LateIsSound'
  BY LateUnchanged, UnansweredType DEF ScanFails, Kill
<1> QED
  BY <1>1, <1>2, IdleType, RunStep, FaultType, StorageUnchanged

LEMMA FetchInv ==
    ASSUME IInv, NEW r \in Runs, Fetch(r)
    PROVE  IInv'
<1> DEFINE issue == Fingerprint[objects[Row(r).path]]
           s     == [pc |-> "update", left |-> {}, batch |-> run[r].batch, issue |-> issue]
<1>1. Row(r).path \in Path /\ Row(r).path.key = Row(r).key /\ Row(r).key \in Keys
  BY RowType DEF Fetch
<1>2. issue \in IssuesFor(Row(r).key)
  BY <1>1 DEF Fetch, IsFetched, IInv, TypeOK, IssuesFor
<1>3. run[r].batch \in Seq(Entry) /\ run[r].batch # << >>
  BY DEF Fetch, IInv, TypeOK, RunState
<1>4. run' = [run EXCEPT ![r] = s]
  BY DEF Fetch, GoUpdate
<1>5. UNCHANGED <<Stored, late>> /\ faults' \in 0 .. MaxFaults
  BY DEF Fetch, IInv, TypeOK
<1> HIDE DEF issue
<1>6. issue \in Issues
  BY <1>1, <1>2, IssuesForType
<1>7. s \in RunState
  BY <1>3, <1>6 DEF RunState
<1>8. Sound(s)
  BY <1>2, <1>3 DEF Sound, Row
<1> HIDE DEF s
<1> QED
  BY <1>4, <1>5, <1>7, <1>8, RunStep, LateUnchanged, StorageUnchanged

LEMMA FailsInv ==
    ASSUME IInv, NEW r \in Runs, FetchFails(r) \/ UpdateFails(r)
    PROVE  IInv'
<1>1. /\ run[r].pc \in {"fetch", "update"}
      /\ Continue(r)
      /\ UNCHANGED Stored
      /\ Fault \/ faults' = faults
  BY DEF FetchFails, UpdateFails, Unanswered
<1>2. late' \in [Call -> Nat] /\ LateIsSound'
  BY LateUnchanged, UnansweredType DEF FetchFails, UpdateFails
<1> QED
  BY <1>1, <1>2, ContinueStep, FaultType, StorageUnchanged

LEMMA RetryInv ==
    ASSUME IInv, NEW r \in Runs, Retry(r)
    PROVE  IInv'
<1>1. UNCHANGED <<Stored, run>> /\ Fault
  BY DEF Retry, Unanswered
<1>2. late' \in [Call -> Nat] /\ LateIsSound'
  BY UnansweredType DEF Retry
<1> QED
  BY <1>1, <1>2, FaultType, StorageUnchanged DEF IInv, TypeOK

(* The condition makes the row one that has not been grouped since its     *)
(* put, whatever happened since the scan; without it, this step would      *)
(* group a row twice.                                                      *)
LEMMA UpdateItemInv ==
    ASSUME IInv, NEW call \in Call, call.issue \in IssuesFor(call.key), UpdateItem(call),
           UNCHANGED <<day, objects, puts, faults>>,
           late' \in [Call -> Nat], LateIsSound',
           run' \in [Runs -> RunState],
           \A q \in Runs : Sound(run'[q]),
           \A q \in Runs : run'[q].pc \in {"fetch", "update"} => run'[q].batch # << >>,
           \A q \in Runs : run'[q].pc = "update" => run'[q].issue # NoIssue
    PROVE  IInv'
<1> DEFINE key == call.key
           row == Updated(call.key, call.issue)
<1>1. key \in Keys
  BY DEF Call
<1>2. call.issue \in Issues /\ call.issue # NoIssue
  BY <1>1, IssuesForType
<1>3. /\ row.status = "grouped"
      /\ row.issue = call.issue
      /\ row \in EventRow
      /\ row.path \in Path => row.path.key = key
  BY <1>2, ProcessorAssumption DEF Updated, EventRow, IInv, TypeOK
<1>4. /\ DOMAIN rows' = DOMAIN rows \cup {key}
      /\ \A k \in DOMAIN rows' : rows'[k] = IF k = key THEN row ELSE rows[k]
      /\ grouped' = [grouped EXCEPT ![key] = @ + 1]
      /\ key \in DOMAIN rows => rows[key].issue = NoIssue
      /\ Lag(key, NoPath)
  BY DEF UpdateItem, Put, Feed!Put, MayUpdate
<1> HIDE DEF key, row
<1>5. \A k \in DOMAIN rows' :
         /\ rows'[k] \in EventRow
         /\ rows'[k].path \in Path => rows'[k].path.key = k
         /\ rows'[k].status = "grouped" <=> rows'[k].issue # NoIssue
  BY <1>2, <1>3, <1>4 DEF IInv, TypeOK
<1>6. grouped' \in [Keys -> Nat]
  BY <1>1, <1>4 DEF IInv, TypeOK
<1>7. TypeOK'
  BY <1>1, <1>4, <1>5, <1>6, LagType DEF IInv, TypeOK
<1>8. OncePerPut'
  BY <1>1, <1>2, <1>3, <1>4 DEF IInv, TypeOK, OncePerPut
<1>9. IssueOfItsEvent'
  BY <1>3, <1>4 DEF IInv, IssueOfItsEvent, IssuesFor, key
<1>10. (\A q \in Runs : Sound(run[q]))'
  BY DEF Sound
<1> QED
  BY <1>7, <1>8, <1>9, <1>10 DEF IInv

LEMMA UpdateInv ==
    ASSUME IInv, NEW r \in Runs, Update(r)
    PROVE  IInv'
<1>1. CallOf(r) \in Call /\ CallOf(r).issue \in IssuesFor(CallOf(r).key)
  BY CallType DEF Update
<1>2. UpdateItem(CallOf(r)) /\ UNCHANGED <<day, objects, late, puts, faults>>
  BY DEF Update
<1>3. /\ run' \in [Runs -> RunState]
      /\ \A q \in Runs : Sound(run'[q])
      /\ \A q \in Runs : run'[q].pc \in {"fetch", "update"} => run'[q].batch # << >>
      /\ \A q \in Runs : run'[q].pc = "update" => run'[q].issue # NoIssue
  BY ContinueStep DEF Update
<1> QED
  BY <1>1, <1>2, <1>3, LateUnchanged, UpdateItemInv

(* An update that comes late meets the same condition.                     *)
LEMMA LateUpdateInv ==
    ASSUME IInv, NEW call \in Call, LateUpdate(call)
    PROVE  IInv'
<1>1. late[call] > 0 /\ late' = [late EXCEPT ![call] = @ - 1] /\ late \in [Call -> Nat]
  BY DEF LateUpdate, IInv, TypeOK
<1>2. late' \in [Call -> Nat]
  BY <1>1
<1>3. \A c \in Call : late'[c] > 0 => late[c] > 0
  BY <1>1
<1>4. LateIsSound' /\ call.issue \in IssuesFor(call.key)
  BY <1>1, <1>3 DEF IInv, LateIsSound, IssuesFor
<1>5. UNCHANGED <<day, objects, run, puts, faults>>
  BY DEF LateUpdate
<1>6. /\ run' \in [Runs -> RunState]
      /\ \A q \in Runs : Sound(run'[q])
      /\ \A q \in Runs : run'[q].pc \in {"fetch", "update"} => run'[q].batch # << >>
      /\ \A q \in Runs : run'[q].pc = "update" => run'[q].issue # NoIssue
  BY <1>5 DEF IInv, TypeOK
<1>7. CASE UpdateItem(call)
  BY <1>2, <1>4, <1>5, <1>6, <1>7, UpdateItemInv
<1>8. CASE UNCHANGED <<rows, old, grouped>>
  BY <1>2, <1>4, <1>5, <1>6, <1>8, StorageUnchanged DEF Stored, IInv, TypeOK
<1> QED
  BY <1>7, <1>8 DEF LateUpdate

LEMMA StutterInv == IInv /\ UNCHANGED vars => IInv'
BY DEF IInv, TypeOK, LateIsSound, OncePerPut, IssueOfItsEvent, vars

-----------------------------------------------------------------------------
(* The theorems.                                                           *)

LEMMA NextInv == IInv /\ [Next]_vars => IInv'
<1>1. SUFFICES ASSUME IInv, [Next]_vars
               PROVE  IInv'
  OBVIOUS
<1>2. CASE Midnight
  BY <1>1, <1>2, MidnightInv
<1>3. CASE \E p \in Path : \E v \in EventsOf[p.key] : Archive(p, v)
  BY <1>1, <1>3, ArchiveInv
<1>8. CASE \E k \in Keys : PutOther(k) \/ CatchUp(k)
  BY <1>1, <1>8, PutOtherInv, CatchUpInv
<1>4. CASE \E p \in DOMAIN objects : PutRow(p) \/ ExpireObject(p)
  BY <1>1, <1>4, PutRowInv, ExpireObjectInv
<1>5. CASE \E k \in DOMAIN rows : ExpireRow(k)
  BY <1>1, <1>5, ExpireRowInv
<1>6. ASSUME NEW r \in Runs, Start(r) \/ Proceed(r) \/ Retry(r) \/ Kill(r)
      PROVE  IInv'
  BY <1>1, <1>6, StartInv, ScanItemInv, StopsInv, FetchInv, FailsInv, UpdateInv, RetryInv
  DEF Proceed
<1>7. CASE UNCHANGED vars
  BY <1>1, <1>7, StutterInv
<1>9. CASE \E call \in Call : LateUpdate(call)
  BY <1>1, <1>9, LateUpdateInv
<1> QED
  BY <1>1, <1>2, <1>3, <1>4, <1>5, <1>6, <1>7, <1>8, <1>9 DEF Next

(* The inductive invariant holds in every reachable state: besides the     *)
(* theorems below, what a run has fetched belongs to the row at hand.      *)
THEOREM Invariance == Spec => []IInv
<1> QED
  BY InitInv, NextInv, PTL DEF Spec

(* Every variable has its type in every reachable state: a run's batch     *)
(* holds rows of its keys, and a row is grouped iff it has an issue.       *)
THEOREM TypeCorrect == Spec => []TypeOK
<1>1. IInv => TypeOK
  BY DEF IInv
<1> QED
  BY <1>1, Invariance, PTL

(* However many runs overlap, a row is grouped at most once per put.       *)
THEOREM Once == Spec => []OncePerPut
<1>1. IInv => OncePerPut
  BY DEF IInv
<1> QED
  BY <1>1, Invariance, PTL

(* Every issue is the fingerprint of an event stored for its row.          *)
THEOREM IssueSound == Spec => []IssueOfItsEvent
<1>1. IInv => IssueOfItsEvent
  BY DEF IInv
<1> QED
  BY <1>1, Invariance, PTL

(* Where ingest stores one event under a key, as it does when the event id *)
(* is not shared, the issue of the row is that event's.                    *)
THEOREM OwnIssue ==
    ASSUME NEW k \in Keys, NEW v, EventsOf[k] = {v}
    PROVE  Spec => [](k \in DOMAIN rows /\ rows[k].issue # NoIssue =>
                        v \in Parses /\ rows[k].issue = Fingerprint[v])
<1>1. \A i \in IssuesFor(k) : v \in Parses /\ i = Fingerprint[v]
  BY DEF IssuesFor
<1>2. IInv => (k \in DOMAIN rows /\ rows[k].issue # NoIssue =>
                 v \in Parses /\ rows[k].issue = Fingerprint[v])
  BY <1>1 DEF IInv, IssueOfItsEvent
<1> QED
  BY <1>2, Invariance, PTL

-----------------------------------------------------------------------------
(* The processor keeps its contract.                                       *)

\* What the contract says of a row.
View(row) == [status |-> row.status, issue |-> row.issue]

LEMMA TableOf ==
    /\ DOMAIN IssueTable = DOMAIN rows
    /\ \A k \in DOMAIN rows : IssueTable[k] = View(rows[k])
BY DEF IssueTable, View

(* A row put in the table is put in the contract's.                        *)
LEMMA TablePut ==
    ASSUME NEW k, NEW row, rows' = Feed!Put(rows, k, row)
    PROVE  Contract!Put(k, View(row))
<1>1. /\ DOMAIN rows' = DOMAIN rows \cup {k}
      /\ \A j \in DOMAIN rows' : rows'[j] = IF j = k THEN row ELSE rows[j]
  BY DEF Feed!Put
<1>2. IssueTable' = [j \in DOMAIN rows \cup {k} |-> IF j = k THEN View(row) ELSE IssueTable[j]]
  BY <1>1 DEF IssueTable, View
<1> QED
  BY <1>2, TableOf DEF Contract!Put

LEMMA ReceiveStep ==
    ASSUME NEW k \in Keys, NEW path, rows' = Feed!Put(rows, k, Received(path))
    PROVE  Contract!Next
<1>1. View(Received(path)) = Contract!Waiting
  BY DEF View, Received, Contract!Waiting
<1>2. Contract!Put(k, View(Received(path)))
  BY TablePut
<1>3. Contract!Receive(k)
  BY <1>1, <1>2 DEF Contract!Receive
<1> QED
  BY <1>3 DEF Contract!Next

LEMMA ExpireStep ==
    ASSUME IInv, NEW k \in DOMAIN rows, ExpireRow(k)
    PROVE  Contract!Next
<1>1. k \in Keys
  BY DEF IInv, TypeOK
<1>2. IssueTable' = [j \in DOMAIN IssueTable \ {k} |-> IssueTable[j]]
  BY TableOf DEF ExpireRow, Remove, IssueTable, View
<1> QED
  BY <1>1, <1>2 DEF Contract!Next, Contract!Expire

(* The condition of the update makes the row one that waits; the issue was *)
(* computed for this row, not for another one of the batch.                *)
LEMMA GroupStep ==
    ASSUME IInv, NEW call \in Call, call.issue \in IssuesFor(call.key), UpdateItem(call)
    PROVE  Contract!Next
<1> DEFINE key == call.key
           issue == call.issue
<1>1. key \in Keys
  BY DEF Call
<1>2. ASSUME key \in DOMAIN rows
      PROVE  IssueTable[key] = Contract!Waiting
  <2>1. rows[key].issue = NoIssue
    BY <1>2 DEF UpdateItem, MayUpdate
  <2>2. rows[key].status = "received"
    BY <1>2, <2>1 DEF IInv, TypeOK, EventRow
  <2> QED
    BY <1>2, <2>1, <2>2 DEF IssueTable, Contract!Waiting
<1>3. View(Updated(key, issue)) = Contract!Grouped(issue)
  BY DEF View, Updated, Contract!Grouped
<1>4. rows' = Feed!Put(rows, key, Updated(key, issue))
  BY DEF UpdateItem, Put
<1>5. issue \in IssuesFor(key)
  OBVIOUS
<1> HIDE DEF key, issue
<1>6. Contract!Put(key, Contract!Grouped(issue))
  BY <1>3, <1>4, TablePut
<1>7. Contract!Group(key, issue)
  BY <1>2, <1>6, TableOf DEF Contract!Group
<1> QED
  BY <1>1, <1>5, <1>7 DEF Contract!Next

LEMMA ContractStep ==
    ASSUME IInv, [Next]_vars
    PROVE  [Contract!Next]_IssueTable
<1>1. ASSUME UNCHANGED rows
      PROVE  UNCHANGED IssueTable
  BY <1>1 DEF IssueTable
<1>2. CASE \E k \in Keys : PutOther(k)
  BY <1>2, ReceiveStep DEF PutOther, Feed!PutOther
<1>3. ASSUME NEW p \in DOMAIN objects, PutRow(p)
      PROVE  Contract!Next
  <2>1. p.key \in Keys
    BY DEF IInv, TypeOK, Path
  <2> QED
    BY <1>3, <2>1, ReceiveStep DEF PutRow, Feed!PutRow, KeyOf
<1>4. CASE \E k \in DOMAIN rows : ExpireRow(k)
  BY <1>4, ExpireStep
<1>5. CASE \E r \in Runs : Update(r)
  BY <1>5, CallType, GroupStep DEF Update
<1>6. CASE \E call \in Call : LateUpdate(call)
  <2>1. PICK call \in Call : LateUpdate(call)
    BY <1>6
  <2>2. call.issue \in IssuesFor(call.key)
    BY <2>1 DEF IInv, LateIsSound, LateUpdate
  <2> QED
    BY <1>1, <2>1, <2>2, GroupStep DEF LateUpdate
<1> QED
  BY <1>1, <1>2, <1>3, <1>4, <1>5, <1>6
  DEF Next, Proceed, vars, Stored, Midnight, Feed!Midnight, Archive, Feed!Archive, CatchUp,
      ExpireObject, Start, ScanItem, ScanFails, Fetch, FetchFails, UpdateFails, Retry, Kill

(* Whatever runs overlap and fail, status and issue of the rows change     *)
(* only as IssueContract says.                                             *)
THEOREM Implementation == Spec => ImplementsIssueContract
<1>1. Init => Contract!Init
  BY DEF Init, Contract!Init, IssueTable
<1>2. IInv /\ [Next]_vars => [Contract!Next]_IssueTable
  BY ContractStep
<1> QED
  BY <1>1, <1>2, Invariance, PTL DEF Spec, ImplementsIssueContract, Contract!Spec

-----------------------------------------------------------------------------
(* Runs advance.                                                           *)

(* A run under way holds finitely many rows, and has some steps left.      *)
LEMMA RunSizes ==
    ASSUME IInv, NEW r \in Runs
    PROVE  /\ IsFiniteSet(run[r].left)
           /\ Cardinality(run[r].left) \in Nat
           /\ Len(run[r].batch) \in Nat
           /\ run[r].pc \in {"fetch", "update"} => Len(run[r].batch) >= 1
<1>1. run[r].left \subseteq Keys /\ run[r].batch \in Seq(Entry)
  BY DEF IInv, TypeOK, RunState
<1>2. IsFiniteSet(run[r].left)
  BY <1>1, ProcessorAssumption, FS_Subset
<1>3. Cardinality(run[r].left) \in Nat
  BY <1>2, FS_CardinalityType
<1>4. Len(run[r].batch) \in Nat /\ (run[r].batch # << >> => Len(run[r].batch) # 0)
  BY <1>1, EmptySeq
<1>5. run[r].pc \in {"fetch", "update"} => run[r].batch # << >>
  BY DEF IInv, TypeOK
<1> QED
  BY <1>2, <1>3, <1>4, <1>5

(* A run has steps left, finitely many, until it is over.                  *)
LEMMA StepsLeftType ==
    ASSUME IInv, NEW r \in Runs
    PROVE  /\ StepsLeft(run[r]) \in Nat
           /\ StepsLeft(run[r]) = 0 <=> run[r].pc = "idle"
<1> DEFINE c == Cardinality(run[r].left)
           b == Len(run[r].batch)
<1>1. c \in Nat /\ b \in Nat /\ (run[r].pc \in {"fetch", "update"} => b >= 1)
  BY RunSizes
<1>2. run[r].pc \in {"idle", "scan", "fetch", "update"}
  BY DEF IInv, TypeOK, RunState
<1>3. StepsLeft(run[r]) = CASE run[r].pc = "scan"   -> 3 * c + 2 * b + 1
                            [] run[r].pc = "fetch"  -> 2 * b
                            [] run[r].pc = "update" -> 2 * b - 1
                            [] OTHER                -> 0
  BY DEF StepsLeft
<1> HIDE DEF c, b
<1> QED
  BY <1>1, <1>2, <1>3

\* A scan reads k, and finds path.
Finds(r, k, path) ==
    LET batch == IF path # NoPath THEN Append(run[r].batch, [key |-> k, path |-> path])
                 ELSE run[r].batch
        left  == run[r].left \ {k}
    IN  /\ run'[r].pc = IF left # {} THEN "scan" ELSE IF batch # << >> THEN "fetch" ELSE "idle"
        /\ run'[r].left = left
        /\ run'[r].batch = batch

LEMMA ScanFinds ==
    ASSUME IInv, NEW r \in Runs, NEW k \in Keys, ScanItem(r, k)
    PROVE  \E path \in MayFind(k) : Finds(r, k, path)
BY DEF ScanItem, Finds, IInv, TypeOK

LEMMA ScanAdvances ==
    ASSUME IInv, NEW r \in Runs, NEW k \in Keys, ScanItem(r, k)
    PROVE  StepsLeft(run'[r]) < StepsLeft(run[r])
<1> DEFINE left == run[r].left \ {k}
           c    == Cardinality(run[r].left)
           b    == Len(run[r].batch)
<1>1. PICK path \in MayFind(k) : Finds(r, k, path)
  BY ScanFinds
<1> DEFINE batch == IF path # NoPath THEN Append(run[r].batch, [key |-> k, path |-> path])
                    ELSE run[r].batch
<1>2. c \in Nat /\ b \in Nat /\ IsFiniteSet(run[r].left)
  BY RunSizes
<1>3. Cardinality(left) = c - 1 /\ Cardinality(left) \in Nat
  <2>1. k \in run[r].left
    BY DEF ScanItem
  <2>2. IsFiniteSet(left)
    BY <1>2, FS_RemoveElement
  <2>3. Cardinality(left) \in Nat
    BY <2>2, FS_CardinalityType
  <2> QED
    BY <1>2, <2>1, <2>3, FS_RemoveElement
<1>4. Len(batch) \in {b, b + 1}
  <2>1. run[r].batch \in Seq(Entry)
    BY DEF IInv, TypeOK, RunState
  <2> QED
    BY <2>1
<1>5. StepsLeft(run[r]) = 3 * c + 2 * b + 1
  BY DEF ScanItem, StepsLeft
<1> HIDE DEF batch, left, c, b
<1>6. StepsLeft(run'[r]) \in {3 * Cardinality(left) + 2 * Len(batch) + 1, 2 * Len(batch), 0}
  BY <1>1 DEF Finds, StepsLeft, batch, left
<1>7. Len(batch) \in Nat /\ Len(batch) <= b + 1
  BY <1>2, <1>4
<1> QED
  BY <1>2, <1>3, <1>5, <1>6, <1>7

(* Every way on from a row of the batch.                                   *)
LEMMA ContinueAdvances ==
    ASSUME IInv, NEW r \in Runs, run[r].pc \in {"fetch", "update"}, Continue(r)
    PROVE  StepsLeft(run'[r]) < StepsLeft(run[r])
<1> DEFINE b == Len(run[r].batch)
<1>1. b \in Nat /\ b >= 1
  BY RunSizes
<1>2. /\ run'[r].pc = IF b > 1 THEN "fetch" ELSE "idle"
      /\ run'[r].batch = Tail(run[r].batch)
  BY DEF Continue, IInv, TypeOK
<1>3. Len(Tail(run[r].batch)) = b - 1
  <2>1. run[r].batch \in Seq(Entry) /\ run[r].batch # << >>
    BY DEF IInv, TypeOK, RunState
  <2> QED
    BY <2>1
<1>4. StepsLeft(run'[r]) = IF b > 1 THEN 2 * (b - 1) ELSE 0
  BY <1>2, <1>3 DEF StepsLeft
<1>5. StepsLeft(run[r]) \in {2 * b, 2 * b - 1}
  BY DEF StepsLeft
<1> HIDE DEF b
<1> QED
  BY <1>1, <1>4, <1>5

LEMMA RunAdvances ==
    ASSUME IInv, NEW r \in Runs, Proceed(r) \/ Kill(r)
    PROVE  StepsLeft(run'[r]) < StepsLeft(run[r])
<1>1. CASE \E k \in Keys : ScanItem(r, k)
  BY <1>1, ScanAdvances
<1>2. CASE ScanFails(r) \/ Kill(r)
  <2>1. run'[r] = Idle /\ run[r].pc # "idle"
    BY <1>2 DEF ScanFails, Kill, Unanswered, IInv, TypeOK
  <2>2. StepsLeft(run'[r]) = 0
    BY <2>1 DEF StepsLeft, Idle
  <2> QED
    BY <2>1, <2>2, StepsLeftType
<1>3. CASE Fetch(r)
  <2>1. /\ run'[r].pc = "update" /\ run'[r].batch = run[r].batch
        /\ run[r].pc = "fetch"
    BY <1>3 DEF Fetch, GoUpdate, IInv, TypeOK
  <2>2. /\ StepsLeft(run'[r]) = 2 * Len(run[r].batch) - 1
        /\ StepsLeft(run[r]) = 2 * Len(run[r].batch)
    BY <2>1 DEF StepsLeft
  <2> QED
    BY <2>2, RunSizes
<1>4. CASE FetchFails(r) \/ Update(r) \/ UpdateFails(r)
  BY <1>4, ContinueAdvances DEF FetchFails, Update, UpdateFails
<1> QED
  BY <1>1, <1>2, <1>3, <1>4 DEF Proceed

(* The measure of RunsAdvance is a natural number, zero only when the run  *)
(* is over.                                                                *)
THEOREM Measure ==
    Spec => [](\A r \in Runs : /\ StepsLeft(run[r]) \in Nat
                               /\ StepsLeft(run[r]) = 0 <=> run[r].pc = "idle")
<1>1. IInv => \A r \in Runs : /\ StepsLeft(run[r]) \in Nat
                              /\ StepsLeft(run[r]) = 0 <=> run[r].pc = "idle"
  BY StepsLeftType
<1> QED
  BY <1>1, Invariance, PTL

(* Nothing holds a run: whatever it cannot read, load or update, each of   *)
(* its steps leaves fewer.  With the fairness that is left to TLC, it      *)
(* comes to every row it has found.                                        *)
THEOREM Advance == Spec => RunsAdvance
<1>1. ASSUME IInv, [Next]_vars, NEW r \in Runs, run[r].pc # "idle", run'[r] # run[r]
      PROVE  StepsLeft(run'[r]) < StepsLeft(run[r])
  <2>1. ASSUME NEW q \in Runs, Proceed(q) \/ Kill(q)
        PROVE  \A x \in Runs : run'[x] # run[x] => x = q
    BY <1>1, <2>1
    DEF IInv, TypeOK, Proceed, Kill, ScanItem, ScanFails, Fetch, FetchFails, Update,
        UpdateFails, Unanswered, Continue, GoUpdate
  <2>2. ASSUME NEW q \in Runs, Start(q)
        PROVE  FALSE
    BY <1>1, <2>2 DEF IInv, TypeOK, Start
  <2>3. run' # run
    BY <1>1
  <2>4. \E q \in Runs : Proceed(q) \/ Kill(q)
    BY <1>1, <2>2, <2>3
    DEF Next, vars, Midnight, Archive, PutRow, PutOther, NewPut, ExpireRow, ExpireObject,
        CatchUp, Retry, LateUpdate
  <2> QED
    BY <1>1, <2>1, <2>4, RunAdvances
<1>2. IInv /\ [Next]_vars =>
        \A r \in Runs :
          run[r].pc # "idle" /\ run'[r] # run[r] => StepsLeft(run'[r]) < StepsLeft(run[r])
  BY <1>1
<1> QED
  BY <1>2, Invariance, PTL DEF Spec, RunsAdvance

-----------------------------------------------------------------------------
(* No event is passed over.                                                *)

LEMMA TailKeeps ==
    ASSUME NEW b \in Seq(Entry), NEW i \in DOMAIN b, i # 1
    PROVE  Len(b) > 1 /\ \E j \in DOMAIN Tail(b) : Tail(b)[j] = b[i]
<1>1. i \in Nat /\ 1 < i /\ i <= Len(b) /\ Len(b) \in Nat
  OBVIOUS
<1>2. Len(Tail(b)) = Len(b) - 1 /\ DOMAIN Tail(b) = 1 .. Len(b) - 1
  BY <1>1
<1>3. i - 1 \in DOMAIN Tail(b) /\ Tail(b)[i - 1] = b[i]
  BY <1>1, <1>2
<1> QED
  BY <1>1, <1>3

(* What the scan found stays in the batch until the loop comes to it.      *)
LEMMA ContinueHolds ==
    ASSUME IInv, NEW r \in Runs, NEW k, run[r].pc \in {"fetch", "update"}, Continue(r),
           Holds(r, k), rows'[k].path = rows[k].path,
           Row(r) # [key |-> k, path |-> rows[k].path]
    PROVE  Holds(r, k)'
<1> DEFINE entry == [key |-> k, path |-> rows[k].path]
           b == run[r].batch
<1>1. b \in Seq(Entry) /\ b # << >>
  BY DEF IInv, TypeOK, RunState
<1>2. PICK i \in DOMAIN b : b[i] = entry
  BY DEF Holds
<1>3. i # 1
  BY <1>1, <1>2 DEF Row
<1>4. Len(b) > 1 /\ \E j \in DOMAIN Tail(b) : Tail(b)[j] = entry
  BY <1>1, <1>2, <1>3, TailKeeps
<1>5. run'[r].pc = "fetch" /\ run'[r].batch = Tail(b)
  BY <1>4 DEF Continue, IInv, TypeOK
<1> QED
  BY <1>4, <1>5 DEF Holds

(* A row that every replica has is found as it is; the others stay to be   *)
(* read, or in the batch.                                                  *)
LEMMA ScanHolds ==
    ASSUME IInv, NEW r \in Runs, NEW j \in Keys, NEW k, ScanItem(r, j),
           Holds(r, k), Groupable(k), old[k] = {}, rows'[k].path = rows[k].path
    PROVE  Holds(r, k)'
<1>1. PICK path \in MayFind(j) : Finds(r, j, path)
  BY ScanFinds
<1> DEFINE entry == [key |-> k, path |-> rows[k].path]
           b     == run[r].batch
           batch == IF path # NoPath THEN Append(b, [key |-> j, path |-> path]) ELSE b
           left  == run[r].left \ {j}
<1>2. /\ run'[r].pc = IF left # {} THEN "scan" ELSE IF batch # << >> THEN "fetch" ELSE "idle"
      /\ run'[r].left = left
      /\ run'[r].batch = batch
  BY <1>1 DEF Finds
<1>3. b \in Seq(Entry) /\ Len(b) \in Nat
  BY DEF IInv, TypeOK, RunState
<1>4. run[r].pc = "scan"
  BY DEF ScanItem
<1>5. CASE k \in left
  BY <1>2, <1>5 DEF Holds
<1>6. ASSUME \E i \in DOMAIN batch : batch[i] = entry
      PROVE  Holds(r, k)'
  <2>1. batch # << >>
    BY <1>6
  <2>2. run'[r].pc # "idle"
    BY <1>2, <2>1
  <2> HIDE DEF batch
  <2> QED
    BY <1>2, <1>6, <2>2 DEF Holds
<1>7. CASE k = j
  <2>1. path = rows[k].path /\ path # NoPath
    BY <1>7, ProcessorAssumption DEF Groupable, MayFind, Found, Matches
  <2>2. batch = Append(b, entry)
    BY <1>7, <2>1
  <2> HIDE DEF batch, entry
  <2>3. Len(b) + 1 \in DOMAIN batch /\ batch[Len(b) + 1] = entry
    <3>1. Len(Append(b, entry)) = Len(b) + 1 /\ Append(b, entry)[Len(b) + 1] = entry
      BY <1>3
    <3>2. DOMAIN Append(b, entry) = 1 .. Len(b) + 1
      BY <1>3
    <3> QED
      BY <1>3, <2>2, <3>1, <3>2
  <2> QED
    BY <1>6, <2>3
<1>8. CASE k # j /\ k \notin run[r].left
  <2>1. PICK i \in DOMAIN b : b[i] = entry
    BY <1>8 DEF Holds
  <2> HIDE DEF entry
  <2>2. i \in DOMAIN batch /\ batch[i] = b[i]
    BY <1>3
  <2> QED
    BY <1>6, <2>1, <2>2
<1> QED
  BY <1>5, <1>7, <1>8

LEMMA PassesOverNone ==
    ASSUME IInv, [Next]_vars, NEW r \in Runs, NEW k \in Keys,
           Groupable(k), Groupable(k)', rows'[k].path = rows[k].path, old[k] = {},
           Holds(r, k), faults' # faults + 1, ~ScanFails(r)
    PROVE  Holds(r, k)'
<1> DEFINE entry == [key |-> k, path |-> rows[k].path]
<1>1. CASE run'[r] = run[r]
  BY <1>1 DEF Holds
<1>2. ASSUME run'[r] # run[r]
      PROVE  \E j \in Keys : ScanItem(r, j) \/ Fetch(r) \/ FetchFails(r)
                             \/ Update(r) \/ UpdateFails(r)
  <2>1. ASSUME NEW q \in Runs, Start(q) \/ Proceed(q) \/ Kill(q)
        PROVE  q = r
    BY <1>2, <2>1
    DEF IInv, TypeOK, Start, Proceed, Kill, ScanItem, ScanFails, Fetch, FetchFails, Update,
        UpdateFails, Unanswered, Continue, GoUpdate
  <2>2. Start(r) \/ Proceed(r) \/ Kill(r)
    BY <1>2, <2>1
    DEF Next, vars, Midnight, Archive, PutRow, PutOther, NewPut, ExpireRow, ExpireObject,
        CatchUp, Retry, LateUpdate
  <2>3. ~Start(r) /\ ~Kill(r)
    BY DEF Holds, Start, Kill, Unanswered, Fault
  <2> QED
    BY <2>2, <2>3 DEF Proceed
<1>3. ASSUME NEW j \in Keys, ScanItem(r, j)
      PROVE  Holds(r, k)'
  BY <1>3, ScanHolds
<1>4. CASE Fetch(r)
  <2>1. run'[r].pc = "update" /\ run'[r].batch = run[r].batch
    BY <1>4 DEF Fetch, GoUpdate, IInv, TypeOK
  <2>2. run[r].pc = "fetch"
    BY <1>4 DEF Fetch
  <2> QED
    BY <2>1, <2>2 DEF Holds
<1>5. CASE FetchFails(r)
  <2>1. Row(r) # entry
    <3>1. ~IsFetched(r)
      BY <1>5 DEF FetchFails, Fault
    <3>2. entry.path = rows[k].path
      OBVIOUS
    <3> HIDE DEF entry
    <3> QED
      BY <3>1, <3>2 DEF IsFetched, Groupable
  <2> QED
    BY <1>5, <2>1, ContinueHolds DEF FetchFails
<1>6. CASE Update(r)
  <2>1. Row(r).key # k
    <3>1. ASSUME Row(r).key = k
          PROVE  FALSE
      <4>1. rows'[k].status = "grouped"
        BY <1>6, <3>1 DEF Update, UpdateItem, CallOf, Put, Feed!Put, Updated
      <4> QED
        BY <4>1 DEF Groupable, Matches
    <3> QED
      BY <3>1
  <2>2. Row(r) # entry
    BY <2>1
  <2> QED
    BY <1>6, <2>2, ContinueHolds DEF Update
<1>7. CASE UpdateFails(r)
  <2>1. Row(r).key # k
    <3>1. ~MayUpdate(Row(r).key)
      BY <1>7 DEF UpdateFails, Unanswered, Fault
    <3>2. MayUpdate(k)
      BY DEF MayUpdate, Groupable, Matches, IInv, TypeOK
    <3> QED
      BY <3>1, <3>2
  <2>2. Row(r) # entry
    BY <2>1
  <2> QED
    BY <1>7, <2>2, ContinueHolds DEF UpdateFails
<1> QED
  BY <1>1, <1>2, <1>3, <1>4, <1>5, <1>6, <1>7

(* An event that a run has before it, that every replica has and that      *)
(* stays as it is, is grouped unless a call of the run fails.              *)
THEOREM Thorough == Spec => NoEventIsPassedOver
<1>1. IInv /\ [Next]_vars =>
        [\A r \in Runs, k \in Keys :
           Groupable(k) /\ Groupable(k)' /\ rows'[k].path = rows[k].path /\ old[k] = {}
             => (Holds(r, k) /\ ~Holds(r, k)' => faults' = faults + 1 \/ ScanFails(r))]_vars
  BY PassesOverNone
<1> QED
  BY <1>1, Invariance, PTL DEF Spec, NoEventIsPassedOver
=============================================================================
