-------------------------- MODULE AdmissionProofs --------------------------
(***************************************************************************)
(* Machine-checked proofs about Admission, for any requests, environments, *)
(* operators, projects and keys, any number of requests under way, and any *)
(* lag of the replicas.                                                    *)
(***************************************************************************)
EXTENDS Admission, SequenceTheorems, TLAPS

\* The theorems about the limiter, to be used of the limiter in Admission.
LimiterProofs == INSTANCE RateLimiterProofs

-----------------------------------------------------------------------------
(* The registry.                                                           *)

\* A row is appended to those of a project, the others keep theirs.
LEMMA PutFacts ==
    ASSUME Registry!TypeOK, NEW p \in Projects, NEW row \in Registry!Row,
           Registry!Put(p, row)
    PROVE  /\ table' \in [Projects -> Seq(Registry!Row)]
           /\ table'[p] = Append(table[p], row)
           /\ Len(table'[p]) = Len(table[p]) + 1
           /\ \A r \in Projects \ {p} : table'[r] = table[r]
           /\ \A v \in DOMAIN table[p] : table'[p][v] = table[p][v]
           /\ table'[p][Len(table[p]) + 1] = row
           /\ DOMAIN table'[p] = DOMAIN table[p] \cup {Len(table[p]) + 1}
<1>1. table \in [Projects -> Seq(Registry!Row)]
  BY DEF Registry!TypeOK
<1>2. table[p] \in Seq(Registry!Row)
  BY <1>1
<1>3. table' = [table EXCEPT ![p] = Append(table[p], row)]
  BY DEF Registry!Put
<1>4. Append(table[p], row) \in Seq(Registry!Row)
  BY <1>2
<1>5. table'[p] = Append(table[p], row) /\ \A r \in Projects \ {p} : table'[r] = table[r]
  BY <1>1, <1>3
<1>6. table' \in [Projects -> Seq(Registry!Row)]
  BY <1>1, <1>3, <1>4
<1>7. /\ Len(table'[p]) = Len(table[p]) + 1
      /\ \A v \in 1 .. Len(table[p]) : table'[p][v] = table[p][v]
      /\ table'[p][Len(table[p]) + 1] = row
  BY <1>2, <1>5, AppendProperties
<1>8. Len(table[p]) \in Nat /\ DOMAIN table[p] = 1 .. Len(table[p])
  BY <1>2
<1>9. table'[p] \in Seq(Registry!Row)
  BY <1>4, <1>5
<1>10. DOMAIN table'[p] = 1 .. (Len(table[p]) + 1)
  BY <1>7, <1>9
<1>11. DOMAIN table'[p] = DOMAIN table[p] \cup {Len(table[p]) + 1}
  BY <1>8, <1>10
<1> QED
  BY <1>5, <1>6, <1>7, <1>8, <1>11

LEMMA RunningIsRegistration ==
    ASSUME Registry!TypeOK, NEW o \in Operators, cli[o] # Registry!Resting
    PROVE  /\ cli[o] \in Registry!Registration
           /\ cli[o].project \in Projects /\ cli[o].key \in Keys
           /\ Registry!Active(cli[o].key) \in Registry!Row
BY DEF Registry!TypeOK, Registry!Registration, Registry!Active, Registry!Row

LEMMA CurrentIsRow ==
    ASSUME Registry!TypeOK, NEW p \in Projects, table[p] # << >>
    PROVE  /\ Registry!Current(p) \in Registry!Row
           /\ Len(table[p]) \in DOMAIN table[p]
           /\ [key |-> Registry!Current(p).key, status |-> "disabled"] \in Registry!Row
<1>1. table[p] \in Seq(Registry!Row)
  BY DEF Registry!TypeOK
<1>2. Len(table[p]) \in DOMAIN table[p]
  BY <1>1, EmptySeq
<1>3. Registry!Current(p) \in Registry!Row
  BY <1>1, <1>2 DEF Registry!Current
<1> QED
  BY <1>2, <1>3 DEF Registry!Row

\* A put keeps the types.
LEMMA PutType ==
    ASSUME Registry!TypeOK, NEW p \in Projects, NEW row \in Registry!Row,
           Registry!Put(p, row), settled' = settled
    PROVE  /\ table' \in [Projects -> Seq(Registry!Row)]
           /\ settled' \in [Projects -> Nat]
           /\ \A r \in Projects : settled'[r] <= Len(table'[r])
<1>1. \A r \in Projects : settled[r] \in Nat /\ settled[r] <= Len(table[r]) /\ Len(table[r]) \in Nat
  BY DEF Registry!TypeOK
<1>2. /\ table' \in [Projects -> Seq(Registry!Row)]
      /\ Len(table'[p]) = Len(table[p]) + 1
      /\ \A r \in Projects \ {p} : table'[r] = table[r]
  BY PutFacts
<1>3. \A r \in Projects : settled'[r] <= Len(table'[r])
  BY <1>1, <1>2
<1> QED
  BY <1>2, <1>3 DEF Registry!TypeOK

LEMMA RegistryTypeStep ==
    ASSUME Registry!TypeOK, [Registry!Next]_registryVars
    PROVE  Registry!TypeOK'
<1>1. ASSUME NEW o \in Operators, NEW p \in Projects, NEW k \in Keys, Registry!Mint(o, p, k)
      PROVE  Registry!TypeOK'
  BY <1>1 DEF Registry!Mint, Registry!TypeOK, Registry!Registration
<1>2. ASSUME NEW o \in Operators, Registry!PutProject(o)
      PROVE  Registry!TypeOK'
  <2>1. cli[o] # Registry!Resting /\ settled' = settled /\ late' = late
    BY <1>2 DEF Registry!PutProject
  <2>2. /\ table' \in [Projects -> Seq(Registry!Row)]
        /\ settled' \in [Projects -> Nat]
        /\ \A r \in Projects : settled'[r] <= Len(table'[r])
    BY <1>2, <2>1, RunningIsRegistration, PutType DEF Registry!PutProject
  <2>3. cli' \in [Operators -> Registry!Registration \cup {Registry!Resting}]
    BY <1>2 DEF Registry!PutProject, Registry!TypeOK
  <2> QED
    BY <2>1, <2>2, <2>3 DEF Registry!TypeOK
<1>3. ASSUME NEW o \in Operators, Registry!PutProjectFails(o)
      PROVE  Registry!TypeOK'
  <2>1. cli[o] \in Registry!Registration
    BY <1>3, RunningIsRegistration DEF Registry!PutProjectFails
  <2> QED
    BY <1>3, <2>1 DEF Registry!PutProjectFails, Registry!TypeOK
<1>4. ASSUME NEW d \in Registry!Registration, Registry!Deliver(d)
      PROVE  Registry!TypeOK'
  <2>1. d.project \in Projects /\ Registry!Active(d.key) \in Registry!Row
    BY DEF Registry!Registration, Registry!Active, Registry!Row
  <2>2. /\ table' \in [Projects -> Seq(Registry!Row)]
        /\ settled' \in [Projects -> Nat]
        /\ \A r \in Projects : settled'[r] <= Len(table'[r])
    BY <1>4, <2>1, PutType DEF Registry!Deliver
  <2> QED
    BY <1>4, <2>2 DEF Registry!Deliver, Registry!TypeOK
<1>5. ASSUME NEW p \in Projects, Registry!Disable(p)
      PROVE  Registry!TypeOK'
  <2>1. /\ table' \in [Projects -> Seq(Registry!Row)]
        /\ settled' \in [Projects -> Nat]
        /\ \A r \in Projects : settled'[r] <= Len(table'[r])
    BY <1>5, CurrentIsRow, PutType DEF Registry!Disable
  <2> QED
    BY <1>5, <2>1 DEF Registry!Disable, Registry!TypeOK
<1>6. ASSUME NEW p \in Projects, Registry!Settle(p)
      PROVE  Registry!TypeOK'
  <2>1. \A r \in Projects : settled[r] \in Nat /\ settled[r] <= Len(table[r]) /\ Len(table[r]) \in Nat
    BY DEF Registry!TypeOK
  <2>2. settled' = [settled EXCEPT ![p] = settled[p] + 1] /\ settled[p] < Len(table[p])
    BY <1>6 DEF Registry!Settle
  <2>3. settled' \in [Projects -> Nat] /\ \A r \in Projects : settled'[r] <= Len(table[r])
    BY <2>1, <2>2 DEF Registry!TypeOK
  <2> QED
    BY <1>6, <2>3 DEF Registry!Settle, Registry!TypeOK
<1>7. CASE UNCHANGED registryVars
  BY <1>7 DEF registryVars, Registry!TypeOK
<1> QED
  BY <1>1, <1>2, <1>3, <1>4, <1>5, <1>6, <1>7 DEF Registry!Next

\* What every step of the registry leaves: rows in their places.
Grows(p) ==
    /\ \A v \in DOMAIN table[p] : v \in DOMAIN table'[p] /\ table'[p][v] = table[p][v]
    /\ settled[p] <= settled'[p]

LEMMA SettledType ==
    ASSUME Registry!TypeOK, NEW p \in Projects
    PROVE  settled[p] \in Nat /\ settled[p] <= Len(table[p]) /\ Len(table[p]) \in Nat
           /\ DOMAIN table[p] = 1 .. Len(table[p])
BY DEF Registry!TypeOK

LEMMA PutGrows ==
    ASSUME Registry!TypeOK, NEW q \in Projects, NEW row \in Registry!Row,
           Registry!Put(q, row), settled' = settled, NEW p \in Projects
    PROVE  Grows(p)
<1>1. settled[p] <= settled'[p]
  BY SettledType
<1>2. CASE p = q
  <2>1. \A v \in DOMAIN table[p] : table'[p][v] = table[p][v]
    BY <1>2, PutFacts
  <2>2. DOMAIN table'[p] = DOMAIN table[p] \cup {Len(table[p]) + 1}
    BY <1>2, PutFacts
  <2> QED
    BY <1>1, <2>1, <2>2 DEF Grows
<1>3. CASE p # q
  <2>1. table'[p] = table[p]
    BY <1>3, PutFacts
  <2> QED
    BY <1>1, <2>1 DEF Grows
<1> QED
  BY <1>2, <1>3

LEMMA TableGrows ==
    ASSUME Registry!TypeOK, [Registry!Next]_registryVars, NEW p \in Projects
    PROVE  Grows(p)
<1>1. ASSUME NEW o \in Operators, Registry!PutProject(o)
      PROVE  Grows(p)
  BY <1>1, RunningIsRegistration, PutGrows DEF Registry!PutProject
<1>2. ASSUME NEW d \in Registry!Registration, Registry!Deliver(d)
      PROVE  Grows(p)
  <2>1. d.project \in Projects /\ Registry!Active(d.key) \in Registry!Row
    BY DEF Registry!Registration, Registry!Active, Registry!Row
  <2> QED
    BY <1>2, <2>1, PutGrows DEF Registry!Deliver
<1>3. ASSUME NEW q \in Projects, Registry!Disable(q)
      PROVE  Grows(p)
  BY <1>3, CurrentIsRow, PutGrows DEF Registry!Disable
<1>4. ASSUME NEW q \in Projects, Registry!Settle(q)
      PROVE  Grows(p)
  <2>1. settled' = [settled EXCEPT ![q] = settled[q] + 1] /\ table' = table
    BY <1>4 DEF Registry!Settle
  <2>2. settled[p] \in Nat /\ settled \in [Projects -> Nat]
    BY DEF Registry!TypeOK
  <2>3. settled[p] <= settled'[p]
    BY <2>1, <2>2
  <2> QED
    BY <2>1, <2>3 DEF Grows
<1>5. ASSUME table' = table, settled' = settled
      PROVE  Grows(p)
  BY <1>5, SettledType DEF Grows
<1> QED
  BY <1>1, <1>2, <1>3, <1>4, <1>5
  DEF Registry!Next, Registry!Mint, Registry!PutProjectFails, registryVars

-----------------------------------------------------------------------------
(* Keys are unique.                                                        *)

InTable(p, k) == \E v \in DOMAIN table[p] : table[p][v].key = k

InLate(p, k) == [key |-> k, project |-> p] \in late

InCli(p, k) == \E o \in Operators : cli[o] = [key |-> k, project |-> p]

LEMMA KeysOfMeans ==
    ASSUME NEW p \in Projects, NEW k \in Keys
    PROVE  k \in Registry!KeysOf(p) <=> InTable(p, k) \/ InLate(p, k) \/ InCli(p, k)
BY DEF Registry!KeysOf, InTable, InLate, InCli

\* A put brings the table no key but that of its row.
LEMMA PutKeys ==
    ASSUME Registry!TypeOK, NEW q \in Projects, NEW row \in Registry!Row,
           Registry!Put(q, row), NEW p \in Projects, NEW k \in Keys, InTable(p, k)'
    PROVE  InTable(p, k) \/ (p = q /\ k = row.key)
<1>1. PICK v \in DOMAIN table'[p] : table'[p][v].key = k
  BY DEF InTable
<1>2. CASE p = q
  <2>1. CASE v = Len(table[p]) + 1
    BY <1>1, <1>2, <2>1, PutFacts
  <2>2. CASE v # Len(table[p]) + 1
    <3>1. v \in DOMAIN table[p]
      BY <1>1, <1>2, <2>2, PutFacts
    <3>2. table'[p][v] = table[p][v]
      BY <1>2, <3>1, PutFacts
    <3> QED
      BY <1>1, <3>1, <3>2 DEF InTable
  <2> QED
    BY <2>1, <2>2
<1>3. CASE p # q
  <2>1. table'[p] = table[p]
    BY <1>3, PutFacts
  <2> QED
    BY <1>1, <2>1 DEF InTable
<1> QED
  BY <1>2, <1>3

\* Only Mint gives a project a key that it has not had, and then one that no
\* project has had.
LEMMA NewKeysAreNew ==
    ASSUME Registry!TypeOK, [Registry!Next]_registryVars,
           NEW p \in Projects, NEW k \in Keys, k \in Registry!KeysOf(p)'
    PROVE  \/ k \in Registry!KeysOf(p)
           \/ \E o \in Operators :
                /\ Registry!Mint(o, p, k)
                /\ \A r \in Projects : k \notin Registry!KeysOf(r)
<1>0. InTable(p, k)' \/ InLate(p, k)' \/ InCli(p, k)'
  BY DEF Registry!KeysOf, InTable, InLate, InCli
<1> DEFINE Had == InTable(p, k) \/ InLate(p, k) \/ InCli(p, k)
<1>1. ASSUME NEW o \in Operators, NEW q \in Projects, NEW j \in Keys, Registry!Mint(o, q, j)
      PROVE  Had \/ (q = p /\ j = k)
  <2>1. cli' = [cli EXCEPT ![o] = [key |-> j, project |-> q]] /\ table' = table /\ late' = late
    BY <1>1 DEF Registry!Mint
  <2>2. CASE InTable(p, k)' \/ InLate(p, k)'
    BY <2>1, <2>2 DEF InTable, InLate
  <2>3. CASE InCli(p, k)'
    <3>1. PICK x \in Operators : cli'[x] = [key |-> k, project |-> p]
      BY <2>3 DEF InCli
    <3>2. CASE x = o
      BY <2>1, <3>1, <3>2 DEF Registry!TypeOK
    <3>3. CASE x # o
      BY <2>1, <3>1, <3>3 DEF Registry!TypeOK, InCli
    <3> QED
      BY <3>2, <3>3
  <2> QED
    BY <1>0, <2>2, <2>3
\* A command that ends; its row may go on to the table or to the late puts.
<1>2. ASSUME NEW o \in Operators, cli[o] # Registry!Resting,
             cli' = [cli EXCEPT ![o] = Registry!Resting],
             InTable(p, k)' => InTable(p, k) \/ (p = cli[o].project /\ k = cli[o].key),
             late' \subseteq late \cup {cli[o]}
      PROVE  Had
  <2>1. /\ cli[o] = [key |-> cli[o].key, project |-> cli[o].project]
    BY <1>2 DEF Registry!TypeOK, Registry!Registration
  <2>2. CASE InTable(p, k)'
    BY <1>2, <2>1, <2>2 DEF InCli
  <2>3. CASE InLate(p, k)'
    BY <1>2, <2>3 DEF InLate, InCli
  <2>4. CASE InCli(p, k)'
    <3>1. PICK x \in Operators : cli'[x] = [key |-> k, project |-> p]
      BY <2>4 DEF InCli
    <3>2. x # o
      BY <1>2, <3>1, AdmissionAssumption DEF Registry!TypeOK, Registry!Resting
    <3> QED
      BY <1>2, <3>1, <3>2 DEF Registry!TypeOK, InCli
  <2> QED
    BY <1>0, <2>2, <2>3, <2>4
<1>3. ASSUME NEW o \in Operators, Registry!PutProject(o)
      PROVE  Had
  <2>1. InTable(p, k)' => InTable(p, k) \/ (p = cli[o].project /\ k = cli[o].key)
    BY <1>3, RunningIsRegistration, PutKeys DEF Registry!PutProject, Registry!Active
  <2> QED
    BY <1>2, <1>3, <2>1 DEF Registry!PutProject
<1>4. ASSUME NEW o \in Operators, Registry!PutProjectFails(o)
      PROVE  Had
  BY <1>2, <1>4 DEF Registry!PutProjectFails, InTable
<1>5. ASSUME NEW d \in Registry!Registration, Registry!Deliver(d)
      PROVE  Had
  <2>1. d.project \in Projects /\ Registry!Active(d.key) \in Registry!Row
        /\ d = [key |-> d.key, project |-> d.project]
    BY DEF Registry!Registration, Registry!Active, Registry!Row
  <2>2. InTable(p, k)' => InTable(p, k) \/ (p = d.project /\ k = d.key)
    BY <1>5, <2>1, PutKeys DEF Registry!Deliver, Registry!Active
  <2> QED
    BY <1>0, <1>5, <2>1, <2>2 DEF Registry!Deliver, InLate, InCli
<1>6. ASSUME NEW q \in Projects, Registry!Disable(q)
      PROVE  Had
  <2>1. InTable(p, k)' => InTable(p, k) \/ (p = q /\ k = Registry!Current(q).key)
    BY <1>6, CurrentIsRow, PutKeys DEF Registry!Disable
  <2>2. InTable(q, Registry!Current(q).key)
    BY <1>6, CurrentIsRow DEF Registry!Disable, Registry!Current, InTable
  <2> QED
    BY <1>0, <1>6, <2>1, <2>2 DEF Registry!Disable, InLate, InCli
<1>7. ASSUME table' = table, cli' = cli, late' = late
      PROVE  Had
  BY <1>0, <1>7 DEF InTable, InLate, InCli
<1>8. Had \/ \E o \in Operators : Registry!Mint(o, p, k)
  BY <1>1, <1>3, <1>4, <1>5, <1>6, <1>7 DEF Registry!Next, Registry!Settle, registryVars
<1> QED
  BY <1>8, KeysOfMeans DEF Registry!Mint

-----------------------------------------------------------------------------
(* The data of a request.                                                  *)

LEMMA RequestType ==
    ASSUME NEW q \in Requests
    PROVE  /\ q.endpoint \in {"envelope", "store", "events"}
           /\ q.project \in Projects \cup {NoProject}
           /\ q.header \in Keys \cup {NoKey, Absent}
           /\ q.query \in Keys \cup {NoKey}
           /\ q.encoding \in Encodings
           /\ q.body.coding \in Codings
           /\ q.body.wire \in Nat /\ q.body.size \in Nat
           /\ q.body.dsn # NoDsn => q.body.dsn.key \in Keys \cup {NoKey}
<1>1. q \in Request
  BY AdmissionAssumption
<1>2. q.body \in Body
  BY <1>1 DEF Request
<1>3. q.body.dsn # NoDsn => q.body.dsn.key \in Keys \cup {NoKey}
  BY <1>2 DEF Body
<1> QED
  BY <1>1, <1>2, <1>3 DEF Request, Body

\* The key that is looked up is one of the forms.
LEMMA KeyIsAForm ==
    ASSUME NEW q \in Requests, KeyOf(q) \in Keys
    PROVE  KeyOf(q) \in Forms(q)
<1>1. CASE q.endpoint = "events"
  BY <1>1, RequestType, AdmissionAssumption DEF KeyOf, SentryKey, Forms
<1>2. CASE q.endpoint # "events" /\ q.query # NoKey
  BY <1>2 DEF KeyOf, AuthKey, Forms
<1>3. CASE q.endpoint # "events" /\ q.query = NoKey /\ q.header # Absent
  BY <1>3, AdmissionAssumption DEF KeyOf, AuthKey, Forms
<1>4. CASE q.endpoint # "events" /\ q.query = NoKey /\ q.header = Absent
  <2>1. KeyOf(q) = DsnKey(q) /\ DsnKey(q) # NoKey
    BY <1>4, AdmissionAssumption DEF KeyOf, AuthKey
  <2>2. q.body.dsn # NoDsn /\ KeyOf(q) = q.body.dsn.key
    BY <2>1 DEF DsnKey, WireDsn
  <2> QED
    BY <1>4, <2>1, <2>2 DEF Forms
<1> QED
  BY <1>1, <1>2, <1>3, <1>4

\* A request with one key in all its forms gets as far as the lookup.
LEMMA OneKeyIsUsable ==
    ASSUME NEW q \in Requests, NEW k \in Keys, Forms(q) = {k},
           ~IsHiddenDsn(q), ~IsShadowedDsn(q)
    PROVE  ~Disagrees(q) /\ ~Unauthenticated(q) /\ KeyOf(q) # NoKey
<1>1. q.header \notin {Absent, NoKey} => q.header = k
  BY DEF Forms
<1>2. q.query # NoKey => q.query = k
  BY DEF Forms
<1>3. q.endpoint # "events" /\ q.body.dsn # NoDsn /\ q.body.dsn.key # NoKey => q.body.dsn.key = k
  BY DEF Forms
<1>4. k # NoKey /\ k # Absent
  BY AdmissionAssumption
<1>5. CASE q.header \notin {Absent, NoKey} \/ q.query # NoKey
  <2>1. ~Disagrees(q)
    BY <1>1, <1>2, AdmissionAssumption DEF Disagrees, FormsDisagree
  <2>2. ~Unauthenticated(q)
    BY <1>1, <1>2, <1>4, <1>5, AdmissionAssumption DEF Unauthenticated, SentryKey, Present
  <2>3. KeyOf(q) # NoKey
    BY <1>1, <1>2, <1>4, <1>5, AdmissionAssumption DEF KeyOf, SentryKey, AuthKey
  <2> QED
    BY <2>1, <2>2, <2>3
<1>6. CASE q.header \in {Absent, NoKey} /\ q.query = NoKey
  <2>1. q.endpoint # "events" /\ q.body.dsn # NoDsn /\ q.body.dsn.key = k
    BY <1>6 DEF Forms
  <2>2. DsnKey(q) = k
    BY <1>6, <2>1 DEF IsHiddenDsn, IsShadowedDsn, DsnKey, WireDsn
  <2> QED
    BY <1>4, <1>6, <2>1, <2>2, AdmissionAssumption
    DEF IsShadowedDsn, Disagrees, FormsDisagree, Unauthenticated, Present, KeyOf, AuthKey
<1> QED
  BY <1>5, <1>6

\* What the decoders read, and what they should.
LEMMA CodingIsMeant ==
    ASSUME NEW q \in Requests
    PROVE  /\ q.body.coding \in CodingsRead(q.encoding) /\ q.encoding # ""
                => q.body.coding \in Means(q.encoding)
           /\ q.body.coding \in Means(q.encoding) /\ ~IsMistaken(q)
                => q.body.coding \in CodingsRead(q.encoding)
           /\ q.body.coding \in Means("") => q.body.coding = "plain"
           /\ q.body.coding = "plain" => q.body.coding \in Means("")
<1>1. q.encoding \in Encodings /\ q.body.coding \in Codings
  BY RequestType
<1> QED
  BY <1>1 DEF Encodings, Codings, CodingsRead, Inflates, IsTakenForZlib, IsMistaken, Means

\* An ingest request that is neither malformed nor rejected is well formed.
LEMMA AcceptedIsWellFormed ==
    ASSUME NEW q \in Requests, q.endpoint # "events", ~IsDeparture(q),
           ~IsMalformed(q), IsAccepted(q)
    PROVE  WellFormed(q)
<1>1. q.endpoint \in {"envelope", "store"} /\ q.body.decodes /\ ~IsTooLarge(q)
  BY RequestType DEF IsMalformed
<1>2. q.endpoint = "envelope" => ParsesEnvelope(q)
  BY <1>1 DEF IsAccepted, IsDeparture, IsUnparsed, RouteOf
<1>3. CASE q.encoding = ""
  <2>1. q.endpoint = "envelope" => q.body.coding = "plain"
    BY <1>2, <1>3 DEF ParsesEnvelope
  <2>2. q.body.coding = "plain"
    BY <1>1, <1>3, <2>1 DEF IsDeparture, IsOpaque
  <2>3. q.body.size = q.body.wire
    BY <2>2, SizesAssumption
  <2>4. MaxBodyBytes > 0 => q.body.wire <= MaxBodyBytes
    BY <1>1, RequestType, AdmissionAssumption DEF IsTooLarge
  <2> QED
    BY <1>1, <1>2, <1>3, <2>2, <2>3, <2>4, CodingIsMeant DEF WellFormed, ParsesEnvelope
<1>4. CASE q.encoding # ""
  <2>1. q.body.coding \in Means(q.encoding)
    BY <1>4, CodingIsMeant DEF IsAccepted, Decompresses
  <2>2. MaxBodyBytes > 0 => q.body.size <= MaxBodyBytes
    BY <1>4 DEF IsAccepted, Decompresses, SizeRead
  <2>3. MaxBodyBytes > 0 => q.body.wire <= MaxBodyBytes
    BY <1>1, RequestType, AdmissionAssumption DEF IsTooLarge
  <2> QED
    BY <1>1, <1>2, <2>1, <2>2, <2>3 DEF WellFormed, ParsesEnvelope
<1> QED
  BY <1>3, <1>4

\* And a well formed one is neither.
LEMMA WellFormedIsAccepted ==
    ASSUME NEW q \in Requests, q.endpoint # "events", ~IsDeparture(q), WellFormed(q)
    PROVE  ~IsMalformed(q) /\ IsAccepted(q)
<1>1. q.body.decodes /\ q.body.coding \in Means(q.encoding)
  BY DEF WellFormed
<1>2. MaxBodyBytes > 0 => q.body.wire <= MaxBodyBytes /\ q.body.size <= MaxBodyBytes
  BY DEF WellFormed
<1>3. ~IsMalformed(q)
  BY <1>1, <1>2, RequestType, AdmissionAssumption DEF IsMalformed, IsTooLarge
<1>4. q.body.coding \in CodingsRead(q.encoding)
  BY <1>1, CodingIsMeant DEF IsDeparture
<1>5. Decompresses(q)
  BY <1>2, <1>4 DEF Decompresses, SizeRead
<1>6. RouteOf(q) = "envelope" => q.endpoint = "envelope"
  BY RequestType DEF RouteOf
<1>7. q.encoding = "" => q.body.coding = "plain"
  BY <1>1, CodingIsMeant
<1> QED
  BY <1>3, <1>5, <1>6, <1>7 DEF IsAccepted, ParsesEnvelope, WellFormed

-----------------------------------------------------------------------------
(* The inductive invariant.                                                *)

\* No two projects have, had or are about to have the same key.
KeysAreUnique ==
    \A k \in Keys : \A p, r \in Projects :
        k \in Registry!KeysOf(p) /\ k \in Registry!KeysOf(r) => p = r

\* Every bucket is of a key that some project was registered with.
BucketsAreRegistered ==
    \A e \in Envs : \A k \in DOMAIN buckets[e] :
        \E p \in Projects : Registry!Registered(p, k)

\* A request is where it belongs, and replicas have not gone back since.
Arrived(e) ==
    inv[e].pc # "idle" =>
        /\ Req(e).endpoint = "events" <=> e \in QueryEnvs
        /\ ProjectOf(Req(e)) \in Projects => inv[e].from <= settled[ProjectOf(Req(e))]

WasCurrent(e) ==
    \E v \in Window(e) : IsActiveIn(v, ProjectOf(Req(e)), KeyOf(Req(e)))

\* What the lookup let through.
LookedUp(e) ==
    inv[e].pc = "valid" =>
        /\ KeyOf(Req(e)) \in Keys /\ ProjectOf(Req(e)) \in Projects
        /\ ~IsMalformed(Req(e))
        /\ WasCurrent(e)

AInv ==
    /\ Registry!TypeOK
    /\ inv \in [AllEnvs -> Invocation]
    /\ DOMAIN buckets = Envs
    /\ KeysAreUnique
    /\ BucketsAreRegistered
    /\ \A e \in AllEnvs : Arrived(e) /\ LookedUp(e)

LEMMA WindowIsInTable ==
    ASSUME Registry!TypeOK, NEW p \in Projects, NEW k \in Keys, NEW n \in Nat,
           NEW v \in n .. Len(table[p]), IsActiveIn(v, p, k)
    PROVE  v \in DOMAIN table[p] /\ v \in Nat /\ v >= n /\ table[p][v] = Registry!Active(k)
BY SettledType DEF IsActiveIn

\* What is registered stays so.
LEMMA RegisteredStays ==
    ASSUME Registry!TypeOK, [Registry!Next]_registryVars,
           NEW p \in Projects, NEW k, Registry!Registered(p, k)
    PROVE  Registry!Registered(p, k)'
<1>1. PICK v \in DOMAIN table[p] : table[p][v] = Registry!Active(k)
  BY DEF Registry!Registered
<1>2. v \in DOMAIN table'[p] /\ table'[p][v] = table[p][v]
  BY <1>1, TableGrows DEF Grows
<1> QED
  BY <1>1, <1>2 DEF Registry!Registered, Registry!Active

LEMMA ReqType ==
    ASSUME AInv, NEW e \in AllEnvs
    PROVE  /\ Req(e) \in Requests /\ inv[e].from \in Nat
           /\ inv[e].pc \in {"idle", "arrived", "valid"}
           /\ inv[e] \in Invocation
BY DEF AInv, Invocation, Req

\* A step of the registry keeps its part of the invariant,
LEMMA RegistryKeeps ==
    ASSUME AInv, [Registry!Next]_registryVars
    PROVE  Registry!TypeOK' /\ KeysAreUnique'
<1>1. Registry!TypeOK /\ Registry!TypeOK'
  BY RegistryTypeStep DEF AInv
<1>2. ASSUME NEW k \in Keys, NEW p \in Projects, NEW r \in Projects,
             k \in Registry!KeysOf(p)', k \in Registry!KeysOf(r)'
      PROVE  p = r
  <2>1. CASE k \in Registry!KeysOf(p) /\ k \in Registry!KeysOf(r)
    BY <2>1 DEF AInv, KeysAreUnique
  <2>2. CASE k \notin Registry!KeysOf(p) \/ k \notin Registry!KeysOf(r)
    <3>1. PICK o \in Operators : Registry!Mint(o, p, k)
      BY <1>1, <1>2, <2>2, NewKeysAreNew
    <3>2. PICK x \in Operators : Registry!Mint(x, r, k)
      BY <1>1, <1>2, <2>2, NewKeysAreNew
    <3>3. cli'[o] = [key |-> k, project |-> p] /\ cli'[x] = [key |-> k, project |-> r]
      BY <1>1, <3>1, <3>2 DEF Registry!Mint, Registry!TypeOK
    <3>4. o = x
      <4>1. CASE o # x
        <5>1. cli'[x] = Registry!Resting
          BY <1>1, <3>1, <3>2, <4>1 DEF Registry!Mint, Registry!TypeOK
        <5>2. k = NoKey
          BY <3>3, <5>1 DEF Registry!Resting
        <5> QED
          BY <5>2, AdmissionAssumption
      <4> QED
        BY <4>1
    <3> QED
      BY <3>3, <3>4
  <2> QED
    BY <2>1, <2>2
<1> QED
  BY <1>1, <1>2 DEF KeysAreUnique

\* and that of an invocation which it leaves alone.
LEMMA OthersStay ==
    ASSUME AInv, [Registry!Next]_registryVars, NEW f \in AllEnvs, inv'[f] = inv[f]
    PROVE  Arrived(f)' /\ LookedUp(f)'
<1>1. Registry!TypeOK /\ Registry!TypeOK' /\ Arrived(f) /\ LookedUp(f)
  BY RegistryKeeps DEF AInv
<1>2. Req(f)' = Req(f) /\ inv[f].from \in Nat
  BY ReqType DEF Req
<1>3. Arrived(f)'
  <2> SUFFICES ASSUME inv[f].pc # "idle"
               PROVE  /\ Req(f).endpoint = "events" <=> f \in QueryEnvs
                      /\ ProjectOf(Req(f)) \in Projects => inv[f].from <= settled'[ProjectOf(Req(f))]
    BY <1>2 DEF Arrived
  <2>1. CASE ProjectOf(Req(f)) \in Projects
    <3>1. settled[ProjectOf(Req(f))] <= settled'[ProjectOf(Req(f))]
      BY <1>1, <2>1, TableGrows DEF Grows
    <3>2. settled[ProjectOf(Req(f))] \in Nat /\ settled'[ProjectOf(Req(f))] \in Nat
      BY <1>1, <2>1 DEF Registry!TypeOK
    <3> QED
      BY <1>1, <1>2, <3>1, <3>2 DEF Arrived
  <2>2. CASE ProjectOf(Req(f)) \notin Projects
    BY <1>1, <2>2 DEF Arrived
  <2> QED
    BY <2>1, <2>2
<1>4. LookedUp(f)'
  <2> DEFINE p == ProjectOf(Req(f))
             k == KeyOf(Req(f))
  <2> SUFFICES ASSUME inv[f].pc = "valid"
               PROVE  /\ k \in Keys /\ p \in Projects /\ ~IsMalformed(Req(f))
                      /\ WasCurrent(f)'
    BY <1>2 DEF LookedUp
  <2>1. k \in Keys /\ p \in Projects /\ ~IsMalformed(Req(f)) /\ WasCurrent(f)
    BY <1>1 DEF LookedUp
  <2>2. PICK v \in inv[f].from .. Len(table[p]) : IsActiveIn(v, p, k)
    BY <2>1 DEF WasCurrent, Window
  <2>3. v \in DOMAIN table[p] /\ v \in Nat /\ v >= inv[f].from /\ table[p][v] = Registry!Active(k)
    BY <1>1, <1>2, <2>1, <2>2, WindowIsInTable
  <2>4. v \in DOMAIN table'[p] /\ table'[p][v] = Registry!Active(k)
    BY <1>1, <2>1, <2>3, TableGrows DEF Grows
  <2>5. v \in 1 .. Len(table'[p]) /\ Len(table'[p]) \in Nat
    BY <1>1, <2>1, <2>4 DEF Registry!TypeOK
  <2>6. v \in inv[f].from .. Len(table'[p]) /\ v # 0
    BY <1>2, <2>3, <2>5
  <2>7. WasCurrent(f)'
    BY <1>2, <2>4, <2>6 DEF WasCurrent, Window, IsActiveIn, Registry!Active
  <2> QED
    BY <2>1, <2>7
<1> QED
  BY <1>3, <1>4

\* The end of an invocation, whatever it leaves in the buckets.
LEMMA InvocationEnds ==
    ASSUME AInv, NEW e \in AllEnvs, Respond(e), UNCHANGED registryVars,
           DOMAIN buckets' = Envs, BucketsAreRegistered'
    PROVE  AInv'
<1>1. inv' = [inv EXCEPT ![e] = Idle] /\ inv \in [AllEnvs -> Invocation]
  BY DEF Respond, AInv
<1>2. Idle \in Invocation /\ Idle.pc = "idle"
  BY AdmissionAssumption DEF Idle, Invocation
<1>3. inv' \in [AllEnvs -> Invocation]
  BY <1>1, <1>2
<1>4. Registry!TypeOK' /\ KeysAreUnique'
  BY RegistryKeeps
<1>5. ASSUME NEW f \in AllEnvs
      PROVE  Arrived(f)' /\ LookedUp(f)'
  <2>1. CASE f = e
    <3>1. inv'[f].pc = "idle"
      BY <1>1, <1>2, <2>1
    <3> QED
      BY <3>1 DEF Arrived, LookedUp
  <2>2. CASE f # e
    <3>1. inv'[f] = inv[f]
      BY <1>1, <2>2
    <3> QED
      BY <3>1, OthersStay
  <2> QED
    BY <2>1, <2>2
<1> QED
  BY <1>3, <1>4, <1>5 DEF AInv

\* An invocation that goes on.
LEMMA InvocationGoesOn ==
    ASSUME AInv, NEW e \in AllEnvs, NEW i \in Invocation, inv' = [inv EXCEPT ![e] = i],
           UNCHANGED <<registryVars, limiterVars>>, Arrived(e)', LookedUp(e)'
    PROVE  AInv'
<1>1. inv \in [AllEnvs -> Invocation]
  BY DEF AInv
<1>2. Registry!TypeOK' /\ KeysAreUnique'
  BY RegistryKeeps
<1>3. DOMAIN buckets' = Envs /\ BucketsAreRegistered'
  BY DEF AInv, BucketsAreRegistered, registryVars, limiterVars, Registry!Registered, Registry!Active
<1>4. ASSUME NEW f \in AllEnvs
      PROVE  Arrived(f)' /\ LookedUp(f)'
  <2>1. CASE f # e
    <3>1. inv'[f] = inv[f]
      BY <1>1, <2>1
    <3> QED
      BY <3>1, OthersStay
  <2> QED
    BY <2>1
<1> QED
  BY <1>1, <1>2, <1>3, <1>4 DEF AInv

\* The limiter is asked about a key that was looked up.
LEMMA ChargedIsRegistered ==
    ASSUME AInv, NEW e \in Envs, inv[e].pc = "valid", NEW t,
           Limiter!SetBucket(e, KeyOf(Req(e)), t), UNCHANGED registryVars
    PROVE  DOMAIN buckets' = Envs /\ BucketsAreRegistered'
<1> DEFINE k == KeyOf(Req(e))
           p == ProjectOf(Req(e))
<1>1. e \in AllEnvs
  BY DEF AllEnvs
<1>2. k \in Keys /\ p \in Projects /\ WasCurrent(e) /\ inv[e].from \in Nat /\ Registry!TypeOK
  BY <1>1, ReqType DEF AInv, LookedUp
<1>3. Registry!Registered(p, k)
  <2>1. PICK v \in inv[e].from .. Len(table[p]) : IsActiveIn(v, p, k)
    BY <1>2 DEF WasCurrent, Window
  <2> QED
    BY <1>2, <2>1, WindowIsInTable DEF Registry!Registered
<1>4. ASSUME NEW f \in Envs, NEW x \in DOMAIN buckets'[f]
      PROVE  \E r \in Projects : Registry!Registered(r, x)
  <2>1. x \in DOMAIN buckets[f] \/ x = k
    BY DEF Limiter!SetBucket, AInv
  <2> QED
    BY <1>2, <1>3, <2>1 DEF AInv, BucketsAreRegistered
<1>5. \A r \in Projects : \A x : Registry!Registered(r, x) => Registry!Registered(r, x)'
  BY DEF registryVars, Registry!Registered, Registry!Active
<1>6. DOMAIN buckets' = Envs
  BY DEF Limiter!SetBucket, AInv
<1> QED
  BY <1>4, <1>5, <1>6 DEF BucketsAreRegistered

LEMMA ReceiveStep ==
    ASSUME AInv, NEW e \in AllEnvs, NEW q \in Requests, Receive(e, q)
    PROVE  AInv'
<1> DEFINE i == [pc |-> "arrived", req |-> q, from |-> SettledAt(ProjectOf(q))]
<1>1. Registry!TypeOK /\ inv \in [AllEnvs -> Invocation]
  BY DEF AInv
<1>2. SettledAt(ProjectOf(q)) \in Nat
  BY <1>1, SettledType DEF SettledAt
<1>3. i \in Invocation
  BY <1>2 DEF Invocation
<1>4. inv' = [inv EXCEPT ![e] = i] /\ inv'[e] = i
  BY <1>1 DEF Receive
<1>5. UNCHANGED <<registryVars, limiterVars>> /\ settled' = settled
  BY DEF Receive, registryVars
<1>6. Arrived(e)'
  <2>1. ProjectOf(q) \in Projects => SettledAt(ProjectOf(q)) <= settled[ProjectOf(q)]
    BY <1>1, SettledType DEF SettledAt
  <2>2. (q.endpoint = "events") <=> (e \in QueryEnvs)
    BY DEF Receive
  <2>3. Req(e)' = q /\ inv'[e].from = SettledAt(ProjectOf(q))
    BY <1>4 DEF Req
  <2> QED
    BY <1>5, <2>1, <2>2, <2>3 DEF Arrived
<1>7. LookedUp(e)'
  BY <1>4 DEF LookedUp
<1> HIDE DEF i
<1> QED
  BY <1>3, <1>4, <1>5, <1>6, <1>7, InvocationGoesOn

\* The row that was read is one of the window.
LEMMA ReadIsInWindow ==
    ASSUME AInv, NEW e \in AllEnvs, IsLookedUp(e), NEW v \in MayRead(e)
    PROVE  v \in Window(e)
<1>1. ProjectOf(Req(e)) \in Projects /\ inv[e].pc # "idle"
  BY DEF IsLookedUp
<1>2. inv[e].from <= settled[ProjectOf(Req(e))] /\ inv[e].from \in Nat
  BY <1>1, ReqType DEF AInv, Arrived
<1>3. settled[ProjectOf(Req(e))] \in Nat /\ Len(table[ProjectOf(Req(e))]) \in Nat
  BY <1>1, SettledType DEF AInv
<1> QED
  BY <1>2, <1>3 DEF MayRead, Registry!MayRead, Window

\* ValidateKey says yes to a row exactly when it is active with the key.
LEMMA ValidIsActive ==
    ASSUME AInv, NEW e \in AllEnvs, IsLookedUp(e), NEW v \in MayRead(e)
    PROVE  IsValid(e, v) <=> IsActiveIn(v, ProjectOf(Req(e)), KeyOf(Req(e)))
<1> DEFINE p == ProjectOf(Req(e))
<1>1. p \in Projects /\ Registry!TypeOK
  BY DEF IsLookedUp, AInv
<1>2. v # 0 => v \in DOMAIN table[p]
  BY <1>1, SettledType DEF MayRead, Registry!MayRead
<1>3. v # 0 => table[p][v] \in Registry!Row
  BY <1>1, <1>2 DEF Registry!TypeOK
<1> QED
  BY <1>3 DEF IsValid, Registry!IsValid, IsActiveIn, Registry!Active, Registry!Row

LEMMA AcceptKeyStep ==
    ASSUME AInv, NEW e \in AllEnvs, AcceptKey(e)
    PROVE  AInv'
<1> DEFINE i == [pc |-> "valid", req |-> inv[e].req, from |-> inv[e].from]
<1>1. inv \in [AllEnvs -> Invocation] /\ IsLookedUp(e)
  BY DEF AInv, AcceptKey
<1>2. i \in Invocation
  BY ReqType DEF Invocation
<1>3. inv' = [inv EXCEPT ![e] = i] /\ inv'[e] = i /\ Req(e)' = Req(e)
  BY <1>1 DEF AcceptKey, Req
<1>4. UNCHANGED <<registryVars, limiterVars>> /\ table' = table /\ settled' = settled
  BY DEF AcceptKey, registryVars
<1>5. Arrived(e)'
  BY <1>1, <1>3, <1>4 DEF AInv, Arrived, IsLookedUp
<1>6. LookedUp(e)'
  <2>1. PICK v \in MayRead(e) : IsValid(e, v)
    BY DEF AcceptKey
  <2>2. v \in Window(e) /\ IsActiveIn(v, ProjectOf(Req(e)), KeyOf(Req(e)))
    BY <1>1, <2>1, ReadIsInWindow, ValidIsActive
  <2>3. WasCurrent(e)'
    BY <1>3, <1>4, <2>2 DEF WasCurrent, Window, IsActiveIn, Registry!Active
  <2> QED
    BY <1>1, <1>3, <2>3 DEF LookedUp, IsLookedUp
<1> HIDE DEF i
<1> QED
  BY <1>2, <1>3, <1>4, <1>5, <1>6, InvocationGoesOn

LEMMA AInvStep ==
    ASSUME AInv, [Next]_vars
    PROVE  AInv'
<1>1. ASSUME NEW e \in AllEnvs, NEW q \in Requests, Receive(e, q)
      PROVE  AInv'
  BY <1>1, ReceiveStep
<1>2. ASSUME NEW e \in AllEnvs, Respond(e), UNCHANGED <<registryVars, limiterVars>>
      PROVE  AInv'
  <2>1. DOMAIN buckets' = Envs /\ BucketsAreRegistered'
    BY <1>2
    DEF AInv, BucketsAreRegistered, registryVars, limiterVars, Registry!Registered, Registry!Active
  <2> QED
    BY <1>2, <2>1, InvocationEnds
<1>3. ASSUME NEW e \in AllEnvs, AcceptKey(e)
      PROVE  AInv'
  BY <1>3, AcceptKeyStep
<1>4. ASSUME NEW e \in Envs, inv[e].pc = "valid", Respond(e), UNCHANGED registryVars,
             Limiter!Grant(e, KeyOf(Req(e))) \/ Limiter!Deny(e, KeyOf(Req(e)))
      PROVE  AInv'
  <2>1. DOMAIN buckets' = Envs /\ BucketsAreRegistered'
    BY <1>4, ChargedIsRegistered DEF Limiter!Grant, Limiter!Deny
  <2> QED
    BY <1>4, <2>1, InvocationEnds DEF AllEnvs
<1>5. ASSUME NEW e \in AllEnvs, Proceed(e)
      PROVE  AInv'
  BY <1>2, <1>3, <1>4, <1>5
  DEF Proceed, RefuseMalformed, RefuseUnauthenticated, RefuseUnusable, RefuseKey,
      ValidateKeyFails, Throttle, RejectBody, Admit, AdmitQuery
<1>6. ASSUME NEW e \in Envs, Recycle(e)
      PROVE  AInv'
  <2>1. Respond(e) /\ UNCHANGED registryVars /\ buckets' = [buckets EXCEPT ![e] = << >>]
    BY <1>6 DEF Recycle, Limiter!Recycle
  <2>2. ASSUME NEW f \in Envs, NEW x \in DOMAIN buckets'[f]
        PROVE  x \in DOMAIN buckets[f]
    BY <2>1, <2>2 DEF AInv
  <2>3. DOMAIN buckets' = Envs /\ BucketsAreRegistered'
    BY <2>1, <2>2 DEF AInv, BucketsAreRegistered, registryVars, Registry!Registered, Registry!Active
  <2> QED
    BY <2>1, <2>3, InvocationEnds DEF AllEnvs
<1>7. ASSUME [Registry!Next]_registryVars, UNCHANGED <<buckets, inv>>
      PROVE  AInv'
  <2>1. Registry!TypeOK' /\ KeysAreUnique'
    BY <1>7, RegistryKeeps
  <2>2. \A f \in AllEnvs : Arrived(f)' /\ LookedUp(f)'
    BY <1>7, OthersStay
  <2>3. BucketsAreRegistered'
    BY <1>7, RegisteredStays DEF AInv, BucketsAreRegistered
  <2> QED
    BY <1>7, <2>1, <2>2, <2>3 DEF AInv
<1>8. RegistryStep \/ Tick \/ UNCHANGED vars => [Registry!Next]_registryVars /\ UNCHANGED <<buckets, inv>>
  BY DEF RegistryStep, Tick, Limiter!Tick, vars, limiterVars
<1> QED
  BY <1>1, <1>5, <1>6, <1>7, <1>8 DEF Next

LEMMA AInvInit == Init => AInv
<1> SUFFICES ASSUME Init PROVE AInv
  OBVIOUS
<1>1. Registry!TypeOK
  BY EmptySeq DEF Init, Registry!Init, Registry!TypeOK, Registry!Row
<1>2. Idle \in Invocation /\ Idle.pc = "idle"
  BY AdmissionAssumption DEF Idle, Invocation
<1>3. inv \in [AllEnvs -> Invocation] /\ \A e \in AllEnvs : Arrived(e) /\ LookedUp(e)
  BY <1>2 DEF Init, Arrived, LookedUp
<1>4. DOMAIN buckets = Envs /\ BucketsAreRegistered
  BY DEF Init, Limiter!Init, BucketsAreRegistered
<1>5. \A p \in Projects, k \in Keys : k \notin Registry!KeysOf(p)
  <2> SUFFICES ASSUME NEW p \in Projects, NEW k \in Keys, k \in Registry!KeysOf(p)
               PROVE  FALSE
    OBVIOUS
  <2>1. InTable(p, k) \/ InLate(p, k) \/ InCli(p, k)
    BY KeysOfMeans
  <2>2. ~InTable(p, k) /\ ~InLate(p, k)
    BY EmptySeq DEF InTable, InLate, Init, Registry!Init
  <2>3. ~InCli(p, k)
    BY AdmissionAssumption DEF InCli, Init, Registry!Init, Registry!Resting
  <2> QED
    BY <2>1, <2>2, <2>3
<1> QED
  BY <1>1, <1>3, <1>4, <1>5 DEF AInv, KeysAreUnique

THEOREM Invariance == Spec => []AInv
BY AInvInit, AInvStep, PTL DEF Spec

-----------------------------------------------------------------------------
(* The theorems.                                                           *)

(* A request is admitted only with a key that was current since it came,   *)
(* however the table changes between the lookup and the use of its answer. *)
THEOREM AdmittedIsCurrent == Spec => AdmittedKeyWasCurrent
<1>1. ASSUME AInv, NEW e \in AllEnvs, Admit(e) \/ AdmitQuery(e)
      PROVE  \E v \in Window(e) : IsActiveIn(v, ProjectOf(Req(e)), KeyOf(Req(e)))
  BY <1>1 DEF AInv, LookedUp, WasCurrent, Admit, AdmitQuery
<1>2. AInv /\ [Next]_vars => [\A e \in AllEnvs : Admit(e) \/ AdmitQuery(e) =>
        \E v \in Window(e) : IsActiveIn(v, ProjectOf(Req(e)), KeyOf(Req(e)))]_vars
  BY <1>1
<1> QED
  BY <1>2, Invariance, PTL DEF Spec, AdmittedKeyWasCurrent

(* Nobody with the right key is turned away for it, for every combination  *)
(* of the forms of authentication and every lag of the replicas.           *)
THEOREM NobodyIsTurnedAway == Spec => EntitledIsLetIn
<1>1. ASSUME AInv, NEW e \in AllEnvs, Entitled(e),
             ~IsHiddenDsn(Req(e)), ~IsShadowedDsn(Req(e)),
             RefuseUnauthenticated(e) \/ RefuseUnusable(e) \/ RefuseKey(e)
      PROVE  FALSE
  <2>1. PICK k \in Keys :
          /\ Forms(Req(e)) = {k}
          /\ ProjectOf(Req(e)) \in Projects
          /\ \A v \in Window(e) : IsActiveIn(v, ProjectOf(Req(e)), k)
    BY <1>1 DEF Entitled
  <2>2. Req(e) \in Requests
    BY <1>1, ReqType
  <2>3. ~Disagrees(Req(e)) /\ ~Unauthenticated(Req(e)) /\ KeyOf(Req(e)) # NoKey
    BY <1>1, <2>1, <2>2, OneKeyIsUsable
  <2>4. CASE RefuseUnauthenticated(e) \/ RefuseUnusable(e)
    BY <2>1, <2>3, <2>4, AdmissionAssumption DEF RefuseUnauthenticated, RefuseUnusable
  <2>5. CASE RefuseKey(e)
    <3>1. PICK v \in MayRead(e) : ~IsValid(e, v)
      BY <2>5 DEF RefuseKey
    <3>2. IsLookedUp(e)
      BY <2>5 DEF RefuseKey
    <3>3. KeyOf(Req(e)) = k
      BY <2>1, <2>2, <3>2, KeyIsAForm DEF IsLookedUp
    <3>4. v \in Window(e) /\ ~IsActiveIn(v, ProjectOf(Req(e)), k)
      BY <1>1, <3>1, <3>2, <3>3, ReadIsInWindow, ValidIsActive
    <3> QED
      BY <2>1, <3>4
  <2> QED
    BY <1>1, <2>4, <2>5
<1>2. AInv /\ [Next]_vars => [\A e \in AllEnvs :
        RefuseUnauthenticated(e) \/ RefuseUnusable(e) \/ RefuseKey(e) =>
            ~Entitled(e) \/ IsHiddenDsn(Req(e)) \/ IsShadowedDsn(Req(e))]_vars
  BY <1>1
<1> QED
  BY <1>2, Invariance, PTL DEF Spec, EntitledIsLetIn

(* But for the departures it names, 400 is for the bodies that cannot be   *)
(* read as their endpoint reads them, and for all of them.                 *)
THEOREM BodiesAreJudged == Spec => BodiesAreJudgedRight
<1>1. ASSUME AInv, NEW e \in Envs, ~IsDeparture(Req(e))
      PROVE  /\ Admit(e) => WellFormed(Req(e))
             /\ RefuseMalformed(e) \/ RejectBody(e) => ~WellFormed(Req(e))
  <2>1. e \in AllEnvs /\ e \notin QueryEnvs
    BY AdmissionAssumption DEF AllEnvs
  <2>2. Req(e) \in Requests /\ Arrived(e) /\ LookedUp(e)
    BY <1>1, <2>1, ReqType DEF AInv
  <2>3. inv[e].pc # "idle" => Req(e).endpoint # "events"
    BY <2>1, <2>2 DEF Arrived
  <2>4. Admit(e) => WellFormed(Req(e))
    BY <1>1, <2>2, <2>3, AcceptedIsWellFormed DEF Admit, LookedUp
  <2>5. RefuseMalformed(e) \/ RejectBody(e) => ~WellFormed(Req(e))
    BY <1>1, <2>2, <2>3, WellFormedIsAccepted DEF RefuseMalformed, RejectBody
  <2> QED
    BY <2>4, <2>5
<1>2. AInv /\ [Next]_vars => [\A e \in Envs : ~IsDeparture(Req(e)) =>
        /\ Admit(e) => WellFormed(Req(e))
        /\ RefuseMalformed(e) \/ RejectBody(e) => ~WellFormed(Req(e))]_vars
  BY <1>1
<1> QED
  BY <1>2, Invariance, PTL DEF Spec, BodiesAreJudgedRight

(* Every bucket belongs to the one project that was given its key.         *)
THEOREM BucketsBelong == Spec => []BucketsAreOwned
<1>1. ASSUME AInv, NEW p \in Projects, NEW k, Registry!Registered(p, k)
      PROVE  k \in Keys /\ k \in Registry!KeysOf(p)
  <2>1. PICK v \in DOMAIN table[p] : table[p][v] = Registry!Active(k)
    BY <1>1 DEF Registry!Registered
  <2>2. table[p][v] \in Registry!Row
    BY <1>1, <2>1 DEF AInv, Registry!TypeOK
  <2>3. k \in Keys /\ table[p][v].key = k
    BY <2>1, <2>2 DEF Registry!Row, Registry!Active
  <2> QED
    BY <2>1, <2>3, KeysOfMeans DEF InTable
<1>2. AInv => BucketsAreOwned
  <2> SUFFICES ASSUME AInv, NEW e \in Envs, NEW k \in DOMAIN buckets[e]
               PROVE  \E p \in Projects :
                        /\ Registry!Registered(p, k)
                        /\ \A r \in Projects : Registry!Registered(r, k) => r = p
    BY DEF BucketsAreOwned
  <2>1. PICK p \in Projects : Registry!Registered(p, k)
    BY DEF AInv, BucketsAreRegistered
  <2>2. ASSUME NEW r \in Projects, Registry!Registered(r, k)
        PROVE  r = p
    BY <1>1, <2>1, <2>2 DEF AInv, KeysAreUnique
  <2> QED
    BY <2>1, <2>2
<1> QED
  BY <1>2, Invariance, PTL

(* The composition implements the limiter: the initial states and every    *)
(* step of a request, of the table and of the clock are the limiter's own, *)
(* or leave it alone.                                                      *)
THEOREM LimiterKept == Spec => LimiterIsKept
<1>1. Init => Limiter!Init
  BY DEF Init
<1>2. AInv /\ [Next]_vars => [Limiter!Next]_(Limiter!vars)
  <2> SUFFICES ASSUME AInv, [Next]_vars
               PROVE  [Limiter!Next]_(Limiter!vars)
    OBVIOUS
  <2>1. ASSUME NEW e \in Envs, inv[e].pc = "valid"
        PROVE  KeyOf(Req(e)) \in Keys
    BY <2>1 DEF AInv, LookedUp, AllEnvs
  <2>2. ASSUME NEW e \in AllEnvs, Proceed(e)
        PROVE  [Limiter!Next]_(Limiter!vars)
    BY <2>1, <2>2
    DEF Proceed, RefuseMalformed, RefuseUnauthenticated, RefuseUnusable, AcceptKey, RefuseKey,
        ValidateKeyFails, Throttle, RejectBody, Admit, AdmitQuery, Limiter!Next, Limiter!vars, limiterVars
  <2>3. CASE RegistryStep \/ Tick \/ UNCHANGED vars
    BY <2>3 DEF RegistryStep, Tick, vars, Limiter!Next, Limiter!vars, limiterVars
  <2>4. ASSUME NEW e \in AllEnvs, NEW q \in Requests, Receive(e, q)
        PROVE  [Limiter!Next]_(Limiter!vars)
    BY <2>4 DEF Receive, Limiter!vars, limiterVars
  <2>5. ASSUME NEW e \in Envs, Recycle(e)
        PROVE  [Limiter!Next]_(Limiter!vars)
    BY <2>5 DEF Recycle, Limiter!Next
  <2> QED
    BY <2>2, <2>3, <2>4, <2>5 DEF Next
<1> QED
  BY <1>1, <1>2, Invariance, PTL DEF Spec, LimiterIsKept, Limiter!Spec

\* The limiter of Admission is the one of which RateLimiterProofs speaks.
LEMMA SameLimiter ==
    /\ LimiterProofs!LimiterAssumption
    /\ Limiter!Init => LimiterProofs!Init
    /\ [Limiter!Next]_(Limiter!vars) => [LimiterProofs!Next]_(LimiterProofs!vars)
    /\ LimiterProofs!TypeOK => Limiter!TypeOK
    /\ LimiterProofs!WindowBound => Limiter!WindowBound
<1>1. LimiterProofs!LimiterAssumption
  BY AdmissionAssumption DEF LimiterProofs!LimiterAssumption
<1>2. Limiter!Init => LimiterProofs!Init
  BY DEF Limiter!Init, LimiterProofs!Init, Limiter!NotTold, LimiterProofs!NotTold
<1>3. Limiter!Next => LimiterProofs!Next
  BY DEF Limiter!Next, LimiterProofs!Next, Limiter!Grant, LimiterProofs!Grant,
         Limiter!Deny, LimiterProofs!Deny, Limiter!Tick, LimiterProofs!Tick,
         Limiter!Recycle, LimiterProofs!Recycle, Limiter!SetBucket, LimiterProofs!SetBucket,
         Limiter!Refilled, LimiterProofs!Refilled, Limiter!BucketOf, LimiterProofs!BucketOf,
         Limiter!RetryAfter, LimiterProofs!RetryAfter, Limiter!NotTold, LimiterProofs!NotTold
<1>4. Limiter!vars = LimiterProofs!vars /\ Limiter!vars' = LimiterProofs!vars'
  BY DEF Limiter!vars, LimiterProofs!vars
<1>5. LimiterProofs!TypeOK => Limiter!TypeOK
  BY DEF Limiter!TypeOK, LimiterProofs!TypeOK
<1>6. LimiterProofs!WindowBound => Limiter!WindowBound
  BY DEF Limiter!WindowBound, LimiterProofs!WindowBound
<1> QED
  BY <1>1, <1>2, <1>3, <1>4, <1>5, <1>6

(* Every variable of the composition has its type.                         *)
THEOREM TypeCorrect == Spec => []TypeOK
<1>1. Limiter!Spec => LimiterProofs!Spec
  BY SameLimiter, PTL DEF Limiter!Spec, LimiterProofs!Spec
<1>2. LimiterProofs!Spec => []LimiterProofs!TypeOK
  BY SameLimiter, LimiterProofs!TypeCorrect
<1>3. AInv /\ LimiterProofs!TypeOK => TypeOK
  BY SameLimiter DEF AInv, TypeOK
<1> QED
  BY <1>1, <1>2, <1>3, Invariance, LimiterKept, PTL DEF LimiterIsKept

(* The rate limit holds of what is admitted, for every table, every way    *)
(* in, and every rejected body that spent a token.                         *)
THEOREM AdmissionsAreLimited == Spec => []Limiter!WindowBound
<1>1. Limiter!Spec => LimiterProofs!Spec
  BY SameLimiter, PTL DEF Limiter!Spec, LimiterProofs!Spec
<1>2. LimiterProofs!Spec => []LimiterProofs!WindowBound
  BY SameLimiter, LimiterProofs!RateIsLimited
<1>3. LimiterProofs!WindowBound => Limiter!WindowBound
  BY SameLimiter
<1> QED
  BY <1>1, <1>2, <1>3, LimiterKept, PTL DEF LimiterIsKept
=============================================================================
