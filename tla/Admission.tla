----------------------------- MODULE Admission -----------------------------
(***************************************************************************)
(* What a request passes before anything is stored or listed: the first    *)
(* five steps of handleRequest in src/lambda/ingest/main.go, with auth.go  *)
(* and compress.go, and the authentication of src/lambda/query/main.go.    *)
(*                                                                         *)
(* It composes two modules: the key is looked up in the projects table of  *)
(* Registry, which changes meanwhile, and a token is taken from the        *)
(* buckets of RateLimiter.  An admitted request goes on to the write path  *)
(* (Ingest, the actions after Admit) or to the listing (Query, Page).      *)
(***************************************************************************)
EXTENDS Integers, Sequences, FiniteSets

CONSTANTS
    Envs,          \* execution environments of the ingest Lambda
    QueryEnvs,     \* execution environments of the query Lambda
    Requests,      \* the requests that arrive
    Projects, Keys, Operators, NoKey,          \* see Registry
    One, Rate, Burst, TicksPerSecond, MaxTime, \* see RateLimiter
    Absent,        \* no X-Sentry-Auth header
    NoProject,     \* no project id
    NoDsn,         \* no "dsn" in the first line
    StoreProject,  \* the project id "store"
    MaxBodyBytes,  \* MAX_BODY_BYTES
    MaxInFlight    \* bound: requests under way at once

VARIABLES
    table, settled, cli, late,     \* see Registry
    now, buckets, granted, told,   \* see RateLimiter
    inv                            \* environment -> the state of its invocation

Registry == INSTANCE Registry

Limiter == INSTANCE RateLimiter

registryVars == <<table, settled, cli, late>>

limiterVars == <<now, buckets, granted, told>>

vars == <<registryVars, limiterVars, inv>>

-----------------------------------------------------------------------------
(* The data of a request.                                                  *)

\* Content-Encoding: none or identity is "", an unknown one "other".
Encodings == {"", "gzip", "deflate", "br", "zstd", "other"}

\* How the bytes are really encoded.  "zlib" begins with the byte 0x78, the
\* window of 32 KiB; "zlib-small" is a zlib stream with a smaller window.  "raw"
\* is DEFLATE without a wrapper; "raw-78" begins with 0x78 nevertheless, and
\* "raw-zlib" with two bytes that are a zlib header.
Codings == {"plain", "gzip", "zlib", "zlib-small", "raw", "raw-78", "raw-zlib", "br", "zstd"}

\* `decodes`: whether the base64 of API Gateway is valid; `wire` and `size`:
\* bytes before and after decompression; `dsn` and `envelope`: the DSN in the
\* first line, and whether ParseEnvelope accepts it, of the decompressed body.
Body == [decodes: BOOLEAN, coding: Codings, wire: Nat, size: Nat,
         dsn: [key: Keys \cup {NoKey}, project: Projects \cup {NoProject}] \cup {NoDsn},
         envelope: BOOLEAN]

\* `header`: the sentry_key of the X-Sentry-Auth header, NoKey when the header
\* has none; `query`: the sentry_key of the query string, NoKey when there is
\* none or an empty one; `project`: the path parameter.
Request == [endpoint: {"envelope", "store", "events"}, project: Projects \cup {NoProject},
            header: Keys \cup {NoKey, Absent}, query: Keys \cup {NoKey},
            encoding: Encodings, body: Body]

ASSUME AdmissionAssumption ==
    /\ Requests # {}
    /\ Requests \subseteq Request
    /\ Envs \cap QueryEnvs = {}
    /\ NoKey \notin Keys
    /\ Absent \notin Keys \cup {NoKey}
    /\ NoProject \notin Projects
    /\ NoDsn \notin [key: Keys \cup {NoKey}, project: Projects \cup {NoProject}]
    /\ MaxBodyBytes \in Nat
    /\ MaxInFlight \in Nat
    /\ {One, Rate, Burst, TicksPerSecond} \subseteq Nat \ {0}
    /\ MaxTime \in Nat

\* A body that is not encoded has one size.
ASSUME SizesAssumption ==
    \A q \in Requests : q.body.coding = "plain" => q.body.wire = q.body.size

AllEnvs == Envs \cup QueryEnvs

-----------------------------------------------------------------------------
(* Authentication.                                                         *)

\* extractAuthKey returns an error.
FormsDisagree(q) == q.header \in Keys /\ q.query \in Keys /\ q.header # q.query

\* The DSN in the first line of the body as it arrived: compressed bytes have
\* no line of JSON.
WireDsn(q) == IF q.body.coding = "plain" THEN q.body.dsn ELSE NoDsn

\* A DSN without a key before the "@" is an error, and none.
DsnKey(q) == IF WireDsn(q) = NoDsn THEN NoKey ELSE WireDsn(q).key

\* authInfo.Key: the DSN counts only when there is no other form.
AuthKey(q) ==
    IF q.query # NoKey THEN q.query
    ELSE IF q.header # Absent THEN q.header
    ELSE DsnKey(q)

\* Bug: the third form is forgotten.
Present_TwoForms(q) == q.header # Absent \/ q.query # NoKey

\* authInfo.Present.
Present(q) == q.header # Absent \/ q.query # NoKey \/ DsnKey(q) # NoKey

\* sentryKey of the query API: the header, and else the query string.
SentryKey(q) == IF q.header \in Keys THEN q.header ELSE q.query

KeyOf(q) == IF q.endpoint = "events" THEN SentryKey(q) ELSE AuthKey(q)

\* projectIDOf: the path parameter, and else the DSN; the query API has only
\* the former.
ProjectOf(q) ==
    IF q.project # NoProject \/ q.endpoint = "events" THEN q.project
    ELSE IF WireDsn(q) = NoDsn THEN NoProject
    ELSE WireDsn(q).project

-----------------------------------------------------------------------------
(* The body.                                                               *)

\* decompressDeflate guesses: a body is zlib if it begins with 0x78 and
\* zlib.NewReader accepts its header, and else raw.
IsTakenForZlib(coding) == coding \in {"zlib", "raw-zlib"}

Inflates(coding) ==
    IF IsTakenForZlib(coding) THEN coding = "zlib" ELSE coding \in {"raw", "raw-78"}

\* The codings that the decoder chosen by Content-Encoding can read.
CodingsRead(encoding) ==
    CASE encoding = ""        -> Codings
      [] encoding = "deflate" -> {coding \in Codings : Inflates(coding)}
      [] encoding = "other"   -> {}
      [] OTHER                -> {encoding}

SizeRead(q) == IF q.encoding = "" THEN q.body.wire ELSE q.body.size

\* Bug: the limit is enforced on the compressed body alone.
Decompresses_Unlimited(q) == q.body.coding \in CodingsRead(q.encoding)

\* decompressBody returns no error; a limit of 0 is none.
Decompresses(q) ==
    /\ q.body.coding \in CodingsRead(q.encoding)
    /\ MaxBodyBytes > 0 => SizeRead(q) <= MaxBodyBytes

\* "/store/" anywhere in the path: behind the project id, or the id itself.
RouteOf(q) ==
    IF q.endpoint = "store" \/ q.project = StoreProject THEN "store" ELSE "envelope"

\* Bytes left compressed because no encoding was given are no envelope.
ParsesEnvelope(q) ==
    /\ q.body.envelope
    /\ q.encoding = "" => q.body.coding = "plain"

IsAccepted(q) ==
    /\ Decompresses(q)
    /\ RouteOf(q) = "envelope" => ParsesEnvelope(q)

IsTooLarge(q) == MaxBodyBytes > 0 /\ q.body.wire > MaxBodyBytes

-----------------------------------------------------------------------------
(* An invocation.                                                          *)

\* `from` is history: what was settled when the request arrived.
Invocation == [pc: {"idle", "arrived", "valid"}, req: Requests, from: Nat]

Idle == [pc |-> "idle", req |-> CHOOSE q \in Requests : TRUE, from |-> 0]

Req(e) == inv[e].req

Init ==
    /\ Registry!Init
    /\ Limiter!Init
    /\ inv = [e \in AllEnvs |-> Idle]

SettledAt(p) == IF p \in Projects THEN settled[p] ELSE 0

InFlight == {e \in AllEnvs : inv[e].pc # "idle"}

\* Each environment handles one request at a time.
Receive(e, q) ==
    /\ inv[e].pc = "idle"
    /\ Cardinality(InFlight) < MaxInFlight
    /\ (q.endpoint = "events") <=> (e \in QueryEnvs)
    /\ inv' = [inv EXCEPT ![e] =
         [pc |-> "arrived", req |-> q, from |-> SettledAt(ProjectOf(q))]]
    /\ UNCHANGED <<registryVars, limiterVars>>

\* The response ends the invocation.
Respond(e) == inv' = [inv EXCEPT ![e] = Idle]

\* 400 before authentication: ingest cannot decode the body or finds it too
\* large, the query API has no project.
IsMalformed(q) ==
    IF q.endpoint = "events" THEN q.project = NoProject
    ELSE ~q.body.decodes \/ IsTooLarge(q)

RefuseMalformed(e) ==
    /\ inv[e].pc = "arrived"
    /\ IsMalformed(Req(e))
    /\ Respond(e)
    /\ UNCHANGED <<registryVars, limiterVars>>

Disagrees(q) == q.endpoint # "events" /\ FormsDisagree(q)

Unauthenticated(q) == IF q.endpoint = "events" THEN SentryKey(q) = NoKey ELSE ~Present(q)

\* 403: no form of authentication.
RefuseUnauthenticated(e) ==
    /\ inv[e].pc = "arrived"
    /\ ~IsMalformed(Req(e)) /\ ~Disagrees(Req(e))
    /\ Unauthenticated(Req(e))
    /\ Respond(e)
    /\ UNCHANGED <<registryVars, limiterVars>>

\* 401 without a lookup: forms that disagree, a form without a key, or (in
\* ValidateKey) no project.
RefuseUnusable(e) ==
    /\ inv[e].pc = "arrived"
    /\ ~IsMalformed(Req(e))
    /\ \/ Disagrees(Req(e))
       \/ /\ ~Unauthenticated(Req(e))
          /\ KeyOf(Req(e)) = NoKey \/ ProjectOf(Req(e)) = NoProject
    /\ Respond(e)
    /\ UNCHANGED <<registryVars, limiterVars>>

IsLookedUp(e) ==
    /\ inv[e].pc = "arrived"
    /\ ~IsMalformed(Req(e)) /\ ~Disagrees(Req(e)) /\ ~Unauthenticated(Req(e))
    /\ KeyOf(Req(e)) \in Keys /\ ProjectOf(Req(e)) \in Projects

\* GetItem returns row v; what ValidateKey makes of it is decided at once.
IsValid(e, v) == Registry!IsValid(ProjectOf(Req(e)), KeyOf(Req(e)), v)

MayRead(e) == Registry!MayRead(ProjectOf(Req(e)))

AcceptKey(e) ==
    /\ IsLookedUp(e)
    /\ \E v \in MayRead(e) : IsValid(e, v)
    /\ inv' = [inv EXCEPT ![e] = [pc |-> "valid", req |-> inv[e].req, from |-> inv[e].from]]
    /\ UNCHANGED <<registryVars, limiterVars>>

\* Bug: the limiter is asked before the key is looked up.
RefuseKey_Charges(e) ==
    /\ IsLookedUp(e) /\ e \in Envs
    /\ \E v \in MayRead(e) : ~IsValid(e, v)
    /\ Limiter!Grant(e, KeyOf(Req(e)))
    /\ Respond(e)
    /\ UNCHANGED registryVars

\* 401.
RefuseKey(e) ==
    /\ IsLookedUp(e)
    /\ \E v \in MayRead(e) : ~IsValid(e, v)
    /\ Respond(e)
    /\ UNCHANGED <<registryVars, limiterVars>>

\* The call fails: 500.
ValidateKeyFails(e) ==
    /\ IsLookedUp(e)
    /\ Respond(e)
    /\ UNCHANGED <<registryVars, limiterVars>>

\* 429.  The handler calls nothing between the lookup and the write path, so
\* the rest of its way is one step.
Throttle(e) ==
    /\ inv[e].pc = "valid" /\ e \in Envs
    /\ Limiter!Deny(e, KeyOf(Req(e)))
    /\ Respond(e)
    /\ UNCHANGED registryVars

\* 400: the token is spent before the body is known to be good.
RejectBody(e) ==
    /\ inv[e].pc = "valid" /\ e \in Envs
    /\ ~IsAccepted(Req(e))
    /\ Limiter!Grant(e, KeyOf(Req(e)))
    /\ Respond(e)
    /\ UNCHANGED registryVars

\* Bug: an accepted request is let through without asking the limiter.
Admit_Unlimited(e) ==
    /\ inv[e].pc = "valid" /\ e \in Envs
    /\ IsAccepted(Req(e))
    /\ granted' = [granted EXCEPT ![e] =
         [granted[e] EXCEPT ![KeyOf(Req(e))] = Append(granted[e][KeyOf(Req(e))], now)]]
    /\ Respond(e)
    /\ UNCHANGED <<registryVars, now, buckets, told>>

\* On to the write path.
Admit(e) ==
    /\ inv[e].pc = "valid" /\ e \in Envs
    /\ IsAccepted(Req(e))
    /\ Limiter!Grant(e, KeyOf(Req(e)))
    /\ Respond(e)
    /\ UNCHANGED registryVars

\* On to the listing; the query API has no limiter.
AdmitQuery(e) ==
    /\ inv[e].pc = "valid" /\ e \in QueryEnvs
    /\ Respond(e)
    /\ UNCHANGED <<registryVars, limiterVars>>

-----------------------------------------------------------------------------
(* The environments, the table and the clock.                              *)

\* The Lambda time limit, a crash, or an environment that is no longer needed.
Recycle(e) ==
    /\ Limiter!Recycle(e)
    /\ Respond(e)
    /\ UNCHANGED registryVars

RegistryStep ==
    /\ Registry!Next
    /\ UNCHANGED <<limiterVars, inv>>

\* A tick is longer than a lookup: the time read on arrival is that of the
\* limiter's decision.
Tick ==
    /\ InFlight = {}
    /\ Limiter!Tick
    /\ UNCHANGED <<registryVars, inv>>

Proceed(e) ==
    \/ RefuseMalformed(e) \/ RefuseUnauthenticated(e) \/ RefuseUnusable(e)
    \/ AcceptKey(e) \/ RefuseKey(e) \/ ValidateKeyFails(e)
    \/ Throttle(e) \/ RejectBody(e) \/ Admit(e) \/ AdmitQuery(e)

Next ==
    \/ \E e \in AllEnvs : (\E q \in Requests : Receive(e, q)) \/ Proceed(e)
    \/ \E e \in Envs : Recycle(e)
    \/ RegistryStep
    \/ Tick

Spec == Init /\ [][Next]_vars

-----------------------------------------------------------------------------
(* Every variable has its type, and the composed modules keep theirs.      *)
TypeOK ==
    /\ Registry!TypeOK
    /\ Limiter!TypeOK
    /\ inv \in [AllEnvs -> Invocation]

\* The rows of e's project from which its request can have been judged.
Window(e) == inv[e].from .. Len(table[ProjectOf(Req(e))])

IsActiveIn(v, p, k) == v # 0 /\ table[p][v] = Registry!Active(k)

(* A request is admitted only with a key that, at some moment since it     *)
(* arrived, was for some replica the active key of the project whose data  *)
(* it stores or lists.  So a key that was replaced or disabled serves      *)
(* nobody once the replicas agree, whenever it was read and used.          *)
AdmittedKeyWasCurrent ==
    [][\A e \in AllEnvs : Admit(e) \/ AdmitQuery(e) =>
        \E v \in Window(e) : IsActiveIn(v, ProjectOf(Req(e)), KeyOf(Req(e)))]_vars

\* The keys the sender put into the forms of authentication; the DSN as it is in
\* the body before it was compressed.
Forms(q) ==
    UNION {{q.header} \ {Absent, NoKey},
           {q.query} \ {NoKey},
           IF q.body.dsn = NoDsn \/ q.endpoint = "events" THEN {}
           ELSE {q.body.dsn.key} \ {NoKey}}

\* All forms carry one key, and every row it can be judged by is active with it.
Entitled(e) ==
    \E k \in Keys :
        /\ Forms(Req(e)) = {k}
        /\ ProjectOf(Req(e)) \in Projects
        /\ \A v \in Window(e) : IsActiveIn(v, ProjectOf(Req(e)), k)

\* Where the DSN is not found: behind a compression, and behind a header without
\* a key.
IsHiddenDsn(q) == q.header = Absent /\ q.query = NoKey /\ q.body.coding # "plain"

IsShadowedDsn(q) == q.header = NoKey /\ q.query = NoKey

(* Nobody is turned away who has the right key: a request whose forms of   *)
(* authentication agree on a key that is active in every replica from its  *)
(* arrival on gets neither 401 nor 403, whatever form it uses and however  *)
(* many of the others are blank; but for a DSN in a compressed body, and   *)
(* one beside a header without a key.                                      *)
EntitledIsLetIn ==
    [][\A e \in AllEnvs :
        RefuseUnauthenticated(e) \/ RefuseUnusable(e) \/ RefuseKey(e) =>
            ~Entitled(e) \/ IsHiddenDsn(Req(e)) \/ IsShadowedDsn(Req(e))]_vars

\* What Content-Encoding says of a body (COMPATIBILITY.md section 6).
Means(encoding) ==
    CASE encoding = ""        -> {"plain"}
      [] encoding = "deflate" -> {"zlib", "zlib-small", "raw", "raw-78", "raw-zlib"}
      [] OTHER                -> {encoding}

\* A body that its endpoint can read, and within the limit.
WellFormed(q) ==
    /\ q.body.decodes
    /\ q.body.coding \in Means(q.encoding)
    /\ MaxBodyBytes > 0 => q.body.wire <= MaxBodyBytes /\ q.body.size <= MaxBodyBytes
    /\ q.endpoint = "envelope" => q.body.envelope

\* Where the code departs from it: two kinds of deflate are taken for the other;
\* nothing is parsed for a project called "store"; and compressed bytes that come
\* without Content-Encoding are archived as they are by the store route.
IsMistaken(q) == q.encoding = "deflate" /\ q.body.coding \in {"zlib-small", "raw-zlib"}

IsUnparsed(q) == q.endpoint = "envelope" /\ q.project = StoreProject /\ ~ParsesEnvelope(q)

IsOpaque(q) == q.endpoint = "store" /\ q.encoding = "" /\ q.body.coding # "plain"

IsDeparture(q) == IsMistaken(q) \/ IsUnparsed(q) \/ IsOpaque(q)

(* The body decides between 200 and 400 and nothing else does: what is     *)
(* admitted can be read as its endpoint reads it and is within the limit   *)
(* compressed and not, and a readable body is never answered with 400.     *)
(* That holds of all ingest requests but three kinds: a zlib stream with a *)
(* small window or a raw one that looks like zlib (refused), what is no    *)
(* envelope for a project called "store" (admitted), and compressed bytes  *)
(* without Content-Encoding for /store/ (admitted).                        *)
BodiesAreJudgedRight ==
    [][\A e \in Envs : ~IsDeparture(Req(e)) =>
        /\ Admit(e) => WellFormed(Req(e))
        /\ RefuseMalformed(e) \/ RejectBody(e) => ~WellFormed(Req(e))]_vars

(* Buckets, which are never evicted, exist only for keys that a project    *)
(* was registered with, and no two projects share one: requests with made  *)
(* up keys cost neither memory nor anybody's tokens.                       *)
BucketsAreOwned ==
    \A e \in Envs : \A k \in DOMAIN buckets[e] :
        \E p \in Projects :
            /\ Registry!Registered(p, k)
            /\ \A r \in Projects : Registry!Registered(r, k) => r = p

(* The handler uses the limiter as the limiter is specified: what is shown *)
(* of RateLimiter, for any requests, holds of the requests that get here.  *)
LimiterIsKept == Limiter!Spec
=============================================================================
