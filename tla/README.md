# Verification of serverless-error-ingest

TLA+ models of the Sentry-compatible ingest service in this repository, the TLC
runs that check them on small instances, and TLAPS proofs that hold for every
value of the constants. Paths below are relative to the repository
(`lambda/ingest/main.go` is `src/lambda/ingest/main.go` in `PROJECT.json`).

## The system

| Part | State | Operations | Hard behaviour | What makes it correct |
|---|---|---|---|---|
| Ingest write path: `handleRequest`, `persist` (`lambda/ingest/main.go`, `store.go`) | S3 objects (envelope archive, one object per item), DynamoDB events rows; per invocation: date, item index, failure count | one PutObject for the envelope, then PutObject and PutItem per item, then 200 or 500 | calls fail, or fail and still take effect; SDK retries, concurrent environments, the 30 s limit, midnight UTC between retries; bodies that share an event id | no item without its source, no row without its object, one row per item, a 200 stays true |
| Envelope parser (`lambda/ingest/envelope.go`) | the bytes left, `bufio.Reader`'s buffer, the items so far | header line, item header line, payload with or without `length` | refills, slices that outlive a refill, limits, the end of the body in odd places | bodies are split as the grammar says and payloads are byte-exact |
| Rate limiter (`lambda/ingest/ratelimit.go`) | a bucket per key, per execution environment | `Allow`, `Retry-After` | fractions of tokens, slow rates, retries that reach another environment | the limit holds in every window, nobody is denied early, `Retry-After` suffices |
| Admission (`auth.go`, `compress.go`, `handleRequest`; `sentryKey` of `lambda/query`) | none of its own; the buckets of the limiter | caps, authentication, key lookup, limiter, decompression, route, in this order | three forms of authentication in an order of precedence; the DSN is looked for in the body before it is decompressed; the row read may be old | whoever has the current key is let in whatever form is used, nobody else is; a body is judged by what it is |
| Projects registry (`scripts/register/main.go`, `ValidateKey`) | one row per project: key, status | register (overwrites), validate (eventually consistent read) | a project registered again, or a put that fails and takes effect later, while requests are validated by lagging replicas | a key that was replaced or disabled serves nobody once the replicas agree |
| Processor (`lambda/processor/main.go`; `docs/AI.md:3-5`: not deployed) | events rows, objects | a run: scan all pages, then fetch, fingerprint, conditional update per row | rows rewritten or expired since the scan, scans of lagging replicas, overlapping runs, updates that come late, failures per row | every event is grouped, once per put, under its own fingerprint; fingerprints tell apart what they should |
| Query API (`lambda/query/main.go`; `docs/QUERY.md:3`: not deployed) | events rows, the cursor a client holds | one page per request | expressions DynamoDB rejects, rows that move between pages, pages of lagging replicas | documented queries are answered; a client that follows cursors sees every row that stays |
| Infrastructure (`infra/main.tf`) | TTL, lifecycle, timeouts | expiration of rows and objects | two clocks that do not know each other | a row does not outlive its object |

Ingest calls the registry, then writes S3 and the events table; the processor
and the query API read the events table, the processor also the objects and
writes rows back. They share nothing else. The hazards, each at its line, are
listed in `PROJECT.json`.

What happens to an event on its way, and where each promise is proved: it is
stored before it is acknowledged and stays so (`Durability`); what is stored
reaches the processor as objects and rows in the right order (`Feeding`); a run
that finds it lets go of it only by grouping it or when a call fails
(`Thorough`), where the scan may be refused as a whole (`processor_reserved`);
it is grouped once (`Once`), under its own fingerprint (`IssueSound`, and
`OwnIssue` where `OneEvent` says that it is alone under its id), which is that of
the events like it and of no other (`IssueIdsAreExact`); and who lists the
project to the end, once every replica has its row, is given it (`Complete`).

## The modules

| Module | Models | Read with |
|---|---|---|
| `IngestContract` | what ingest promises: a document is archived before any row of it is visible, and promised only once stored | `docs/ARCHITECTURE.md` "Ingest persistence semantics" |
| `EventFeed` | what the processor may assume of ingest: objects of event items, rows that name them or are no event's, dates up to today's | `main.go:184-215` |
| `Ingest` | the write path, call by call; refines `IngestContract` and `EventFeed` | `main.go:51-144`, `161-230` |
| `IngestProofs` | theorems about `Ingest` | |
| `EnvelopeGrammar` | the grammar of `docs/COMPATIBILITY.md` section 4 as a recursive function, without buffers or limits | |
| `BufferedReader` | `bufio.Reader` over a `bytes.Reader` (the Go library) | |
| `EnvelopeParser` | `ParseEnvelope` and `readLine` | `envelope.go:45-175` |
| `ParserProofs` | theorems about `EnvelopeParser`, on lemmas about `BufferedReader` and `EnvelopeGrammar` | |
| `RateLimiter` | `Allow` and `Retry-After` | `ratelimit.go`, `main.go:425-429` |
| `RateLimiterProofs` | theorems about `RateLimiter` | |
| `Registry` | the projects table, the register command, reads that lag | `scripts/register/main.go`, `store.go:36-57` |
| `Admission` | what a request passes before it is stored or listed; instantiates `Registry` and `RateLimiter` | `main.go:51-124`, `auth.go`, `compress.go`, `query/main.go:66-84`, `128-159` |
| `AdmissionProofs` | theorems about `Admission` and `Registry`; instantiates `RateLimiterProofs` | |
| `IssueContract` | what readers may assume of status and issue of a row: both come at once, for an event of the row, and stay until the row is put again or goes | `docs/AI.md` "How it works" |
| `Processor` | overlapping grouping runs over a table that `EventFeed` and the TTL change; refines `IssueContract` | `processor/main.go:134-174`, `257-318` |
| `IssueId` | `computeIssueID`, and which events it should take for alike | `processor/main.go:176-223` |
| `Grouping` | what joins `Processor` and `IssueId`: the issue ids of one are those of the other | `processor/main.go:154` |
| `ProcessorProofs` | theorems about `Processor` | |
| `GroupingProofs` | theorems about `IssueId` | |
| `PositionProofs` | lemmas that the proofs share: a set of positions has a first and a last one | |
| `Query` | one client that lists rows page by page | `query/main.go:84-106`, `168-301` |
| `QueryProofs` | theorems about `Query` | |
| `MC...` | the instances TLC checks | |

### Ingest

An environment (`Envs`) runs one invocation at a time. Its record in `inv` is
the program counter and the locals that outlive a call: the request, the date
taken from the clock at the first line of `handleRequest`, the loop index and
the set of failed items (the code keeps its size). `Receive` is the first line;
`Refuse` and `Admit` stand for everything up to `persist`, which stores nothing;
`PutEnvelope`, `PutItem`, `PutEvent` and their `...Fails` twins are the three
storage calls; `RespondId` and `RespondError` the end. A call that returns an
error either had no effect or is put into `late` and delivered at any later
moment, even after the retry has finished. `Kill` stops an invocation between
two calls. A retry is another `Receive` of the same request, in any
environment, at the same time or later; `Midnight` may pass anywhere.

Data is abstract: bodies, ids and digests are model values; the items of a body
are a type and an id. A type is `"event"`, `" event"` (an event only once its
spaces are trimmed), `""` or another one, since these are the types the code
tells apart. A payload is `Part(request, i)`: which item of which body, as
which route reads it; a row is the path it names and the part its metadata was
read from. Level, platform, timestamp and TTL of a row are left out here.

`IngestContract` is implemented with `archived` the documents with an envelope
object, `indexed` the keys of the table and `promised` the acknowledged
requests.

`EventFeed` is what joins `Ingest` and `Processor`: `Ingest` implements it
(`FeedsTheProcessor`), with the objects of event items and, of each row, the path
in it or that it is no event's; the processor's environment consists of its
actions. It is no formality. A retry after midnight, or a call that comes late,
writes under an earlier date; so does an invocation that read the clock before
midnight. And the first item of a body has the bare event id as its row key
whatever its type, so that a body with the same id that begins with another item
replaces the row of an event (`PutOther`).

`StepsLeft` bounds what an invocation has still to do, two calls per item;
`InvocationsAdvance` says that each step lowers it.

### EnvelopeParser

`TypeOK` includes that the buffer is always ahead of what was consumed by exactly
the bytes that come next. A header line is one byte that stands for a whole JSON object; what matters of
it is its `length` (absent, a number, negative). Every byte also occurs in
payloads. `BufferSize` is `maxHeaderBytes + 1`. One action reads one part of an
envelope; nothing runs beside the parser, so a part is one step although it may
refill the buffer. `Fill`, `ReadSlice`, `ReadFull` and `ReadByte` follow the Go
library: a refill slides the unread bytes to the front of the buffer and reads
after them, a large read goes past the buffer and a small one through it. A
payload with a length is a copy; one without is the window of the buffer that
`readLine` returned, and what it denotes changes with the buffer.

Two bodies that the grammar allows are refused by the code, and
`RejectsOnlyUnreadable` excludes them by name: one with exactly the maximum
number of items (the count is tested before it is known whether another item
follows), and one that ends where a payload without `length` would start.

The grammar allows "\n" after the last item; the reference reads that as the
code's comment does, an empty line after the newline that ends the payload.

### RateLimiter

Exact arithmetic replaces `float64`: time in ticks, tokens in units, so that
rates and bursts may be any fractions. Rounding of floats is not modelled.
Each environment has its own buckets (`Recycle` drops them); requests of a key
reach any of them. `granted` and `told` are history variables.

### Registry and Admission

`Registry` keeps, per project, every row it has had (`table`) and how far all
replicas have got (`settled`): an eventually consistent read may return any row
between the two. The register command is two steps, `Mint` and the put, run by
any number of `Operators` at once; a put reported as failed may be delivered
later. A minted key is random, so no other project has it; the secret key,
which decides nothing, is left out. Nothing in the repository disables a
project; `Disable` is an operator's edit of the table, external.

`Admission` adds the invocations of both APIs. Between `Receive` and the lookup
an invocation only reads what came with it, so `RefuseMalformed`,
`RefuseUnauthenticated`, `RefuseUnusable` and the lookup (`AcceptKey`,
`RefuseKey`, `ValidateKeyFails`) are each one step; the row is read then, and
the answer used in a later step, after any change of the table. Limiter,
decompression and parsing follow without another call, as one step whose part
in the buckets is the limiter's own action (`Limiter!Grant`, `Limiter!Deny`).
An ingest request that `Admit` lets through is what `Ingest` calls admitted, a
listing that `AdmitQuery` lets through what `Query` calls a page.
The bytes of a header, a DSN or a compressed body are abstracted to what they
carry: a key or none, a project or none, a coding, two sizes. `from` is history.

Content codings are told apart as `decompressDeflate` does: it takes a body for
zlib if it begins with 0x78 and `zlib.NewReader` accepts its first two bytes
(`IsTakenForZlib`), for raw DEFLATE otherwise, and does not change its mind.

Where the code departs from what the properties ask, the departure has a name:

- `IsHiddenDsn`: a DSN in the first line of a compressed envelope, with no other
  form, is answered with 403, since authentication precedes decompression;
  `docs/COMPATIBILITY.md:44-45` calls it an alternative to the other two forms.
- `IsShadowedDsn`: a DSN beside an `X-Sentry-Auth` header without a key is not
  looked for; 401.
- `IsMistaken`: under `Content-Encoding: deflate`, a zlib stream that does not
  begin with 0x78 (a window below 32 KiB) is read as raw DEFLATE, and a raw one
  that begins like zlib as zlib; both are refused.
- `IsUnparsed`: what is no envelope is admitted for a project called "store",
  because the route is looked for anywhere in the path.
- `IsOpaque`: bytes sent to the store endpoint compressed, without a
  `Content-Encoding`, are archived as they are.

`EntitledIsLetIn` excepts the first two and `BodiesAreJudgedRight` the last three
(together `IsDeparture`); of all other requests they say that the code does what
it should. A store request with a plain body is no exception.

### Processor

The repository does not run the processor: `docs/AI.md:3-5` calls it "experimental
source only", and `infra/main.tf` has neither its Lambda nor a schedule. The model
is of what the code would do under the schedule of `docs/AI.md:13-14`.

`run` holds, per invocation, the loop's place: the keys the scan has not read
yet, the rows scanned (key and path; nothing else of a row is used), and the
issue computed for the row at hand. `ScanItem` reads one key, so that a scan
sees rows of different moments, in any order. The scan does not ask for a
consistent read: `old` is, per key, what some replica may still have a scan find
there, so that a run may miss a fresh row or find one that is grouped, replaced
or gone, until `CatchUp`. `Fetch` and `Update` are the two calls per row,
`...Fails` the `continue` of each. `UpdateItem` is what the call does. An attempt
without answer may take effect later (`late`, `LateUpdate`), after the SDK's next
attempt (`Retry`), after the run has gone on, or after it was killed; an attempt
that took effect and whose answer was lost is followed by one that meets the
condition, which changes nothing and is logged as a failure: `Update` stands for
both endings, since the loop goes on all the same.

Beside the runs, ingest puts objects and rows, which are the actions of
`EventFeed`, and rows and objects expire. A row's `path` stands for all that only
ingest writes: `item_type`, `s3_path`, `expires_at`; `OtherPath` for these of a
row that is no event's. A path is a key and a date; that nothing else of an S3 key
is needed to tell the objects of events apart is `PathIsKeyAndDate` of
`IngestProofs`. The summary is left out, since no decision depends on it and a
failed AI call changes nothing else. `grouped` is history.

In `Processor`, `Fingerprint` is any function of the payload. `Grouping` says
which: `ComputeIssueId` of `IssueId`, over texts made of words that matter (a
blank, a capital, the separator `|`, the literal `no-exception`), with the hash
taken to be free of collisions. No run checks it, being a pure function;
`IssueIdsAreExact` is proved: two events get one issue iff they are alike, where
alike is what `docs/AI.md:18-22` lists, the exception's value included. Events
with a `|` inside a part are excepted (`IsPlain`): with it, the type `a|b` and
the value `c` read as the type `a` and the value `b|c`.

The repository's test means something else by alike.
`TestComputeIssueIDGroupsSimilarEvents` (`processor/main_test.go:25-35`) gives two
events different exception values and asks that they "group together". It passes
because `b := a` copies the slice header only: both events share the one
exception, so that the test compares an event with itself. With values of their
own, the two would get different issues, as `IssueIdsAreExact` says; `AI.md`,
which names the value, is on the code's side.

`ReservedWords` says which attribute names DynamoDB refuses in an expression
without an alias. The code's comments name two, `level` and `timestamp`.
DynamoDB's list also has `status`, which the scan's filter uses without an
alias: `processor_reserved` takes it too, and that is the code as it is. The
other runs of the processor take the two, and so show what holds once the scan
has an alias. The theorems make no assumption about it.

`IssueContract` is implemented with status and issue of each row. `StepsLeft`
bounds what a run has still to do: a key to read, two calls per row found.
`RunsAdvance` says that each step lowers it, and `NoEventIsPassedOver` that on
the way no event is lost from what the run still has before it (`Holds`), as long
as the row stays as it is, every replica has it, and no call fails, the scan's
included: these are the two halves of `EveryEventIsGrouped` that do not need
fairness. An event that the scan's replica does not have yet is for a later run.

`IssueContract` leaves two things open that a reader might not expect: a run with
an old scan may give the event's issue to a row of another type that has replaced
it, and to a row that has gone, which comes back without expiry (`processor_ttl`).

`docs/AI.md` says the update's condition lets a row be processed once. That
holds between two puts (`OncePerPut`); a retry of a body puts its rows again,
without issue and as received, and they are grouped again.

### Query

The handler keeps nothing between requests, so the state is the client's:
`session` holds its query, the cursor and what it has been given. `Page` is one
request; `Refuse` one that is answered with 400 or 500 for its parameters, in
which `AliasesUsed` and `AliasesPassed` follow the code and `IsAccepted` is
DynamoDB's rule. A request that fails changes nothing and is left out. A page
ends at the limit, at 1 MB (that is, anywhere after its first row) or at the end
of what there is, and has a cursor unless it ends there.

`QueryInput` asks for no consistent read, and an index has none: each request is
answered by a view of its own (`IsView`), which shows of every key the row as it
is (`rows`) or one of those that some replica has not got over yet (`old`);
`CatchUp` is the last of them getting over one. A row that is put again with
another timestamp loses its old place in the index before it has the new one, so
that a view of the index may also show nothing of it (`IsMoving`).

Keys and timestamps are numbers, in the order of the strings they stand for.
`steady` is history: the keys that a query would have listed whichever replica
answered (`Certain`), ever since the client began. `NothingMissed` promises these
and no others: a row that ingest put before the client began, and that a replica
still lacks when it answers, may be missing from the list. With a filter, `level`
behaves as `type` does, so the instance lets only `type` differ.
`CursorsAdvance` says that a client which follows the cursors never comes to the
same place again, however many pages the filter leaves empty. The row without
attributes of `processor_ttl`, which no filter and no index shows, is left out.

## The runs

| Run | Bounds | Shows |
|---|---|---|
| `ingest_invocations` | 2 environments, 2 requests sent out of 6 (a body with ids and a trimmed type, one without id, two bodies and a JSON event that share an id, one of them with another item before its event, that JSON event as an envelope without items), 1 midnight, 1 late call at a time, fairness | all safety properties, both refinements, invocations advance and end |
| `ingest_midnight` | 2 environments, the body without id | **violated**: a retry after midnight stores the objects twice |
| `limiter_steady` | 2 environments, 1 key, half-second ticks, 7 moments, a burst of 2.5 tokens | window bound, no early denial, `Retry-After` suffices |
| `limiter_slow` | 0.4 tokens a second, a burst of 1 | **violated**: `Retry-After` is cut off too short |
| `parser_framing` | every body of up to 3 bytes over 8 letters; after a header line, every rest of up to 4 over 8 letters, of up to 8 over 4 and of up to 10 over 2; buffer of 3, at most 3 items | framing, counted payloads, nothing readable rejected |
| `parser_slices` | bodies of up to 13 bytes in a buffer of 16 | **violated**: a payload without length is overwritten |
| `admission_requests` | 1 environment of each API, 2 projects (one called "store"), 2 keys, 1 operator; 46 requests: every combination of the forms, DSNs with and without key and project, no encoding, gzip, deflate and an unknown one before what they may stand for, each named departure, sizes on both sides of the limit; bucket of 1.5 tokens, 2 moments | let in are those, and only those, with a current key; bodies judged rightly; buckets only for registered keys; `RateLimiter` refined |
| `processor_overlap` | 2 runs, 2 keys (one with two bodies, one of which does not parse, one with a body that does not), 2 puts, 1 object at a time, 1 midnight, 1 fault, fairness; `status` not reserved | type, one grouping per put, an issue is that of the row's event, `IssueContract` refined, runs advance and pass over no event, every event that can be loaded is grouped |
| `processor_reserved` | 2 keys with an event each (one does not parse), `status` reserved | **violated**: no event is ever grouped |
| `processor_ttl` | 1 put, no faults | **violated**: an updated row that had expired never expires |
| `query_pages` | every table of up to 3 rows, 2 timestamps and 2 types; 4 queries by key and by time, one of them to refuse, limits below and above the maximum of 2; 2 writes, which put a row or delete one, each lagging for any time | nothing missed, pages in order, cursors advance |
| `query_aliases` | the same and 3 more queries to refuse, without writes | **violated**: a time range with `type=all` is refused |

Two environments and two sends are enough for every pair of a request and its
retry, or of two requests, to interleave call by call; a third adds no new pair
of calls on one key. One late call at a time overtakes any number of calls.
Two runs over the same rows, with a put or an expiration between any two calls
of either, cover each way in which a scan can be stale; the second put replaces
a row that both have seen. The objects of one key, or of the two, come after one
another (`MaxObjects`); the one fault is a call that fails, that comes late, or a
crash. That more of each change nothing in the safety properties is proved.
Two writes are enough for a row that goes, or moves, and comes back while a
replica still shows either state, and for the rows of two cursors to change.
In `admission_requests` one request is under way at a time (`MaxInFlight`):
requests share nothing but the table, which they only read, and the buckets,
which the one step that uses them reads and writes at once; the table changes
between any two steps of a request. The proofs make no use of that bound. The
clock moves only while no request is under way: a lookup is shorter than a tick.
The buffer of three with payloads of four makes a payload straddle one or two
refills, go past the buffer, and end exactly at its end; header lines, payload
lines and counted payloads come just within their limits and just above them, and
the rests of up to ten bytes hold three items, the maximum, and no more.
The runs of `Ingest`, `RateLimiter` and `EnvelopeParser` switch the deadlock check
off because the bounded number of sends, days, ticks and bytes does end; those of
`Processor` and `Query` leave it on.

The violated properties are what a document or comment of the repository says;
`PROJECT.json` "findings" quotes them. With the `parser_slices` finding in mind,
`Ingest` speaks of the payloads the parser returned.

### Fairness

`FairSpec` asks only that an invocation that can take a step of its own
eventually does (`WF_vars(Proceed(e))`): the handler waits for nothing but
storage calls, and the AWS SDK returns from each with a result or an error.
Nothing is asked of the clock, of late calls, of new requests, nor of any call's
success.

`Processor`'s `FairSpec` asks that each run that is idle is started again, that a
started run takes its next step (it waits only for calls, which return), and that
replicas converge (`CatchUp`), which is what eventual consistency means. The
first rests on the schedule of `docs/AI.md:13-14`, which `infra/main.tf` does not
create: `EveryEventIsGrouped` is about a deployment that has one, and about the
scan with an alias. It asks nothing of a call's success, of `Kill`, of late
updates, or of expiration; faults are bounded by `MaxFaults`, so they do not last
for ever.

## The proofs

`IngestProofs`, for any environments, requests, bodies, days, sends and late
calls (`IngestAssumption` says only that ids have their types and the sets are
not empty). `TypeOK` already says that what a key holds was written by a
request that owns the key. It and `NothingOutOfOrder` form the inductive
invariant together with `NoOrphanedItems`, `RowsPointToObjects` and
`AckedIsStored`: the last three are not inductive alone, because the step that
writes a row is safe only since the invocation's object is stored
(`Accounted`), and a late call only since what must precede it is
(`InOrder`). Storage is only ever added to, so what was established stays;
contents stay because a key's owner is unique where the event id is not shared
(`Unshared`). Proved: `TypeCorrect`, `Accounting`, `Sources`, `Pointers`,
`Idempotence`, `Durability`, and `Implementation`, the refinement of
`IngestContract`, step by step. `Feeding`, the refinement of `EventFeed`, needs one
more invariant, that no invocation and no late call has a date to come
(`NoDateToCome`); from the others it takes that a late row still finds its
object. `OneEvent` says that under a row key whose event id is not shared there
is one event. `Advance` and `Measure` say that `StepsLeft` is a natural number,
zero when the environment is free, and lower after each step.

`RateLimiterProofs`, for any rate, burst, units and number of environments and
keys: `TypeCorrect`; `RateIsLimited`, from an invariant that ties the tokens of
a bucket to every suffix of its grants; `NoEarlyDenial` for a burst of at least
one token, from the dual invariant (some suffix of grants accounts for the
tokens missing); `RetryAfterServes` for a burst of at least a token and a rate
of at least a token per second. The two hypotheses are needed: `limiter_slow`
breaks the second.

`AdmissionProofs`, for any environments, projects, keys, operators and requests:
the invariant `AInv` says that no key belongs to two projects, put, late or
about to be put (`KeysAreUnique`), that every bucket's key was registered, and
of an invocation past the lookup that its key stands in some row of its window
(`LookedUp`). The first is needed because a late put may bring back a key after
a second registration; the last because what was read is used after the table
has changed, and because rows are only ever added, it stays. From it:
`AdmittedIsCurrent` and `BucketsBelong`. `NobodyIsTurnedAway` and
`BodiesAreJudged` need of the state only which endpoint runs where, and
otherwise say of all requests, but for the named departures, what the order of
precedence and of the limits comes to. `LimiterKept` maps each step to a step of `RateLimiter` or a stutter,
whence `TypeCorrect` takes the types of the buckets from `RateLimiterProofs`, and
`AdmissionsAreLimited` its window bound: no key is admitted more often than the
limiter's specification allows.

`ProcessorProofs`, for any number of runs, keys, events and faults:
`TypeCorrect`, `Once`, `IssueSound`, `Implementation`, `Thorough`, `OwnIssue`,
`Advance` and `Measure`. `IssueSound` is not inductive alone: the issue that a run
carries from fetch to update must be one of the row at hand (`Sound`), so must
that of an update that is late (`LateIsSound`), and the row at hand must name an
object of its own key, which `TypeOK` says of every batch and of what a lagging
replica shows. `Once` rests on the update's condition, read with the row as it is
then, not as it was scanned. The same condition makes the update, late or not, a
step of `IssueContract` in `Implementation`: status and issue agree (`TypeOK`), so
a row without issue is one that waits. `Thorough` follows the row of an event
through the run: what the scan reads of a row that every replica has is appended
to the batch with the path it has now, the loop drops only the row at hand, and
drops that only if its object is gone, its row has an issue, or a call fails.
`Measure` needs that there are finitely many keys.

`QueryProofs`, for any keys, timestamps, queries, limits and number of writes:
`TypeCorrect`, `Complete`, `Ordered` and `Advance`. The invariant says that a steady
key is still one which every replica shows to match, and that the cursor stands
between what the client has been given and every such row it has not
(`CursorIsBetween`). A write or a replica that catches up keeps it because a row
that all replicas show to match has one place (`OnePlace`): its key in the table,
and in the index a timestamp on which they agree, or else some view would not
have it. Whichever view answers a page, then, it has the row where the cursor is
compared with it.

`ParserProofs`, for any alphabet, bodies, limits and any buffer of at least two
bytes: `TypeCorrect`, `FramedExactly`, `RejectedJustly` and `CountedExactly`. Of
the reader, `IsAhead` says that what is buffered is what comes next in the body;
every operation keeps it, and `ReadSliceIsLine`, `ReadFullIsNext` and
`ReadByteIsNext` say what each returns without mentioning the buffer. Of the
grammar, `ItemsAtIs` shows that its recursive definition is well-founded (the
item at a position depends on later positions only), which stands in for an
induction. The invariant `IInv` ties the two: the readings of the body are
exactly those that start with the items read so far and go on at the next
position (`OnTrack`), and after an item header line at the item it announces.
Both directions are needed, one for what is accepted and one for what is
refused. The hypothesis on the buffer is in `BufferAssumption`: with a buffer of
one byte no header line would fit.

`GroupingProofs`, for texts of any length over any words: `IssueIdsAreExact`,
since a part without separator ends where the first separator is, so that equal
hashed texts have equal parts one after the other. With `IssueSound`, the issue
of a row is that of the events alike to one stored for it, and of no other.

Only model-checked: the two liveness properties, `EveryInvocationEnds` and
`EveryEventIsGrouped`, since fairness is out of the prover's reach. What is proved
are the safety properties they rest on: the measures that fall with each step
(`Advance` and `Measure` of either module), so that whoever goes on comes to an
end, and `Thorough`, so that a run which comes to its end has grouped what it
could. Every other property that a passing run checks is also proved, two of
them under the hypotheses named above.

## Not modelled

- `infra/main.tf`, CI, build scripts, the browser example and the smoke script:
  declarations and one-shot commands without a state to check. The models take
  from them the Lambda time limit, the TTL and the object lifecycle.
- Timestamps as moments. `lambda/query/main.go:191` compares strings, and an
  event's own timestamp is stored as the client wrote it; `Query` has numbers in
  the order of the strings and says nothing of the moments they denote.
- Summaries, and the AI call that may write them: no decision depends on them.
- `float64` rounding in the limiter; wording, logging, response bodies and
  headers other than `Retry-After`; the syntax of JSON, DSNs and headers; the
  bytes of compression formats.

What a further model could add: time, so that the days after which rows and
objects expire could be compared, and the moments that timestamps denote.
