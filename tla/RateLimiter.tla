---------------------------- MODULE RateLimiter ----------------------------
(***************************************************************************)
(* The in-memory token bucket of src/lambda/ingest/ratelimit.go and the    *)
(* Retry-After header that main.go derives from it.                        *)
(*                                                                         *)
(* Every Lambda execution environment has a limiter of its own and handles *)
(* one request at a time; its buckets are gone when it is recycled.  The   *)
(* requests of a key go to any environment.                                *)
(*                                                                         *)
(* Time and tokens, floats in the code, are exact here: time in            *)
(* ticks, TicksPerSecond to the second, and tokens in units, One to the    *)
(* token, so that a rate of 0.4 per second is Rate = 2 with One = 5 and a  *)
(* tick per second.                                                        *)
(***************************************************************************)
EXTENDS Integers, Sequences

CONSTANTS
    Envs,            \* Lambda execution environments
    Keys,            \* public keys
    One,             \* units to a token
    Rate,            \* units refilled per tick   (RATE_LIMIT_RPS)
    Burst,           \* capacity of a bucket      (RATE_LIMIT_BURST)
    TicksPerSecond,
    MaxTime          \* bound: ticks in a behaviour

\* envFloat accepts every number above zero (store.go:153), so a burst below
\* one token and a rate below one token per second are legal.
ASSUME LimiterAssumption ==
    /\ One \in Nat \ {0}
    /\ Rate \in Nat \ {0}
    /\ Burst \in Nat \ {0}
    /\ TicksPerSecond \in Nat \ {0}
    /\ MaxTime \in Nat

VARIABLES
    now,             \* the time handleRequest reads
    buckets,         \* environment -> (key -> its bucket), for the keys seen there
    granted,         \* history: environment -> (key -> times of its granted requests)
    told             \* history: key -> when its client was told to come back

vars == <<now, buckets, granted, told>>

\* A client that was not turned away last time.
NotTold == -1

Init ==
    /\ now = 0
    /\ buckets = [e \in Envs |-> << >>]
    /\ granted = [e \in Envs |-> [k \in Keys |-> << >>]]
    /\ told = [k \in Keys |-> NotTold]

BucketOf(e, k) ==
    IF k \in DOMAIN buckets[e] THEN buckets[e][k] ELSE [tokens |-> Burst, last |-> now]

\* Bug: the refill is not capped at the burst.
Refilled_Uncapped(e, k) ==
    BucketOf(e, k).tokens + Rate * (now - BucketOf(e, k).last)

\* The tokens of a bucket after the refill, at most the capacity.
Refilled(e, k) ==
    LET b == BucketOf(e, k)
        tokens == b.tokens + Rate * (now - b.last)
    IN  IF tokens > Burst THEN Burst ELSE tokens

SetBucket(e, k, tokens) ==
    buckets' = [buckets EXCEPT ![e] =
        [x \in DOMAIN buckets[e] \cup {k} |->
            IF x = k THEN [tokens |-> tokens, last |-> now] ELSE buckets[e][x]]]

\* Bug: Retry-After is not raised to one second.
RetryAfter_Zero(tokens) == (One - tokens) \div (Rate * TicksPerSecond)

\* Whole seconds: at least one, and cut off by the conversion to int.
RetryAfter(tokens) ==
    LET seconds == (One - tokens) \div (Rate * TicksPerSecond)
    IN  IF seconds < 1 THEN 1 ELSE seconds

\* Bug: a request is granted on any remainder of a token.
Grant_OnRemainder(e, k) ==
    /\ Refilled(e, k) > 0
    /\ SetBucket(e, k, IF Refilled(e, k) > One THEN Refilled(e, k) - One ELSE 0)
    /\ granted' = [granted EXCEPT ![e] = [granted[e] EXCEPT ![k] = Append(granted[e][k], now)]]
    /\ told' = [told EXCEPT ![k] = NotTold]
    /\ UNCHANGED now

\* Allow returns true.
Grant(e, k) ==
    /\ Refilled(e, k) >= One
    /\ SetBucket(e, k, Refilled(e, k) - One)
    /\ granted' = [granted EXCEPT ![e] = [granted[e] EXCEPT ![k] = Append(granted[e][k], now)]]
    /\ told' = [told EXCEPT ![k] = NotTold]
    /\ UNCHANGED now

\* Bug: a denied request empties the bucket.
Deny_Charges(e, k) ==
    /\ Refilled(e, k) < One
    /\ SetBucket(e, k, 0)
    /\ told' = [told EXCEPT ![k] = now + RetryAfter(Refilled(e, k)) * TicksPerSecond]
    /\ UNCHANGED <<now, granted>>

\* Allow returns false; the client gets 429 with Retry-After.
Deny(e, k) ==
    /\ Refilled(e, k) < One
    /\ SetBucket(e, k, Refilled(e, k))
    /\ told' = [told EXCEPT ![k] = now + RetryAfter(Refilled(e, k)) * TicksPerSecond]
    /\ UNCHANGED <<now, granted>>

Tick ==
    /\ now < MaxTime
    /\ now' = now + 1
    /\ UNCHANGED <<buckets, granted, told>>

\* A new environment starts with no buckets; what clients were told stands.
Recycle(e) ==
    /\ buckets' = [buckets EXCEPT ![e] = << >>]
    /\ granted' = [granted EXCEPT ![e] = [k \in Keys |-> << >>]]
    /\ UNCHANGED <<now, told>>

Next ==
    \/ \E e \in Envs, k \in Keys : Grant(e, k) \/ Deny(e, k)
    \/ Tick
    \/ \E e \in Envs : Recycle(e)

Spec == Init /\ [][Next]_vars

-----------------------------------------------------------------------------
(* Every variable has its type; a bucket is never in debt, never above its *)
(* capacity, and never ahead of the clock.                                 *)
TypeOK ==
    /\ now \in 0 .. MaxTime
    /\ DOMAIN buckets = Envs
    /\ \A e \in Envs : \A k \in DOMAIN buckets[e] :
         k \in Keys /\ buckets[e][k] \in [tokens: 0 .. Burst, last: 0 .. now]
    /\ granted \in [Envs -> [Keys -> Seq(0 .. MaxTime)]]
    /\ told \in [Keys -> Int]

(* The rate limit itself: in every window between two granted requests of  *)
(* a key, one environment grants no more than the burst and the refill of  *)
(* that window pay for, however the requests are spaced.                   *)
WindowBound ==
    \A e \in Envs, k \in Keys : LET g == granted[e][k] IN
        \A i, j \in DOMAIN g :
            i <= j => (j - i + 1) * One <= Burst + Rate * (g[j] - g[i])

\* One more grant now would break the bound of some window that ends now.
Exhausted(e, k) == LET g == granted[e][k] IN
    \E i \in DOMAIN g : (Len(g) - i + 2) * One > Burst + Rate * (now - g[i])

(* Nobody is turned away early: a request is denied only when granting it  *)
(* would exceed the bound of a window, never because a refill was lost or  *)
(* a denied request was charged.                                           *)
DenialsAreNecessary ==
    [][\A e \in Envs, k \in Keys : Deny(e, k) => Exhausted(e, k)]_vars

(* "Retry-After = seconds until at least one token is available"           *)
(* (ratelimit.go:59): a client that waits as long as it was told, and      *)
(* sends nothing meanwhile, is not turned away again, whichever            *)
(* environment its retry reaches.                                          *)
RetryAfterIsEnough ==
    [][\A e \in Envs, k \in Keys : Deny(e, k) => told[k] = NotTold \/ now < told[k]]_vars
=============================================================================
