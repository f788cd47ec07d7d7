------------------------- MODULE RateLimiterProofs -------------------------
(***************************************************************************)
(* Machine-checked proofs about RateLimiter, for every rate, burst, unit,  *)
(* number of keys and of environments, and every spacing of the requests.  *)
(***************************************************************************)
EXTENDS RateLimiter, TLAPS

-----------------------------------------------------------------------------
(* Arithmetic.                                                             *)

(* The refill of two adjacent intervals adds up.                           *)
LEMMA RefillAdds ==
    ASSUME NEW a \in Int, NEW b \in Int, NEW c \in Int
    PROVE  Rate * (c - a) = Rate * (b - a) + Rate * (c - b)
BY LimiterAssumption

LEMMA RefillNat ==
    ASSUME NEW n \in Nat
    PROVE  Rate * n \in Nat
BY LimiterAssumption

(* A longer interval refills no less.                                      *)
LEMMA RefillGrows ==
    ASSUME NEW m \in Int, NEW n \in Int, m <= n
    PROVE  Rate * m \in Int /\ Rate * n \in Int /\ Rate * m <= Rate * n
<1>1. n - m \in Nat
  OBVIOUS
<1>2. Rate * (n - m) \in Nat
  BY <1>1, RefillNat
<1>3. Rate * (n - m) = Rate * n - Rate * m
  BY LimiterAssumption
<1>4. Rate * m \in Int /\ Rate * n \in Int
  BY LimiterAssumption
<1> HIDE DEF RefillNat
<1> QED
  BY <1>2, <1>3, <1>4

LEMMA OneMore ==
    ASSUME NEW n \in Int
    PROVE  n * One \in Int /\ (n + 1) * One = n * One + One
BY LimiterAssumption

-----------------------------------------------------------------------------
(* Buckets.                                                                *)

(* What a request finds in its bucket.                                     *)
LEMMA BucketType ==
    ASSUME TypeOK, NEW e \in Envs, NEW k \in Keys
    PROVE  /\ BucketOf(e, k).tokens \in 0 .. Burst
           /\ BucketOf(e, k).last \in 0 .. now
           /\ now - BucketOf(e, k).last \in Nat
           /\ Rate * (now - BucketOf(e, k).last) \in Nat
<1>1. now \in Nat /\ now <= MaxTime /\ MaxTime \in Nat
  BY LimiterAssumption DEF TypeOK
<1>2. /\ BucketOf(e, k).tokens \in 0 .. Burst
      /\ BucketOf(e, k).last \in 0 .. now
  BY <1>1, LimiterAssumption DEF TypeOK, BucketOf
<1>3. now - BucketOf(e, k).last \in Nat
  BY <1>1, <1>2
<1> QED
  BY <1>2, <1>3, RefillNat

(* The refill: everything since the last request, up to the capacity.      *)
LEMMA RefilledFacts ==
    ASSUME TypeOK, NEW e \in Envs, NEW k \in Keys
    PROVE  LET b == BucketOf(e, k)
               t == b.tokens + Rate * (now - b.last)
           IN  /\ Refilled(e, k) \in 0 .. Burst
               /\ Refilled(e, k) <= t
               /\ Refilled(e, k) = t \/ Refilled(e, k) = Burst
<1> DEFINE b == BucketOf(e, k)
           r == Rate * (now - b.last)
<1>1. b.tokens \in 0 .. Burst /\ r \in Nat
  BY BucketType
<1>2. Refilled(e, k) = IF b.tokens + r > Burst THEN Burst ELSE b.tokens + r
  BY DEF Refilled
<1> HIDE DEF r
<1>3. /\ Refilled(e, k) \in 0 .. Burst
      /\ Refilled(e, k) <= b.tokens + r
      /\ Refilled(e, k) = b.tokens + r \/ Refilled(e, k) = Burst
  BY <1>1, <1>2, LimiterAssumption
<1> QED
  BY <1>3 DEF r

(* Retry-After is a whole number of seconds, at least one.                 *)
LEMMA RetryAfterType ==
    ASSUME NEW t \in Int
    PROVE  RetryAfter(t) \in Nat /\ RetryAfter(t) >= 1
<1>1. Rate * TicksPerSecond \in Nat \ {0}
  BY LimiterAssumption
<1>2. One - t \in Int
  BY LimiterAssumption
<1>3. (One - t) \div (Rate * TicksPerSecond) \in Int
  BY <1>1, <1>2
<1> QED
  BY <1>3 DEF RetryAfter

(* What a request leaves in the buckets.                                   *)
LEMMA SetBucketFacts ==
    ASSUME TypeOK, NEW e \in Envs, NEW k \in Keys, NEW t, SetBucket(e, k, t)
    PROVE  /\ DOMAIN buckets' = Envs
           /\ DOMAIN buckets'[e] = DOMAIN buckets[e] \cup {k}
           /\ buckets'[e][k] = [tokens |-> t, last |-> now]
           /\ \A x \in DOMAIN buckets[e] : x # k => buckets'[e][x] = buckets[e][x]
           /\ \A f \in Envs : f # e => buckets'[f] = buckets[f]
BY DEF TypeOK, SetBucket

(* A request at (e, k) leaves every other bucket alone.                    *)
LEMMA OtherBuckets ==
    ASSUME TypeOK, NEW e \in Envs, NEW k \in Keys, NEW t, SetBucket(e, k, t),
           NEW f \in Envs, NEW x \in Keys, f # e \/ x # k
    PROVE  /\ x \in DOMAIN buckets'[f] <=> x \in DOMAIN buckets[f]
           /\ x \in DOMAIN buckets[f] => buckets'[f][x] = buckets[f][x]
<1>1. CASE f = e
  BY <1>1 DEF TypeOK, SetBucket
<1>2. CASE f # e
  BY <1>2 DEF TypeOK, SetBucket
<1> QED
  BY <1>1, <1>2

LEMMA SetBucketType ==
    ASSUME TypeOK, NEW e \in Envs, NEW k \in Keys, NEW t \in 0 .. Burst,
           SetBucket(e, k, t), now' = now
    PROVE  \A f \in Envs : \A x \in DOMAIN buckets'[f] :
             x \in Keys /\ buckets'[f][x] \in [tokens: 0 .. Burst, last: 0 .. now']
<1> SUFFICES ASSUME NEW f \in Envs, NEW x \in DOMAIN buckets'[f]
             PROVE  x \in Keys /\ buckets'[f][x] \in [tokens: 0 .. Burst, last: 0 .. now']
  OBVIOUS
<1>1. now \in 0 .. now /\ [tokens |-> t, last |-> now] \in [tokens: 0 .. Burst, last: 0 .. now]
  BY LimiterAssumption DEF TypeOK
<1>2. buckets' = [buckets EXCEPT ![e] =
        [y \in DOMAIN buckets[e] \cup {k} |->
            IF y = k THEN [tokens |-> t, last |-> now] ELSE buckets[e][y]]]
  BY DEF SetBucket
<1>3. f \in DOMAIN buckets
  BY DEF TypeOK
<1>4. CASE f = e
  <2>1. buckets'[f] = [y \in DOMAIN buckets[e] \cup {k} |->
            IF y = k THEN [tokens |-> t, last |-> now] ELSE buckets[e][y]]
    BY <1>2, <1>3, <1>4
  <2>2. CASE x = k
    BY <1>1, <2>1, <2>2
  <2>3. CASE x # k
    BY <2>1, <2>3 DEF TypeOK
  <2> QED
    BY <2>2, <2>3
<1>5. CASE f # e
  <2>1. buckets'[f] = buckets[f]
    BY <1>2, <1>3, <1>5
  <2> QED
    BY <2>1 DEF TypeOK
<1> QED
  BY <1>4, <1>5

-----------------------------------------------------------------------------
(* Type correctness.                                                       *)

LEMMA InitType == Init => TypeOK
BY LimiterAssumption DEF Init, TypeOK, NotTold

LEMMA TypeStep ==
    ASSUME TypeOK, [Next]_vars
    PROVE  TypeOK'
<1>1. ASSUME NEW e \in Envs, NEW k \in Keys, Grant(e, k)
      PROVE  TypeOK'
  <2>1. Refilled(e, k) - One \in 0 .. Burst
    BY <1>1, RefilledFacts, LimiterAssumption DEF Grant
  <2>2. \A f \in Envs : \A x \in DOMAIN buckets'[f] :
          x \in Keys /\ buckets'[f][x] \in [tokens: 0 .. Burst, last: 0 .. now']
    BY <1>1, <2>1, SetBucketType DEF Grant
  <2>3. Append(granted[e][k], now) \in Seq(0 .. MaxTime)
    BY DEF TypeOK
  <2>4. granted' \in [Envs -> [Keys -> Seq(0 .. MaxTime)]]
    BY <1>1, <2>3 DEF Grant, TypeOK
  <2>5. told' \in [Keys -> Int]
    <3>1. NotTold \in Int
      BY DEF NotTold
    <3> QED
      BY <1>1, <3>1 DEF Grant, TypeOK
  <2>6. DOMAIN buckets' = Envs /\ now' = now
    BY <1>1, SetBucketFacts DEF Grant
  <2> QED
    BY <2>2, <2>4, <2>5, <2>6 DEF TypeOK
<1>2. ASSUME NEW e \in Envs, NEW k \in Keys, Deny(e, k)
      PROVE  TypeOK'
  <2>1. Refilled(e, k) \in 0 .. Burst
    BY RefilledFacts
  <2>2. \A f \in Envs : \A x \in DOMAIN buckets'[f] :
          x \in Keys /\ buckets'[f][x] \in [tokens: 0 .. Burst, last: 0 .. now']
    BY <1>2, <2>1, SetBucketType DEF Deny
  <2>3. RetryAfter(Refilled(e, k)) \in Nat
    BY <2>1, RetryAfterType, LimiterAssumption
  <2>4. now + RetryAfter(Refilled(e, k)) * TicksPerSecond \in Int
    BY <2>3, LimiterAssumption DEF TypeOK
  <2>5. told' \in [Keys -> Int]
    BY <1>2, <2>4 DEF Deny, TypeOK
  <2>6. DOMAIN buckets' = Envs /\ now' = now /\ granted' = granted
    BY <1>2, SetBucketFacts DEF Deny
  <2> QED
    BY <2>2, <2>5, <2>6 DEF TypeOK
<1>3. CASE Tick
  <2>1. now' \in 0 .. MaxTime /\ now <= now' /\ now \in Nat /\ now' \in Nat
    BY <1>3, LimiterAssumption DEF Tick, TypeOK
  <2>2. 0 .. now \subseteq 0 .. now'
    BY <2>1
  <2> QED
    BY <1>3, <2>1, <2>2 DEF Tick, TypeOK
<1>4. ASSUME NEW e \in Envs, Recycle(e)
      PROVE  TypeOK'
  BY <1>4 DEF Recycle, TypeOK
<1>5. CASE UNCHANGED vars
  BY <1>5 DEF vars, TypeOK
<1> QED
  BY <1>1, <1>2, <1>3, <1>4, <1>5 DEF Next

(* No bucket is ever in debt, above its capacity or ahead of the clock.    *)
THEOREM TypeCorrect == Spec => []TypeOK
BY InitType, TypeStep, PTL DEF Spec
-----------------------------------------------------------------------------
(* The inductive invariant.                                                *)

\* Units granted from the i-th granted request on, of the history g.
Spent(g, i) == (Len(g) - i + 1) * One

\* They and n units left in the bucket at time t are paid for.
PaidAt(g, i, n, t) ==
    g[i] <= t /\ Spent(g, i) + n <= Burst + Rate * (t - g[i])

\* They and what the bucket holds use up the burst and the whole refill.
UsedUpAt(g, i, n, t) == Spent(g, i) + n = Burst + Rate * (t - g[i])

Solvent(e, k) ==
    /\ granted[e][k] # << >> => k \in DOMAIN buckets[e]
    /\ k \in DOMAIN buckets[e] => \A i \in DOMAIN granted[e][k] :
         PaidAt(granted[e][k], i, buckets[e][k].tokens, buckets[e][k].last)

Tight(e, k) ==
    k \in DOMAIN buckets[e] =>
        \/ buckets[e][k].tokens = Burst
        \/ \E i \in DOMAIN granted[e][k] :
             UsedUpAt(granted[e][k], i, buckets[e][k].tokens, buckets[e][k].last)

Bounded(e, k) ==
    \A i, j \in DOMAIN granted[e][k] :
        i <= j => (j - i + 1) * One
                    <= Burst + Rate * (granted[e][k][j] - granted[e][k][i])

\* A client that was told to come back was told so at least a second after
\* the last request of its key, at every environment.
Waits(e, k) ==
    told[k] # NotTold /\ k \in DOMAIN buckets[e] =>
        buckets[e][k].last + TicksPerSecond <= told[k]

LInv ==
    /\ TypeOK
    /\ \A e \in Envs, k \in Keys :
         Solvent(e, k) /\ Tight(e, k) /\ Bounded(e, k) /\ Waits(e, k)

LEMMA HistoryType ==
    ASSUME TypeOK, NEW e \in Envs, NEW k \in Keys
    PROVE  /\ granted[e][k] \in Seq(0 .. MaxTime)
           /\ Len(granted[e][k]) \in Nat
           /\ \A i \in DOMAIN granted[e][k] :
                i \in Nat /\ granted[e][k][i] \in Nat /\ i >= 1 /\ i <= Len(granted[e][k])
           /\ \A i \in Nat : i >= 1 /\ i <= Len(granted[e][k]) => i \in DOMAIN granted[e][k]
           /\ DOMAIN granted[e][k] = 1 .. Len(granted[e][k])
           /\ now \in Nat
<1>1. granted[e][k] \in Seq(0 .. MaxTime)
  BY DEF TypeOK
<1>2. now \in Nat
  BY LimiterAssumption DEF TypeOK
<1> QED
  BY <1>1, <1>2, LimiterAssumption

LEMMA SpentType ==
    ASSUME TypeOK, NEW e \in Envs, NEW k \in Keys, NEW i \in DOMAIN granted[e][k]
    PROVE  Spent(granted[e][k], i) \in Int
<1>1. Len(granted[e][k]) - i + 1 \in Int
  BY HistoryType
<1> QED
  BY <1>1, OneMore DEF Spent

(* At the moment of a request, the refilled bucket is still paid for ...   *)
LEMMA PaidNow ==
    ASSUME LInv, NEW e \in Envs, NEW k \in Keys, NEW i \in DOMAIN granted[e][k]
    PROVE  PaidAt(granted[e][k], i, Refilled(e, k), now)
<1> DEFINE g == granted[e][k]
           b == BucketOf(e, k)
<1>1. TypeOK /\ Solvent(e, k)
  BY DEF LInv
<1>2. k \in DOMAIN buckets[e]
  BY <1>1 DEF Solvent
<1>3. b = buckets[e][k]
  BY <1>2 DEF BucketOf
<1>4. PaidAt(granted[e][k], i, b.tokens, b.last)
  BY <1>1, <1>2, <1>3 DEF Solvent
<1>5. g[i] \in Nat /\ now \in Nat
  BY <1>1, HistoryType
<1>6. b.tokens \in 0 .. Burst /\ b.last \in 0 .. now
  BY <1>1, BucketType
<1>7. Refilled(e, k) \in 0 .. Burst /\ Refilled(e, k) <= b.tokens + Rate * (now - b.last)
  BY <1>1, RefilledFacts
<1>8. Rate * (now - g[i]) = Rate * (b.last - g[i]) + Rate * (now - b.last)
  BY <1>5, <1>6, RefillAdds
<1>9. Rate * (b.last - g[i]) \in Int /\ Rate * (now - b.last) \in Int
  BY <1>5, <1>6, LimiterAssumption
<1>10. Spent(granted[e][k], i) \in Int
  BY <1>1, SpentType
<1>11. g[i] <= b.last /\ Spent(granted[e][k], i) + b.tokens <= Burst + Rate * (b.last - g[i])
  BY <1>4 DEF PaidAt
<1> HIDE DEF b, g
<1>12. g[i] <= now
  BY <1>5, <1>6, <1>11
<1>13. Spent(granted[e][k], i) + Refilled(e, k) <= Burst + Rate * (now - g[i])
  BY <1>6, <1>7, <1>8, <1>9, <1>10, <1>11, LimiterAssumption
<1> QED
  BY <1>12, <1>13 DEF PaidAt, g

(* ... and full, or still used up.                                         *)
LEMMA TightNow ==
    ASSUME LInv, NEW e \in Envs, NEW k \in Keys, Refilled(e, k) # Burst
    PROVE  \E i \in DOMAIN granted[e][k] : UsedUpAt(granted[e][k], i, Refilled(e, k), now)
<1> DEFINE g == granted[e][k]
           b == BucketOf(e, k)
<1>1. TypeOK /\ Tight(e, k)
  BY DEF LInv
<1>2. b.tokens \in 0 .. Burst /\ b.last \in 0 .. now /\ Rate * (now - b.last) \in Nat
  BY <1>1, BucketType
<1>3. Refilled(e, k) = b.tokens + Rate * (now - b.last) /\ Refilled(e, k) \in 0 .. Burst
  BY <1>1, RefilledFacts
<1>4. b.tokens # Burst
  BY <1>2, <1>3, LimiterAssumption
<1>5. k \in DOMAIN buckets[e] /\ b = buckets[e][k]
  BY <1>4 DEF BucketOf
<1>6. PICK i \in DOMAIN g : UsedUpAt(granted[e][k], i, b.tokens, b.last)
  BY <1>1, <1>4, <1>5 DEF Tight
<1>7. g[i] \in Nat /\ now \in Nat
  BY <1>1, HistoryType
<1>8. Rate * (now - g[i]) = Rate * (b.last - g[i]) + Rate * (now - b.last)
  <2>1. b.last \in Int /\ g[i] \in Int /\ now \in Int
    BY <1>2, <1>7
  <2> HIDE DEF b, g
  <2> QED
    BY <2>1, RefillAdds
<1>9. Rate * (b.last - g[i]) \in Int /\ Spent(granted[e][k], i) \in Int
  BY <1>1, <1>2, <1>7, SpentType, LimiterAssumption
<1>10. Spent(granted[e][k], i) + b.tokens = Burst + Rate * (b.last - g[i])
  BY <1>6 DEF UsedUpAt
<1> HIDE DEF b
<1>11. Spent(granted[e][k], i) + Refilled(e, k) = Burst + Rate * (now - g[i])
  BY <1>2, <1>3, <1>8, <1>9, <1>10, LimiterAssumption
<1> QED
  BY <1>11 DEF UsedUpAt

-----------------------------------------------------------------------------
(* The inductive step, bucket by bucket.                                   *)

(* A bucket and a history that a step leaves alone keep the invariant.     *)
LEMMA Elsewhere ==
    ASSUME LInv, NEW f \in Envs, NEW x \in Keys,
           x \in DOMAIN buckets'[f] <=> x \in DOMAIN buckets[f],
           x \in DOMAIN buckets[f] => buckets'[f][x] = buckets[f][x],
           granted'[f][x] = granted[f][x]
    PROVE  Solvent(f, x)' /\ Tight(f, x)' /\ Bounded(f, x)'
<1>1. Solvent(f, x) /\ Tight(f, x) /\ Bounded(f, x)
  BY DEF LInv
<1>2. Solvent(f, x)'
  BY <1>1 DEF Solvent, PaidAt, Spent
<1>3. Tight(f, x)'
  BY <1>1 DEF Tight, UsedUpAt, Spent
<1>4. Bounded(f, x)'
  BY <1>1 DEF Bounded
<1> QED
  BY <1>2, <1>3, <1>4

(* A denied request at (e, k).                                             *)
LEMMA DeniedHere ==
    ASSUME LInv, NEW e \in Envs, NEW k \in Keys, Deny(e, k)
    PROVE  Solvent(e, k)' /\ Tight(e, k)' /\ Bounded(e, k)'
<1> DEFINE t == Refilled(e, k)
<1>1. TypeOK /\ Bounded(e, k)
  BY DEF LInv
<1>2. k \in DOMAIN buckets'[e] /\ buckets'[e][k] = [tokens |-> t, last |-> now]
  BY <1>1, SetBucketFacts DEF Deny
<1>3. granted' = granted
  BY DEF Deny
<1>4. \A i \in DOMAIN granted[e][k] : PaidAt(granted[e][k], i, t, now)
  BY PaidNow
<1>5. t = Burst \/ \E i \in DOMAIN granted[e][k] : UsedUpAt(granted[e][k], i, t, now)
  BY TightNow
<1> HIDE DEF t
<1>6. Solvent(e, k)'
  BY <1>2, <1>3, <1>4 DEF Solvent, PaidAt, Spent
<1>7. Tight(e, k)'
  BY <1>2, <1>3, <1>5 DEF Tight, UsedUpAt, Spent
<1>8. Bounded(e, k)'
  BY <1>1, <1>3 DEF Bounded
<1> QED
  BY <1>6, <1>7, <1>8

(* A granted request at (e, k): the new grant is the last of its history.  *)
LEMMA GrantedHere ==
    ASSUME LInv, NEW e \in Envs, NEW k \in Keys, Grant(e, k)
    PROVE  Solvent(e, k)' /\ Tight(e, k)' /\ Bounded(e, k)'
<1> DEFINE t == Refilled(e, k)
           g == granted[e][k]
           h == granted'[e][k]
           n == Len(g) + 1
<1>1. TypeOK /\ Bounded(e, k)
  BY DEF LInv
<1>2. k \in DOMAIN buckets'[e] /\ buckets'[e][k] = [tokens |-> t - One, last |-> now]
  BY <1>1, SetBucketFacts DEF Grant
<1>3. t \in 0 .. Burst /\ t >= One
  BY <1>1, RefilledFacts DEF Grant
<1>4. h = Append(g, now)
  BY <1>1 DEF Grant, TypeOK
<1>5. /\ Len(g) \in Nat
      /\ DOMAIN g = 1 .. Len(g)
      /\ \A i \in DOMAIN g : i \in Nat /\ g[i] \in Nat
      /\ now \in Nat
  BY <1>1, HistoryType
<1>6. /\ Len(h) = n
      /\ DOMAIN h = 1 .. n
      /\ h[n] = now
      /\ \A i \in DOMAIN g : h[i] = g[i]
  <2>1. g \in Seq(0 .. MaxTime)
    BY <1>1, HistoryType
  <2> QED
    BY <1>4, <1>5, <2>1
<1> HIDE DEF g, h, t
<1>7. \A i \in DOMAIN h : i \in DOMAIN g \/ i = n
  BY <1>5, <1>6
<1>8. n \in Nat /\ n \in DOMAIN h /\ Spent(h, n) = One
  <2>1. n \in Nat /\ n \in DOMAIN h /\ n - n + 1 = 1
    BY <1>5, <1>6
  <2> QED
    BY <1>6, <2>1, LimiterAssumption DEF Spent
<1>9. \A i \in DOMAIN g : Spent(h, i) = Spent(g, i) + One /\ Spent(g, i) \in Int
  <2> SUFFICES ASSUME NEW i \in DOMAIN g
               PROVE  Spent(h, i) = Spent(g, i) + One /\ Spent(g, i) \in Int
    OBVIOUS
  <2>1. Spent(h, i) = (n - i + 1) * One
    BY <1>6 DEF Spent
  <2>2. n - i + 1 = (Len(g) - i + 1) + 1 /\ Len(g) - i + 1 \in Int
    BY <1>5
  <2> QED
    BY <2>1, <2>2, OneMore DEF Spent
<1>10. Rate * (now - now) = 0
  <2>1. now - now = 0
    BY <1>5
  <2> QED
    BY <2>1, LimiterAssumption
<1>11. \A i \in DOMAIN h : PaidAt(h, i, t - One, now)
  <2>1. PaidAt(h, n, t - One, now)
    <3>1. One + (t - One) <= Burst + 0
      BY <1>3, LimiterAssumption
    <3> QED
      BY <1>5, <1>6, <1>8, <1>10, <3>1 DEF PaidAt
  <2>2. ASSUME NEW i \in DOMAIN g
        PROVE  PaidAt(h, i, t - One, now)
    <3>1. PaidAt(g, i, t, now)
      BY PaidNow DEF g, t
    <3>2. (Spent(g, i) + One) + (t - One) = Spent(g, i) + t
      BY <1>3, <1>9, LimiterAssumption
    <3> QED
      BY <1>6, <1>9, <3>1, <3>2 DEF PaidAt
  <2> QED
    BY <1>7, <2>1, <2>2
<1>12. \E i \in DOMAIN h : UsedUpAt(h, i, t - One, now)
  <2>1. CASE t = Burst
    <3>1. One + (t - One) = Burst + 0
      BY <1>3, <2>1, LimiterAssumption
    <3>2. UsedUpAt(h, n, t - One, now)
      BY <1>6, <1>8, <1>10, <3>1 DEF UsedUpAt
    <3> QED
      BY <1>8, <3>2
  <2>2. CASE t # Burst
    <3>1. PICK i \in DOMAIN g : UsedUpAt(g, i, t, now)
      BY <2>2, TightNow DEF g, t
    <3>2. (Spent(g, i) + One) + (t - One) = Spent(g, i) + t
      BY <1>3, <1>9, LimiterAssumption
    <3>3. UsedUpAt(h, i, t - One, now)
      BY <1>6, <1>9, <3>1, <3>2 DEF UsedUpAt
    <3>4. i \in DOMAIN h
      BY <1>5, <1>6
    <3> QED
      BY <3>3, <3>4
  <2> QED
    BY <2>1, <2>2
<1>13. \A i, j \in DOMAIN h : i <= j => (j - i + 1) * One <= Burst + Rate * (h[j] - h[i])
  <2> SUFFICES ASSUME NEW i \in DOMAIN h, NEW j \in DOMAIN h, i <= j
               PROVE  (j - i + 1) * One <= Burst + Rate * (h[j] - h[i])
    OBVIOUS
  <2>1. CASE j = n
    <3>1. Spent(h, i) + (t - One) <= Burst + Rate * (now - h[i])
      BY <1>11 DEF PaidAt
    <3>2. Spent(h, i) = (j - i + 1) * One
      BY <1>6, <2>1 DEF Spent
    <3>3. Spent(h, i) \in Int /\ h[i] \in Nat
      BY <1>5, <1>6, <1>7, <1>8, <1>9, LimiterAssumption
    <3>4. Rate * (now - h[i]) \in Int
      BY <1>5, <3>3, LimiterAssumption
    <3>5. Spent(h, i) <= Burst + Rate * (now - h[i])
      BY <1>3, <3>1, <3>3, <3>4, LimiterAssumption
    <3> QED
      BY <1>6, <2>1, <3>2, <3>5
  <2>2. CASE j # n
    <3>1. i \in DOMAIN g /\ j \in DOMAIN g
      BY <1>5, <1>6, <1>7, <2>2
    <3>2. (j - i + 1) * One <= Burst + Rate * (g[j] - g[i])
      BY <1>1, <3>1 DEF Bounded, g
    <3> QED
      BY <1>6, <3>1, <3>2
  <2> QED
    BY <2>1, <2>2
<1>14. h = granted'[e][k]
  BY DEF h
<1>15. t - One = buckets'[e][k].tokens /\ now = buckets'[e][k].last
  BY <1>2
<1>16. Solvent(e, k)'
  BY <1>2, <1>11, <1>14, <1>15 DEF Solvent
<1>17. Tight(e, k)'
  BY <1>12, <1>14, <1>15 DEF Tight
<1>18. Bounded(e, k)'
  BY <1>13, <1>14 DEF Bounded
<1> QED
  BY <1>16, <1>17, <1>18

(* A client is told to wait at least one second.                           *)
LEMMA WaitsStep ==
    ASSUME LInv, [Next]_vars
    PROVE  \A f \in Envs, x \in Keys : Waits(f, x)'
<1> SUFFICES ASSUME NEW f \in Envs, NEW x \in Keys,
                    told'[x] # NotTold, x \in DOMAIN buckets'[f]
             PROVE  buckets'[f][x].last + TicksPerSecond <= told'[x]
  BY DEF Waits
<1>1. TypeOK /\ TypeOK' /\ Waits(f, x)
  BY TypeStep DEF LInv
<1>2. ASSUME NEW e \in Envs, NEW k \in Keys, Grant(e, k)
      PROVE  buckets'[f][x].last + TicksPerSecond <= told'[x]
  <2>1. x # k
    BY <1>1, <1>2 DEF Grant, TypeOK
  <2>2. told'[x] = told[x]
    BY <1>1, <1>2, <2>1 DEF Grant, TypeOK
  <2>3. x \in DOMAIN buckets[f] /\ buckets'[f][x] = buckets[f][x]
    BY <1>1, <1>2, <2>1, OtherBuckets DEF Grant
  <2> QED
    BY <1>1, <2>2, <2>3 DEF Waits
<1>3. ASSUME NEW e \in Envs, NEW k \in Keys, Deny(e, k)
      PROVE  buckets'[f][x].last + TicksPerSecond <= told'[x]
  <2>1. CASE x = k
    <3>1. told'[x] = now + RetryAfter(Refilled(e, k)) * TicksPerSecond
      BY <1>1, <1>3, <2>1 DEF Deny, TypeOK
    <3>2. buckets'[f][x].last \in Nat /\ buckets'[f][x].last <= now /\ now \in Nat
      <4>1. now' = now /\ now \in Nat
        BY <1>1, <1>3, LimiterAssumption DEF TypeOK, Deny
      <4>2. buckets'[f][x] \in [tokens: 0 .. Burst, last: 0 .. now']
        BY <1>1 DEF TypeOK
      <4> QED
        BY <4>1, <4>2
    <3>3. RetryAfter(Refilled(e, k)) \in Nat /\ RetryAfter(Refilled(e, k)) >= 1
      <4>1. Refilled(e, k) \in Int
        BY <1>1, RefilledFacts
      <4> QED
        BY <4>1, RetryAfterType
    <3>4. RetryAfter(Refilled(e, k)) * TicksPerSecond >= TicksPerSecond
          /\ RetryAfter(Refilled(e, k)) * TicksPerSecond \in Nat
      BY <3>3, LimiterAssumption
    <3> QED
      BY <3>1, <3>2, <3>4, LimiterAssumption
  <2>2. CASE x # k
    <3>1. told'[x] = told[x]
      BY <1>1, <1>3, <2>2 DEF Deny, TypeOK
    <3>2. x \in DOMAIN buckets[f] /\ buckets'[f][x] = buckets[f][x]
      BY <1>1, <1>3, <2>2, OtherBuckets DEF Deny
    <3> QED
      BY <1>1, <3>1, <3>2 DEF Waits
  <2> QED
    BY <2>1, <2>2
<1>4. ASSUME NEW e \in Envs, Recycle(e)
      PROVE  buckets'[f][x].last + TicksPerSecond <= told'[x]
  BY <1>1, <1>4 DEF Recycle, TypeOK, Waits
<1>5. CASE Tick \/ UNCHANGED vars
  BY <1>1, <1>5 DEF Tick, vars, Waits
<1> QED
  BY <1>2, <1>3, <1>4, <1>5 DEF Next

LEMMA InitLInv == Init => LInv
<1> SUFFICES ASSUME Init PROVE LInv
  OBVIOUS
<1>1. TypeOK
  BY InitType
<1>2. ASSUME NEW e \in Envs, NEW k \in Keys
      PROVE  Solvent(e, k) /\ Tight(e, k) /\ Bounded(e, k) /\ Waits(e, k)
  <2>1. granted[e][k] = << >> /\ k \notin DOMAIN buckets[e]
    BY DEF Init
  <2> QED
    BY <2>1 DEF Solvent, Tight, Bounded, Waits
<1> QED
  BY <1>1, <1>2 DEF LInv

LEMMA LInvStep ==
    ASSUME LInv, [Next]_vars
    PROVE  LInv'
<1>1. TypeOK /\ TypeOK'
  BY TypeStep DEF LInv
<1>2. \A f \in Envs, x \in Keys : Waits(f, x)'
  BY WaitsStep
<1>3. ASSUME NEW f \in Envs, NEW x \in Keys
      PROVE  Solvent(f, x)' /\ Tight(f, x)' /\ Bounded(f, x)'
  <2>1. ASSUME NEW e \in Envs, NEW k \in Keys, Grant(e, k)
        PROVE  Solvent(f, x)' /\ Tight(f, x)' /\ Bounded(f, x)'
    <3>1. CASE f = e /\ x = k
      BY <2>1, <3>1, GrantedHere
    <3>2. CASE f # e \/ x # k
      <4>1. granted'[f][x] = granted[f][x]
        BY <1>1, <2>1, <3>2 DEF Grant, TypeOK
      <4>2. /\ x \in DOMAIN buckets'[f] <=> x \in DOMAIN buckets[f]
            /\ x \in DOMAIN buckets[f] => buckets'[f][x] = buckets[f][x]
        BY <1>1, <2>1, <3>2, OtherBuckets DEF Grant
      <4> QED
        BY <4>1, <4>2, Elsewhere
    <3> QED
      BY <3>1, <3>2
  <2>2. ASSUME NEW e \in Envs, NEW k \in Keys, Deny(e, k)
        PROVE  Solvent(f, x)' /\ Tight(f, x)' /\ Bounded(f, x)'
    <3>1. CASE f = e /\ x = k
      BY <2>2, <3>1, DeniedHere
    <3>2. CASE f # e \/ x # k
      <4>1. granted'[f][x] = granted[f][x]
        BY <2>2 DEF Deny
      <4>2. /\ x \in DOMAIN buckets'[f] <=> x \in DOMAIN buckets[f]
            /\ x \in DOMAIN buckets[f] => buckets'[f][x] = buckets[f][x]
        BY <1>1, <2>2, <3>2, OtherBuckets DEF Deny
      <4> QED
        BY <4>1, <4>2, Elsewhere
    <3> QED
      BY <3>1, <3>2
  <2>3. ASSUME NEW e \in Envs, Recycle(e)
        PROVE  Solvent(f, x)' /\ Tight(f, x)' /\ Bounded(f, x)'
    <3>1. CASE f = e
      <4>1. granted'[f][x] = << >> /\ x \notin DOMAIN buckets'[f]
        BY <1>1, <2>3, <3>1 DEF Recycle, TypeOK
      <4> QED
        BY <4>1 DEF Solvent, Tight, Bounded
    <3>2. CASE f # e
      <4>1. buckets'[f] = buckets[f] /\ granted'[f] = granted[f]
        BY <1>1, <2>3, <3>2 DEF Recycle, TypeOK
      <4> QED
        BY <4>1, Elsewhere
    <3> QED
      BY <3>1, <3>2
  <2>4. CASE Tick \/ UNCHANGED vars
    BY <2>4, Elsewhere DEF Tick, vars
  <2> QED
    BY <2>1, <2>2, <2>3, <2>4 DEF Next
<1> QED
  BY <1>1, <1>2, <1>3 DEF LInv

-----------------------------------------------------------------------------
(* The theorems.                                                           *)

THEOREM Invariance == Spec => []LInv
BY InitLInv, LInvStep, PTL DEF Spec

(* One environment never grants a key more than burst and refill, in any   *)
(* window, for every rate, burst and spacing of requests.                  *)
THEOREM RateIsLimited == Spec => []WindowBound
<1>1. LInv => WindowBound
  BY DEF LInv, Bounded, WindowBound
<1> QED
  BY <1>1, Invariance, PTL

(* With a burst of at least one token, a request is turned away only when  *)
(* granting it would break the limit.                                      *)
THEOREM NoEarlyDenial == Burst >= One => (Spec => DenialsAreNecessary)
<1> SUFFICES ASSUME Burst >= One PROVE Spec => DenialsAreNecessary
  OBVIOUS
<1>1. LInv => \A e \in Envs, k \in Keys : Deny(e, k) => Exhausted(e, k)
  <2> SUFFICES ASSUME LInv, NEW e \in Envs, NEW k \in Keys, Deny(e, k)
               PROVE  Exhausted(e, k)
    OBVIOUS
  <2> DEFINE g == granted[e][k]
             t == Refilled(e, k)
  <2>1. TypeOK
    BY DEF LInv
  <2>2. t \in 0 .. Burst /\ t < One
    BY <2>1, RefilledFacts DEF Deny
  <2>3. t # Burst
    BY <2>2, LimiterAssumption
  <2>4. PICK i \in DOMAIN g : UsedUpAt(g, i, t, now)
    BY <2>3, TightNow
  <2>5. Len(g) - i + 1 \in Int /\ Len(g) - i + 2 = (Len(g) - i + 1) + 1
    BY <2>1, HistoryType
  <2>6. (Len(g) - i + 2) * One = Spent(g, i) + One /\ Spent(g, i) \in Int
    BY <2>5, OneMore DEF Spent
  <2>7. Spent(g, i) + t = Burst + Rate * (now - g[i])
    BY <2>4 DEF UsedUpAt
  <2> HIDE DEF g, t
  <2>8. (Len(g) - i + 2) * One > Burst + Rate * (now - g[i])
    BY <2>2, <2>6, <2>7, LimiterAssumption
  <2> QED
    BY <2>8 DEF Exhausted, g
<1> QED
  BY <1>1, Invariance, PTL DEF DenialsAreNecessary

(* At one token per second or more, and a burst of at least one token, a   *)
(* client that waits as long as Retry-After says is served, whichever      *)
(* environment it reaches.                                                 *)
THEOREM RetryAfterServes ==
    Burst >= One /\ Rate * TicksPerSecond >= One => (Spec => RetryAfterIsEnough)
<1> SUFFICES ASSUME Burst >= One, Rate * TicksPerSecond >= One
             PROVE  Spec => RetryAfterIsEnough
  OBVIOUS
<1>1. LInv => \A e \in Envs, k \in Keys :
                Deny(e, k) => told[k] = NotTold \/ now < told[k]
  <2> SUFFICES ASSUME LInv, NEW e \in Envs, NEW k \in Keys, Deny(e, k),
                      told[k] # NotTold, ~(now < told[k])
               PROVE  FALSE
    OBVIOUS
  <2> DEFINE b == BucketOf(e, k)
             t == Refilled(e, k)
  <2>1. TypeOK /\ Waits(e, k)
    BY DEF LInv
  <2>2. t \in 0 .. Burst /\ t < One
    BY <2>1, RefilledFacts DEF Deny
  <2>3. t = b.tokens + Rate * (now - b.last)
    BY <2>1, <2>2, RefilledFacts, LimiterAssumption
  <2>4. b.tokens \in 0 .. Burst /\ b.last \in 0 .. now /\ Rate * (now - b.last) \in Nat
    BY <2>1, BucketType
  <2>5. b.tokens < One
    <3> HIDE DEF b, t
    <3> QED
      BY <2>2, <2>3, <2>4, LimiterAssumption
  <2>6. k \in DOMAIN buckets[e] /\ b = buckets[e][k]
    BY <2>5, LimiterAssumption DEF BucketOf
  <2>7. b.last + TicksPerSecond <= told[k]
    BY <2>1, <2>6 DEF Waits
  <2>8. now \in Nat /\ told[k] \in Int
    BY <2>1, LimiterAssumption DEF TypeOK
  <2>9. TicksPerSecond <= now - b.last /\ now - b.last \in Int
    <3>1. b.last \in Int
      BY <2>4, <2>8
    <3> HIDE DEF b
    <3> QED
      BY <2>7, <2>8, <3>1, LimiterAssumption
  <2>10. Rate * TicksPerSecond <= Rate * (now - b.last)
    <3> HIDE DEF b
    <3> QED
      BY <2>9, RefillGrows, LimiterAssumption
  <2> HIDE DEF b, t
  <2> QED
    BY <2>2, <2>3, <2>4, <2>10, LimiterAssumption
<1> QED
  BY <1>1, Invariance, PTL DEF RetryAfterIsEnough
=============================================================================
