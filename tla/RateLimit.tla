------------------------------ MODULE RateLimit ------------------------------
(***************************************************************************)
(* The sliding-window limiter of the API (packages/server/src/ratelimit.ts)*)
(* and the token bucket of the peer transport (contracts, frames.ts).      *)
(***************************************************************************)
EXTENDS Integers, Sequences, FiniteSets

CONSTANTS
  Key,          \* limiter keys
  Limit,        \* the limit each route passes with its keys
  Window,       \* and the window
  SweepEvery,   \* sweepEveryMs
  MaxTicks,     \* bound on the clock
  Burst, PerTick  \* tokenBucketBurst, tokenBucketPerSec per tick of the clock

ASSUME RateLimitAssumption ==
  /\ Limit \in [Key -> Nat \ {0}] /\ Window \in [Key -> Nat \ {0}]
  /\ {SweepEvery, MaxTicks, Burst, PerTick} \subseteq Nat

VARIABLES
  ticks,        \* Date.now()
  hits,         \* RateLimiter.hits: which of the calls in passed it remembers
  lastSweep, maxWindow,
  passed,       \* when each key was let through, in order: what the limit is about
  bucket        \* TokenBucket: tokens, the time of the last call, frames let through

limitVars == <<ticks, hits, lastSweep, maxWindow, passed, bucket>>

LimitInit ==
  /\ ticks = 0
  /\ hits = [k \in Key |-> {}]
  /\ lastSweep = 0 /\ maxWindow = 0
  /\ passed = [k \in Key |-> <<>>]
  /\ bucket = [tokens |-> Burst, last |-> 0, taken |-> 0]

Larger(x, y) == IF x > y THEN x ELSE y

\* Mutant of SweepBefore: the window of the call at hand.
SweepBeforeOwn(k) == ticks - Window[k]
SweepBefore(k) == ticks - Larger(maxWindow, Window[k])

\* Those of the calls of key k that came after the cutoff.
After(k, calls, cutoff) == {i \in calls : passed[k][i] > cutoff}

\* sweep, which forgets the keys left without a hit; an absent key and an
\* empty one are the same to check.
Swept(k) == IF ticks - lastSweep >= SweepEvery
            THEN [j \in Key |-> After(j, hits[j], SweepBefore(k))] ELSE hits

\* check(key, limit, window).
Check(k) ==
  LET recent == After(k, Swept(k)[k], ticks - Window[k])
      ok == Cardinality(recent) < Limit[k]
  IN /\ maxWindow' = Larger(maxWindow, Window[k])
     /\ lastSweep' = IF ticks - lastSweep >= SweepEvery THEN ticks ELSE lastSweep
     /\ hits' = [Swept(k) EXCEPT ![k] = IF ok THEN recent \union {Len(passed[k]) + 1} ELSE recent]
     /\ passed' = IF ok THEN [passed EXCEPT ![k] = Append(@, ticks)] ELSE passed
     /\ UNCHANGED <<ticks, bucket>>

Smaller(x, y) == IF x < y THEN x ELSE y

Refill(b) == Smaller(Burst, b.tokens + (ticks - b.last) * PerTick)

\* tryTake: the time is noted whether or not a token is there.
TryTake ==
  /\ bucket.taken < Burst + MaxTicks * PerTick + 1
  /\ bucket' = IF Refill(bucket) >= 1
               THEN [tokens |-> Refill(bucket) - 1, last |-> ticks, taken |-> bucket.taken + 1]
               ELSE [bucket EXCEPT !.tokens = Refill(bucket), !.last = ticks]
  /\ UNCHANGED <<ticks, hits, lastSweep, maxWindow, passed>>

Wait ==
  /\ ticks < MaxTicks
  /\ ticks' = ticks + 1
  /\ UNCHANGED <<hits, lastSweep, maxWindow, passed, bucket>>

LimitNext == (\E k \in Key : Check(k)) \/ TryTake \/ Wait

LimitSpec == LimitInit /\ [][LimitNext]_limitVars

-----------------------------------------------------------------------------
\* Any call let through comes a window later than the one Limit before it.
Spaced(k) ==
  \A i \in DOMAIN passed[k] :
    i + Limit[k] \in DOMAIN passed[k] => passed[k][i + Limit[k]] >= passed[k][i] + Window[k]

\* No key is let through more than its limit in any window of its length,
\* whichever keys with other windows are checked and swept in between
\* (ratelimit.ts: "a periodic sweep drops keys whose newest hit is older than
\* the largest window seen"); and no stretch of time lets more frames through
\* than the burst and what the bucket gained since the start.
LimitHolds ==
  /\ \A k \in Key : Spaced(k)
  /\ bucket.taken <= Burst + ticks * PerTick

\* The inductive invariant: what the limiter forgets is out of every window of
\* its key, and the bucket has let through no more than it ever held.
LimitTypeOK ==
  /\ ticks \in Nat /\ lastSweep \in Nat /\ maxWindow \in Nat
  /\ passed \in [Key -> Seq(Nat)]
  /\ hits \in [Key -> SUBSET Nat] /\ \A k \in Key : hits[k] \subseteq DOMAIN passed[k]
  /\ bucket \in [tokens: Nat, last: Nat, taken: Nat]

Ordered(k) ==
  \A i, j \in DOMAIN passed[k] : passed[k][i] <= ticks /\ (i <= j => passed[k][i] <= passed[k][j])

Remembered(k) ==
  /\ passed[k] # <<>> => Window[k] <= maxWindow
  /\ \A i \in DOMAIN passed[k] : passed[k][i] > ticks - Window[k] => i \in hits[k]

BucketInv ==
  bucket.last <= ticks /\ bucket.taken + bucket.tokens <= Burst + bucket.last * PerTick

LimitInv ==
  /\ LimitTypeOK
  /\ \A k \in Key : Ordered(k) /\ Remembered(k) /\ Spaced(k)
  /\ BucketInv
=============================================================================
