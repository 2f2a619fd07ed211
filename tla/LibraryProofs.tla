---------------------------- MODULE LibraryProofs ----------------------------
(***************************************************************************)
(* Theorems about three of the small state machines of MCLibrary, for all  *)
(* keys, limits and windows, and for all sets of messages and payloads: the*)
(* limiter and the token bucket (RateLimit), the reassembly of frames      *)
(* (Frames), and the envelopes (Envelope).                                 *)
(***************************************************************************)
EXTENDS RateLimit, Frames, Envelope, FiniteSetTheorems, SequenceTheorems, WellFoundedInduction,
        TLAPS

-----------------------------------------------------------------------------
(***************************************************************************)
(* The limiter.                                                            *)
(***************************************************************************)

LEMMA Settings ==
  /\ \A k \in Key : Limit[k] \in Nat \ {0} /\ Window[k] \in Nat \ {0}
  /\ SweepEvery \in Nat /\ Burst \in Nat /\ PerTick \in Nat
BY RateLimitAssumption

LEMMA LimitInitially == LimitInit => LimitInv
<1> SUFFICES ASSUME LimitInit PROVE LimitInv
  OBVIOUS
<1>1. /\ ticks = 0 /\ lastSweep = 0 /\ maxWindow = 0
      /\ \A k \in Key : hits[k] = {} /\ passed[k] = <<>>
      /\ passed \in [Key -> Seq(Nat)] /\ hits \in [Key -> SUBSET Nat]
  BY DEF LimitInit
<1>2. /\ bucket \in [tokens: Nat, last: Nat, taken: Nat]
      /\ bucket.tokens = Burst /\ bucket.last = 0 /\ bucket.taken = 0
  BY Settings DEF LimitInit
<1>3. LimitTypeOK
  BY <1>1, <1>2 DEF LimitTypeOK
<1>4. \A k \in Key : Ordered(k) /\ Remembered(k) /\ Spaced(k)
  BY <1>1 DEF Ordered, Remembered, Spaced
<1>5. BucketInv
  BY <1>1, <1>2, Settings DEF BucketInv
<1> QED
  BY <1>3, <1>4, <1>5 DEF LimitInv

\* A sweep keeps every call that is inside the window of its own key.
LEMMA SweepKeeps ==
  ASSUME LimitInv, NEW k \in Key
  PROVE  /\ Swept(k) \in [Key -> SUBSET Nat]
         /\ \A j \in Key : Swept(k)[j] \subseteq hits[j]
         /\ \A j \in Key : \A i \in DOMAIN passed[j] :
              passed[j][i] > ticks - Window[j] => i \in Swept(k)[j]
<1>1. /\ ticks \in Nat /\ maxWindow \in Nat /\ passed \in [Key -> Seq(Nat)]
      /\ hits \in [Key -> SUBSET Nat]
      /\ \A j \in Key : Remembered(j)
  BY DEF LimitInv, LimitTypeOK
<1>2. CASE Swept(k) = hits
  BY <1>1, <1>2 DEF Remembered
<1>3. CASE Swept(k) = [j \in Key |-> After(j, hits[j], SweepBefore(k))]
  <2>1. Swept(k) \in [Key -> SUBSET Nat] /\ \A j \in Key : Swept(k)[j] \subseteq hits[j]
    BY <1>1, <1>3 DEF After
  <2>2. ASSUME NEW j \in Key, NEW i \in DOMAIN passed[j], passed[j][i] > ticks - Window[j]
        PROVE  i \in Swept(k)[j]
    <3>1. i \in hits[j] /\ passed[j] # <<>> /\ Window[j] <= maxWindow
      BY <1>1, <2>2 DEF Remembered
    <3>2. maxWindow <= Larger(maxWindow, Window[k]) /\ Larger(maxWindow, Window[k]) \in Nat
      BY <1>1, Settings DEF Larger
    <3>3. passed[j][i] \in Nat
      BY <1>1
    <3>4. passed[j][i] > SweepBefore(k)
      BY <1>1, <2>2, <3>1, <3>2, <3>3, Settings DEF SweepBefore
    <3> QED
      BY <1>3, <3>1, <3>4 DEF After
  <2> QED
    BY <2>1, <2>2
<1> QED
  BY <1>2, <1>3 DEF Swept

\* A call is let through only a window after the one Limit calls before it:
\* otherwise all calls since that one would still be remembered.
LEMMA RoomMeansLater ==
  ASSUME LimitInv, NEW k \in Key, NEW i \in DOMAIN passed[k],
         i + Limit[k] = Len(passed[k]) + 1,
         Cardinality(After(k, Swept(k)[k], ticks - Window[k])) < Limit[k]
  PROVE  ticks >= passed[k][i] + Window[k]
<1> DEFINE recent == After(k, Swept(k)[k], ticks - Window[k])
           n == Len(passed[k])
<1>1. /\ ticks \in Nat /\ passed[k] \in Seq(Nat) /\ hits[k] \subseteq DOMAIN passed[k]
      /\ Ordered(k)
  BY DEF LimitInv, LimitTypeOK
<1>2. /\ n \in Nat /\ DOMAIN passed[k] = 1..n /\ \A j \in 1..n : passed[k][j] \in Nat
      /\ i \in 1..n /\ i + Limit[k] = n + 1
  BY <1>1
<1>3. Limit[k] \in Nat \ {0} /\ Window[k] \in Nat \ {0}
  BY Settings
<1> HIDE DEF n
<1> SUFFICES ASSUME passed[k][i] > ticks - Window[k] PROVE FALSE
  BY <1>1, <1>2, <1>3
<1>4. \A j \in i..n : j \in recent
  <2> SUFFICES ASSUME NEW j \in i..n PROVE j \in recent
    OBVIOUS
  <2>1. j \in DOMAIN passed[k] /\ i <= j
    BY <1>2
  <2>2. passed[k][i] <= passed[k][j]
    BY <1>1, <2>1 DEF Ordered
  <2>3. passed[k][j] > ticks - Window[k]
    <3>1. ticks \in Nat /\ Window[k] \in Nat /\ passed[k][i] \in Nat /\ passed[k][j] \in Nat
      BY <1>1, <1>2, <1>3, <2>1
    <3> QED
      BY <2>2, <3>1
  <2>4. j \in Swept(k)[k]
    BY <2>1, <2>3, SweepKeeps
  <2> QED
    BY <2>3, <2>4 DEF After
<1>5. IsFiniteSet(recent) /\ Cardinality(recent) \in Nat
  <2>1. recent \in SUBSET (1..n)
    BY <1>1, <1>2, SweepKeeps DEF After
  <2>2. IsFiniteSet(1..n)
    <3>1. 1 \in Int /\ n \in Int
      BY <1>2
    <3> QED
      BY <3>1, FS_Interval
  <2> HIDE DEF recent
  <2> QED
    BY <2>1, <2>2, FS_Subset, FS_CardinalityType
<1>6. Cardinality(i..n) = Limit[k]
  <2>1. i \in Int /\ n \in Int /\ ~(i > n) /\ n - i + 1 = Limit[k]
    BY <1>2, <1>3
  <2> QED
    BY <2>1, FS_Interval
<1>7. i..n \in SUBSET recent
  BY <1>4
<1>8. Cardinality(i..n) <= Cardinality(recent)
  <2> HIDE DEF recent
  <2> QED
    BY <1>5, <1>7, FS_Subset
<1> QED
  BY <1>3, <1>5, <1>6, <1>8

LEMMA OneMore ==
  ASSUME NEW s \in Seq(Nat), NEW x \in Nat
  PROVE  /\ Append(s, x) \in Seq(Nat) /\ Append(s, x) # <<>>
         /\ DOMAIN Append(s, x) = 1..(Len(s) + 1) /\ DOMAIN s = 1..Len(s) /\ Len(s) \in Nat
         /\ Append(s, x)[Len(s) + 1] = x
         /\ \A i \in 1..Len(s) : Append(s, x)[i] = s[i] /\ s[i] \in Nat
OBVIOUS

LEMMA CheckKeeps ==
  ASSUME LimitInv, NEW k \in Key, Check(k)
  PROVE  LimitInv'
<1> DEFINE recent == After(k, Swept(k)[k], ticks - Window[k])
           n == Len(passed[k])
<1>1. /\ LimitTypeOK /\ BucketInv /\ \A j \in Key : Ordered(j) /\ Remembered(j) /\ Spaced(j)
      /\ ticks \in Nat /\ maxWindow \in Nat /\ lastSweep \in Nat
      /\ passed \in [Key -> Seq(Nat)] /\ hits \in [Key -> SUBSET Nat]
      /\ \A j \in Key : hits[j] \subseteq DOMAIN passed[j]
  BY DEF LimitInv, LimitTypeOK
<1>2. /\ ticks' = ticks /\ bucket' = bucket /\ maxWindow' = Larger(maxWindow, Window[k])
      /\ lastSweep' \in {ticks, lastSweep}
  BY DEF Check
<1>3. /\ maxWindow' \in Nat /\ maxWindow <= maxWindow' /\ Window[k] <= maxWindow'
  BY <1>1, <1>2, Settings DEF Larger
<1>4. /\ Swept(k) \in [Key -> SUBSET Nat] /\ \A j \in Key : Swept(k)[j] \subseteq hits[j]
      /\ \A j \in Key : \A i \in DOMAIN passed[j] :
           passed[j][i] > ticks - Window[j] => i \in Swept(k)[j]
  BY SweepKeeps
<1>5. /\ recent \subseteq Swept(k)[k]
      /\ \A i \in DOMAIN passed[k] : passed[k][i] > ticks - Window[k] => i \in recent
  BY <1>4 DEF After
<1>6. n \in Nat /\ DOMAIN passed[k] = 1..n /\ passed[k] \in Seq(Nat)
  BY <1>1
<1>7. PICK S : /\ hits' = [Swept(k) EXCEPT ![k] = S]
               /\ \/ /\ S = recent \union {n + 1} /\ Cardinality(recent) < Limit[k]
                     /\ passed' = [passed EXCEPT ![k] = Append(@, ticks)]
                  \/ S = recent /\ passed' = passed /\ passed[k] # <<>>
  <2>1. recent # {} => passed[k] # <<>>
    BY <1>1, <1>4, <1>5
  <2>2. ~(Cardinality(recent) < Limit[k]) => recent # {}
    BY Settings, FS_EmptySet
  <2> HIDE DEF recent
  <2> QED
    BY <2>1, <2>2 DEF Check, recent
<1>8. hits'[k] = S /\ DOMAIN hits' = Key /\ \A j \in Key : j # k => hits'[j] = Swept(k)[j]
  BY <1>4, <1>7
<1>9. ASSUME NEW j \in Key, j # k
      PROVE  passed'[j] = passed[j] /\ Ordered(j)' /\ Remembered(j)' /\ Spaced(j)'
  <2>1. passed'[j] = passed[j] /\ hits'[j] = Swept(k)[j]
    BY <1>1, <1>7, <1>8, <1>9
  <2>2. Ordered(j)'
    BY <1>1, <1>2, <2>1 DEF Ordered
  <2>3. Remembered(j)'
    <3>1. passed'[j] # <<>> => Window[j] <= maxWindow'
      BY <1>1, <1>3, <2>1, Settings DEF Remembered
    <3> QED
      BY <1>2, <1>4, <2>1, <3>1 DEF Remembered
  <2>4. Spaced(j)'
    BY <1>1, <2>1 DEF Spaced
  <2> QED
    BY <2>1, <2>2, <2>3, <2>4
<1>10. CASE S = recent /\ passed' = passed /\ passed[k] # <<>>
  <2>1. Ordered(k)' /\ Spaced(k)'
    BY <1>1, <1>2, <1>10 DEF Ordered, Spaced
  <2>2. Remembered(k)'
    BY <1>2, <1>3, <1>5, <1>8, <1>10 DEF Remembered
  <2>3. hits' \in [Key -> SUBSET Nat] /\ \A j \in Key : hits'[j] \subseteq DOMAIN passed'[j]
    BY <1>1, <1>4, <1>5, <1>7, <1>8, <1>10
  <2>4. LimitTypeOK'
    BY <1>1, <1>2, <1>3, <1>10, <2>3 DEF LimitTypeOK
  <2>5. BucketInv'
    BY <1>1, <1>2 DEF BucketInv
  <2> QED
    BY <1>9, <2>1, <2>2, <2>4, <2>5 DEF LimitInv
<1>11. CASE /\ S = recent \union {n + 1} /\ Cardinality(recent) < Limit[k]
            /\ passed' = [passed EXCEPT ![k] = Append(@, ticks)]
  <2>1. passed'[k] = Append(passed[k], ticks)
    BY <1>1, <1>11
  <2>2. /\ passed'[k] \in Seq(Nat) /\ Len(passed'[k]) = n + 1 /\ DOMAIN passed'[k] = 1..(n + 1)
        /\ passed'[k][n + 1] = ticks /\ passed'[k] # <<>>
        /\ \A i \in 1..n : passed'[k][i] = passed[k][i] /\ passed[k][i] \in Nat
    BY <1>1, <1>6, <2>1, OneMore
  <2>3. \A i \in 1..(n + 1) : i \in 1..n \/ i = n + 1
    BY <1>6
  <2>4. \A i \in 1..n : passed[k][i] <= ticks /\ \A j \in 1..n : i <= j => passed[k][i] <= passed[k][j]
    BY <1>1, <1>6 DEF Ordered
  <2>5. Ordered(k)'
    <3> SUFFICES ASSUME NEW i \in 1..(n + 1), NEW j \in 1..(n + 1)
                 PROVE  passed'[k][i] <= ticks /\ (i <= j => passed'[k][i] <= passed'[k][j])
      BY <1>2, <2>2 DEF Ordered
    <3>1. passed'[k][i] <= ticks
      <4>1. CASE i = n + 1
        BY <1>1, <2>2, <4>1
      <4>2. CASE i \in 1..n
        BY <2>2, <2>4, <4>2
      <4> QED
        BY <2>3, <4>1, <4>2
    <3>2. ASSUME i <= j PROVE passed'[k][i] <= passed'[k][j]
      <4>1. CASE j = n + 1
        BY <2>2, <3>1, <4>1
      <4>2. CASE j \in 1..n
        <5>1. i \in 1..n
          BY <1>6, <3>2, <4>2
        <5>2. passed[k][i] <= passed[k][j] /\ passed'[k][i] = passed[k][i] /\ passed'[k][j] = passed[k][j]
          BY <2>2, <2>4, <3>2, <4>2, <5>1
        <5> QED
          BY <5>2
      <4> QED
        BY <2>3, <4>1, <4>2
    <3> QED
      BY <3>1, <3>2
  <2>6. Remembered(k)'
    <3>1. \A i \in 1..(n + 1) : passed'[k][i] > ticks - Window[k] => i \in hits'[k]
      BY <1>5, <1>6, <1>8, <1>11, <2>2, <2>3
    <3> QED
      BY <1>2, <1>3, <2>2, <3>1 DEF Remembered
  <2>7. Spaced(k)'
    <3> SUFFICES ASSUME NEW i \in 1..(n + 1), i + Limit[k] \in 1..(n + 1)
                 PROVE  passed'[k][i + Limit[k]] >= passed'[k][i] + Window[k]
      BY <2>2 DEF Spaced
    <3>1. i \in 1..n /\ Limit[k] \in Nat
      BY <1>6, <2>3, Settings
    <3>2. CASE i + Limit[k] \in 1..n
      BY <1>1, <1>6, <2>2, <3>1, <3>2 DEF Spaced
    <3>3. CASE i + Limit[k] = n + 1
      BY <1>6, <1>11, <2>2, <3>1, <3>3, RoomMeansLater
    <3> QED
      BY <2>3, <3>2, <3>3
  <2>8. hits' \in [Key -> SUBSET Nat] /\ \A j \in Key : hits'[j] \subseteq DOMAIN passed'[j]
    <3>1. hits'[k] \subseteq 1..(n + 1)
      BY <1>1, <1>4, <1>5, <1>6, <1>8, <1>11
    <3>2. \A j \in Key : hits'[j] \subseteq DOMAIN passed'[j]
      BY <1>1, <1>4, <1>8, <1>9, <2>2, <3>1
    <3>3. \A j \in Key : hits'[j] \in SUBSET Nat
      BY <1>4, <1>8, <3>1
    <3> QED
      BY <1>4, <1>7, <3>2, <3>3
  <2>9. passed' \in [Key -> Seq(Nat)]
    BY <1>1, <1>11, <2>1, <2>2
  <2>10. LimitTypeOK'
    BY <1>1, <1>2, <1>3, <2>8, <2>9 DEF LimitTypeOK
  <2>11. BucketInv'
    BY <1>1, <1>2 DEF BucketInv
  <2> QED
    BY <1>9, <2>5, <2>6, <2>7, <2>10, <2>11 DEF LimitInv
<1> QED
  BY <1>7, <1>10, <1>11

LEMMA Gained ==
  ASSUME NEW a \in Nat, NEW b \in Nat, NEW c \in Nat, b <= a
  PROVE  /\ (a - b) * c \in Nat /\ b * c \in Nat /\ a * c \in Nat
         /\ b * c + (a - b) * c = a * c
OBVIOUS

LEMMA TakeKeeps ==
  ASSUME LimitInv, TryTake
  PROVE  LimitInv'
<1>1. /\ LimitTypeOK /\ BucketInv /\ \A k \in Key : Ordered(k) /\ Remembered(k) /\ Spaced(k)
      /\ ticks' = ticks /\ hits' = hits /\ lastSweep' = lastSweep /\ maxWindow' = maxWindow
      /\ passed' = passed
  BY DEF LimitInv, TryTake
<1>2. PICK b \in [tokens: Nat, last: Nat, taken: Nat] : b = bucket
  BY <1>1 DEF LimitTypeOK
<1>3. ticks \in Nat /\ b.last <= ticks /\ b.taken + b.tokens <= Burst + b.last * PerTick
  BY <1>1, <1>2 DEF LimitTypeOK, BucketInv
<1>4. PICK gain \in Nat : gain = (ticks - b.last) * PerTick
  BY <1>2, <1>3, Gained, Settings
<1>5. b.last * PerTick + gain = ticks * PerTick /\ b.last * PerTick \in Nat
  BY <1>2, <1>3, <1>4, Gained, Settings
<1>6. PICK level \in Nat : level = Refill(b) /\ level <= b.tokens + gain
  BY <1>2, <1>4, Settings DEF Refill, Smaller
<1>7. bucket' = IF level >= 1 THEN [tokens |-> level - 1, last |-> ticks, taken |-> b.taken + 1]
                ELSE [b EXCEPT !.tokens = level, !.last = ticks]
  BY <1>2, <1>6 DEF TryTake
<1>8. bucket' \in [tokens: Nat, last: Nat, taken: Nat] /\ bucket'.last = ticks
      /\ bucket'.taken + bucket'.tokens = b.taken + level
  <2>1. CASE level >= 1
    BY <1>2, <1>3, <1>6, <1>7, <2>1
  <2>2. CASE ~(level >= 1)
    BY <1>2, <1>3, <1>6, <1>7, <2>2
  <2> QED
    BY <2>1, <2>2
<1>9. b.taken + level <= Burst + ticks * PerTick
  BY <1>2, <1>3, <1>4, <1>5, <1>6, Settings
<1>10. BucketInv'
  BY <1>1, <1>3, <1>8, <1>9 DEF BucketInv
<1>11. LimitTypeOK'
  BY <1>1, <1>8 DEF LimitTypeOK
<1>12. \A k \in Key : Ordered(k)' /\ Remembered(k)' /\ Spaced(k)'
  BY <1>1 DEF Ordered, Remembered, Spaced
<1> QED
  BY <1>10, <1>11, <1>12 DEF LimitInv

LEMMA WaitKeeps ==
  ASSUME LimitInv, Wait
  PROVE  LimitInv'
<1>1. /\ LimitTypeOK /\ BucketInv /\ \A k \in Key : Ordered(k) /\ Remembered(k) /\ Spaced(k)
      /\ ticks' = ticks + 1 /\ hits' = hits /\ lastSweep' = lastSweep /\ maxWindow' = maxWindow
      /\ passed' = passed /\ bucket' = bucket
  BY DEF LimitInv, Wait
<1>2. ticks \in Nat /\ passed \in [Key -> Seq(Nat)] /\ bucket.last \in Nat
  BY <1>1 DEF LimitTypeOK
<1>3. LimitTypeOK' /\ BucketInv'
  BY <1>1, <1>2 DEF LimitTypeOK, BucketInv
<1>4. ASSUME NEW k \in Key PROVE Ordered(k)' /\ Remembered(k)' /\ Spaced(k)'
  <2>1. \A i \in DOMAIN passed[k] : passed[k][i] \in Nat
    BY <1>2
  <2>2. Ordered(k)'
    BY <1>1, <1>2, <2>1 DEF Ordered
  <2>3. Remembered(k)'
    BY <1>1, <1>2, <2>1, Settings DEF Remembered
  <2>4. Spaced(k)'
    BY <1>1 DEF Spaced
  <2> QED
    BY <2>2, <2>3, <2>4
<1> QED
  BY <1>3, <1>4 DEF LimitInv

\* For any keys with any limits and windows, checked in any order and swept at
\* any time: what the limiter forgets is out of every window of its key, and
\* the bucket accounts for every frame (RateLimiter.check, TokenBucket.tryTake).
THEOREM LimiterInvariant == LimitSpec => []LimitInv
<1>1. LimitInit => LimitInv
  BY LimitInitially
<1>2. LimitInv /\ [LimitNext]_limitVars => LimitInv'
  <2> SUFFICES ASSUME LimitInv, [LimitNext]_limitVars PROVE LimitInv'
    OBVIOUS
  <2>1. ASSUME NEW k \in Key, Check(k) PROVE LimitInv'
    BY <2>1, CheckKeeps
  <2>2. CASE TryTake
    BY <2>2, TakeKeeps
  <2>3. CASE Wait
    BY <2>3, WaitKeeps
  <2>4. CASE UNCHANGED limitVars
    BY <2>4 DEF limitVars, LimitInv, LimitTypeOK, Ordered, Remembered, Spaced, BucketInv
  <2> QED
    BY <2>1, <2>2, <2>3, <2>4 DEF LimitNext
<1> QED
  BY <1>1, <1>2, PTL DEF LimitSpec

\* No key passes more often than its limit in any window, and the bucket lets
\* no more frames through than its burst and what it has gained.
THEOREM LimitsHold == LimitSpec => []LimitHolds
<1>1. ASSUME LimitInv PROVE LimitHolds
  <2>1. bucket.taken <= Burst + ticks * PerTick
    <3>1. PICK b \in [tokens: Nat, last: Nat, taken: Nat] : b = bucket
      BY <1>1 DEF LimitInv, LimitTypeOK
    <3>2. ticks \in Nat /\ b.last <= ticks /\ b.taken + b.tokens <= Burst + b.last * PerTick
      BY <1>1, <3>1 DEF LimitInv, LimitTypeOK, BucketInv
    <3>3. PICK gain \in Nat : gain = (ticks - b.last) * PerTick
      BY <3>1, <3>2, Gained, Settings
    <3>4. b.last * PerTick + gain = ticks * PerTick /\ b.last * PerTick \in Nat
      BY <3>1, <3>2, <3>3, Gained, Settings
    <3> QED
      BY <3>1, <3>2, <3>3, <3>4, Settings
  <2> QED
    BY <1>1, <2>1 DEF LimitInv, LimitHolds
<1> QED
  BY <1>1, LimiterInvariant, PTL

-----------------------------------------------------------------------------
(***************************************************************************)
(* Frames and the bodies they are put together to.                         *)
(***************************************************************************)

LEMMA MessageFacts == \A m \in Message : m.total \in Nat \ {0}
BY FramesAssumption

LEMMA FrameFacts ==
  \A f \in Frame :
    /\ f.msg \in Message /\ f.index \in 0..f.msg.total - 1
    /\ f = [msg |-> f.msg, index |-> f.index]
BY DEF Frame

\* Messages like one another have one key, and the relation is an equivalence.
LEMMA AlikeFacts ==
  /\ \A m : Alike(m, m)
  /\ \A m, n : Alike(m, n) => Alike(n, m) /\ KeyOf(m) = KeyOf(n) /\ m.total = n.total
  /\ \A l, m, n : Alike(l, m) /\ Alike(m, n) => Alike(l, n)
  /\ \A m, n : KeyOf(m) = KeyOf(n) /\ m.total = n.total => Alike(m, n)
BY DEF Alike, KeyOf

\* Chunks of messages like m, one for a place.
Matched(chunks, m) ==
  /\ chunks \subseteq Frame
  /\ \A c \in chunks : Alike(c.msg, m)
  /\ \A c, d \in chunks : c.index = d.index => c = d

\* As many of them as m has places fill all places.
LEMMA AllPlaces ==
  ASSUME NEW m \in Message, NEW C, Matched(C, m), Cardinality(C) = m.total
  PROVE  Pieced(C, m)
<1>1. PICK n \in Nat : n = m.total
  BY MessageFacts
<1> DEFINE I == 0..n - 1
           place == [c \in C |-> c.index]
<1>2. IsFiniteSet(I) /\ Cardinality(I) = n
  <2>1. 0 \in Int /\ n - 1 \in Int
    BY <1>1
  <2>2. IsFiniteSet(I) /\ Cardinality(I) = IF 0 > n - 1 THEN 0 ELSE n - 1 - 0 + 1
    BY <2>1, FS_Interval
  <2> QED
    BY <1>1, <2>2
<1>3. \A c \in C : /\ c.msg \in Message /\ Alike(c.msg, m) /\ c.index \in I
                   /\ c = [msg |-> c.msg, index |-> c.index]
  BY <1>1, FrameFacts, AlikeFacts DEF Matched
<1>4. place \in Injection(C, I)
  <2>1. place \in [C -> I]
    BY <1>3
  <2>2. \A c, d \in C : place[c] = place[d] => c = d
    BY DEF Matched
  <2> HIDE DEF place, I
  <2> QED
    BY <2>1, <2>2 DEF Injection, IsInjective
<1>5. place \in Surjection(C, I)
  <2> HIDE DEF place, I
  <2> QED
    BY <1>1, <1>2, <1>4, FS_Injection
<1>6. \A k \in I : \E c \in C : c.index = k
  <2>1. \A k \in I : \E c \in C : place[c] = k
    <3> HIDE DEF place, I
    <3> QED
      BY <1>5 DEF Surjection
  <2> QED
    BY <2>1
<1> DEFINE At(k) == CHOOSE c \in C : c.index = k
           of == [k \in I |-> At(k).msg]
<1>7. \A k \in I : At(k) \in C /\ At(k).index = k
  BY <1>6
<1>8. \A k \in I : At(k) = [msg |-> of[k], index |-> k]
  BY <1>3, <1>7
<1>9. of \in [I -> {l \in Message : Alike(l, m)}]
  BY <1>3, <1>7
<1>10. C = {[msg |-> of[k], index |-> k] : k \in I}
  <2>1. ASSUME NEW k \in I PROVE [msg |-> of[k], index |-> k] \in C
    BY <1>7, <1>8
  <2>2. ASSUME NEW c \in C PROVE \E k \in I : c = [msg |-> of[k], index |-> k]
    <3>1. c.index \in I /\ At(c.index) = c
      BY <1>3, <1>7 DEF Matched
    <3> QED
      BY <1>8, <3>1
  <2> HIDE DEF of, I
  <2> QED
    BY <2>1, <2>2
<1> HIDE DEF of
<1> QED
  BY <1>1, <1>9, <1>10 DEF Pieced

LEMMA GivenOutFinite ==
  ASSUME FramesInv, NEW f
  PROVE  IsFiniteSet(GivenOut(f)) /\ Cardinality(GivenOut(f)) \in Nat
<1>1. PICK n \in Nat : n = Len(out) /\ DOMAIN out = 1..n
  BY DEF FramesInv, FramesTypeOK
<1>2. IsFiniteSet(1..n)
  <2>1. 1 \in Int /\ n \in Int
    BY <1>1
  <2> QED
    BY <2>1, FS_Interval
<1>3. GivenOut(f) \subseteq 1..n
  BY <1>1 DEF GivenOut
<1> QED
  BY <1>2, <1>3, FS_Subset, FS_CardinalityType

LEMMA FramesInitially == FramesInit => FramesInv
<1> SUFFICES ASSUME FramesInit PROVE FramesInv
  OBVIOUS
<1>1. clock = 0 /\ arrived = [f \in Frame |-> 0] /\ assemblies = {} /\ out = <<>>
  BY DEF FramesInit
<1>2. FramesTypeOK
  BY <1>1 DEF FramesTypeOK
<1>3. \A f \in Frame : Cardinality(GivenOut(f)) = 0 /\ ~InAssembly(f)
  <2>1. \A f \in Frame : GivenOut(f) = {} /\ ~InAssembly(f)
    BY <1>1 DEF GivenOut, InAssembly
  <2> QED
    BY <2>1, FS_EmptySet
<1> QED
  BY <1>1, <1>2, <1>3 DEF FramesInv

\* A frame is in no assembly but the one of its key.
LEMMA OwnAssembly ==
  ASSUME FramesInv, NEW f \in Frame, NEW g, Alike(g.msg, f.msg), NEW a \in assemblies,
         g \in a.chunks
  PROVE  a \in Held(f)
<1>1. PICK m \in Message : a.key = KeyOf(m) /\ \A c \in a.chunks : Alike(c.msg, m)
  BY DEF FramesInv, AssemblyInv
<1>2. Alike(g.msg, m)
  BY <1>1
<1>3. KeyOf(m) = KeyOf(f.msg)
  BY <1>2, AlikeFacts
<1> QED
  BY <1>1, <1>3 DEF Held

\* What Fill is called with: the one assembly of the frame's key, or an empty
\* one if there is none.
Known(f, a) ==
  /\ a \in Assembly
  /\ a.key = KeyOf(f.msg) /\ a.total = f.msg.total /\ Matched(a.chunks, f.msg)
  /\ a.chunks = {} \/ a \in assemblies

\* The frame goes into the assembly unless its place is taken; the assembly is
\* kept unless it is complete.
LEMMA Filled ==
  ASSUME FramesInv, NEW f \in Frame, NEW a, Known(f, a), Fill(f, a)
  PROVE  \E b \in Assembly :
           /\ b.key = KeyOf(f.msg) /\ b.total = f.msg.total
           /\ b.chunks \in {a.chunks, a.chunks \cup {f}} /\ Matched(b.chunks, f.msg)
           /\ \/ /\ Pieced(b.chunks, f.msg)
                 /\ out' = Append(out, [key |-> b.key, chunks |-> b.chunks])
                 /\ assemblies' = assemblies \ Held(f)
              \/ /\ out' = out
                 /\ assemblies' = (assemblies \ Held(f)) \cup {b}
<1> DEFINE isNew == \A c \in a.chunks : c.index # f.index
<1>1. PICK b : b = IF isNew THEN [a EXCEPT !.chunks = @ \cup {f}, !.progress = clock] ELSE a
  OBVIOUS
<1>2. f.msg \in Message /\ Alike(f.msg, f.msg) /\ clock \in Nat
  BY FrameFacts, AlikeFacts DEF FramesInv, FramesTypeOK
<1>3. /\ b \in Assembly /\ b.key = a.key /\ b.total = a.total
      /\ b.chunks = IF isNew THEN a.chunks \cup {f} ELSE a.chunks
  BY <1>1, <1>2 DEF Known, Assembly
<1>4. Matched(b.chunks, f.msg)
  BY <1>2, <1>3 DEF Known, Matched
<1>5. \/ /\ Cardinality(b.chunks) = b.total
         /\ out' = Append(out, [key |-> b.key, chunks |-> b.chunks])
         /\ assemblies' = assemblies \ Held(f)
      \/ out' = out /\ assemblies' = (assemblies \ Held(f)) \cup {b}
  BY <1>1 DEF Fill
<1>6. b.key = KeyOf(f.msg) /\ b.total = f.msg.total
  BY <1>3 DEF Known
<1>7. Cardinality(b.chunks) = b.total => Pieced(b.chunks, f.msg)
  BY <1>2, <1>4, <1>6, AllPlaces
<1> QED
  BY <1>3, <1>4, <1>5, <1>6, <1>7

\* Filling keeps the invariant: the frame's arrival pays for its place in the
\* assembly, and a complete assembly gives its places up for the body.
LEMMA FilledKeeps ==
  ASSUME FramesInv, NEW f \in Frame, NEW a, Known(f, a), Fill(f, a),
         arrived' = [arrived EXCEPT ![f] = @ + 1], clock' = clock
  PROVE  FramesInv'
<1> DEFINE Body == [key: {KeyOf(m) : m \in Message}, chunks: SUBSET Frame]
           n == Len(out)
<1>1. /\ clock \in Nat /\ arrived \in [Frame -> Nat] /\ assemblies \subseteq Assembly
      /\ out \in Seq(Body)
      /\ \A c \in assemblies : AssemblyInv(c)
      /\ \A c, d \in assemblies : c.key = d.key => c = d
      /\ \A i \in DOMAIN out : \E m \in Message : Pieced(out[i].chunks, m)
      /\ \A g \in Frame :
           Cardinality(GivenOut(g)) + (IF InAssembly(g) THEN 1 ELSE 0) <= arrived[g]
  BY DEF FramesInv, FramesTypeOK
<1>2. f.msg \in Message
  BY FrameFacts
<1>3. PICK b \in Assembly :
           /\ b.key = KeyOf(f.msg) /\ b.total = f.msg.total
           /\ b.chunks \in {a.chunks, a.chunks \cup {f}} /\ Matched(b.chunks, f.msg)
           /\ \/ /\ Pieced(b.chunks, f.msg)
                 /\ out' = Append(out, [key |-> b.key, chunks |-> b.chunks])
                 /\ assemblies' = assemblies \ Held(f)
              \/ /\ out' = out
                 /\ assemblies' = (assemblies \ Held(f)) \cup {b}
  BY Filled
<1>4. arrived' \in [Frame -> Nat] /\ arrived'[f] = arrived[f] + 1
      /\ \A g \in Frame : g # f => arrived'[g] = arrived[g]
  BY <1>1
<1>5. /\ assemblies' \subseteq Assembly
      /\ \A c \in assemblies' : c = b \/ c \in assemblies \ Held(f)
  BY <1>1, <1>3
<1>6. \A c \in assemblies' : AssemblyInv(c)
  <2>1. AssemblyInv(b)
    BY <1>2, <1>3 DEF AssemblyInv, Matched
  <2> QED
    BY <1>1, <1>5, <2>1
<1>7. \A c, d \in assemblies' : c.key = d.key => c = d
  <2>1. \A c \in assemblies \ Held(f) : c.key # KeyOf(f.msg)
    BY DEF Held
  <2> QED
    BY <1>1, <1>3, <1>5, <2>1
<1>8. n \in Nat /\ DOMAIN out = 1..n
  BY <1>1
\* A chunk of b is in no other assembly, and before the step it was in one if a
\* held it.
<1>9. \A g \in b.chunks : \A c \in assemblies \ Held(f) : g \notin c.chunks
  BY <1>3, OwnAssembly DEF Matched
<1>10. \A g \in a.chunks : InAssembly(g)
  BY DEF Known, InAssembly
<1>11. CASE /\ out' = out
            /\ assemblies' = (assemblies \ Held(f)) \cup {b}
  <2>1. \A g \in Frame : GivenOut(g)' = GivenOut(g)
    BY <1>11 DEF GivenOut
  <2>2. ASSUME NEW g \in Frame
        PROVE  Cardinality(GivenOut(g)') + (IF InAssembly(g)' THEN 1 ELSE 0) <= arrived'[g]
    <3>1. InAssembly(g)' => InAssembly(g) \/ g = f
      BY <1>3, <1>5, <1>10 DEF InAssembly
    <3>2. PICK k \in Nat : k = Cardinality(GivenOut(g))
      BY GivenOutFinite
    <3>3. k + (IF InAssembly(g) THEN 1 ELSE 0) <= arrived[g] /\ arrived[g] \in Nat
      BY <1>1, <3>2
    <3>4. CASE g = f
      <4>1. k <= arrived[g]
        BY <3>3
      <4> QED
        BY <1>4, <2>1, <3>2, <3>3, <3>4, <4>1
    <3>5. CASE g # f
      BY <1>4, <2>1, <3>1, <3>2, <3>3, <3>5
    <3> QED
      BY <3>4, <3>5
  <2>3. FramesTypeOK'
    BY <1>1, <1>4, <1>5, <1>11 DEF FramesTypeOK
  <2> QED
    BY <1>1, <1>6, <1>7, <1>11, <2>2, <2>3 DEF FramesInv
<1>12. CASE /\ Pieced(b.chunks, f.msg)
            /\ out' = Append(out, [key |-> b.key, chunks |-> b.chunks])
            /\ assemblies' = assemblies \ Held(f)
  <2>1. PICK w \in Body : w = [key |-> b.key, chunks |-> b.chunks] /\ w.chunks = b.chunks
    BY <1>2, <1>3 DEF Assembly
  <2>2. /\ out' = Append(out, w) /\ out' \in Seq(Body) /\ DOMAIN out' = 1..(n + 1)
        /\ out'[n + 1] = w /\ \A i \in 1..n : out'[i] = out[i]
    <3> HIDE DEF Body
    <3> QED
      BY <1>1, <1>12, <2>1
  <2>3. \A i \in 1..(n + 1) : i \in 1..n \/ i = n + 1
    BY <1>8
  <2>4. n + 1 \in 1..(n + 1) /\ n + 1 \notin 1..n /\ \A i \in 1..n : i \in 1..(n + 1)
    BY <1>8
  <2> HIDE DEF n, Body
  <2>5. \A i \in DOMAIN out' : \E m \in Message : Pieced(out'[i].chunks, m)
    BY <1>1, <1>2, <1>8, <1>12, <2>1, <2>2, <2>3
  <2>6. ASSUME NEW g \in Frame
        PROVE  Cardinality(GivenOut(g)') + (IF InAssembly(g)' THEN 1 ELSE 0) <= arrived'[g]
    <3>1. PICK k \in Nat : k = Cardinality(GivenOut(g)) /\ IsFiniteSet(GivenOut(g))
      BY GivenOutFinite
    <3>2. k + (IF InAssembly(g) THEN 1 ELSE 0) <= arrived[g] /\ arrived[g] \in Nat
      BY <1>1, <3>1
    <3>3. InAssembly(g)' => InAssembly(g)
      BY <1>12 DEF InAssembly
    <3>4. CASE g \in b.chunks
      <4>1. GivenOut(g)' = GivenOut(g) \cup {n + 1}
        BY <1>8, <2>1, <2>2, <2>3, <2>4, <3>4 DEF GivenOut
      <4>2. n + 1 \notin GivenOut(g)
        BY <1>8, <2>4 DEF GivenOut
      <4>3. Cardinality(GivenOut(g)') = k + 1
        BY <3>1, <4>1, <4>2, FS_AddElement
      <4>4. ~InAssembly(g)'
        BY <1>9, <1>12, <3>4 DEF InAssembly
      <4>5. CASE g = f
        <5>1. k <= arrived[g]
          BY <3>2
        <5> QED
          BY <1>4, <3>2, <4>3, <4>4, <4>5, <5>1
      <4>6. CASE g # f
        <5>1. InAssembly(g)
          BY <1>3, <1>10, <1>12, <3>4, <4>6
        <5>2. k + 1 <= arrived[g]
          BY <3>2, <5>1
        <5> QED
          BY <1>4, <3>2, <4>3, <4>4, <4>6, <5>2
      <4> QED
        BY <4>5, <4>6
    <3>5. CASE g \notin b.chunks
      <4>1. GivenOut(g)' = GivenOut(g)
        BY <1>8, <2>1, <2>2, <2>3, <2>4, <3>5 DEF GivenOut
      <4>2. arrived'[g] \in Nat /\ arrived[g] <= arrived'[g]
        BY <1>4, <3>2
      <4> QED
        BY <3>1, <3>2, <3>3, <4>1, <4>2
    <3> QED
      BY <3>4, <3>5
  <2>7. FramesTypeOK'
    BY <1>1, <1>4, <1>5, <2>2 DEF FramesTypeOK, Body
  <2> QED
    BY <1>6, <1>7, <2>5, <2>6, <2>7 DEF FramesInv
<1> QED
  BY <1>3, <1>11, <1>12

\* An arrival that changes nothing, and a step that drops assemblies.
LEMMA LessKeeps ==
  ASSUME FramesInv, assemblies' \subseteq assemblies, out' = out, clock' \in Nat,
         arrived' \in [Frame -> Nat], \A f \in Frame : arrived[f] <= arrived'[f]
  PROVE  FramesInv'
<1>1. \A f \in Frame : GivenOut(f)' = GivenOut(f) /\ (InAssembly(f)' => InAssembly(f))
  BY DEF GivenOut, InAssembly
<1>2. ASSUME NEW f \in Frame
      PROVE  Cardinality(GivenOut(f)') + (IF InAssembly(f)' THEN 1 ELSE 0) <= arrived'[f]
  <2>1. PICK k \in Nat : k = Cardinality(GivenOut(f))
    BY GivenOutFinite
  <2>2. k + (IF InAssembly(f) THEN 1 ELSE 0) <= arrived[f] /\ arrived[f] \in Nat
    BY <2>1 DEF FramesInv, FramesTypeOK
  <2>3. arrived'[f] \in Nat /\ arrived[f] <= arrived'[f]
    OBVIOUS
  <2> QED
    BY <1>1, <2>1, <2>2, <2>3
<1>3. FramesTypeOK'
  BY DEF FramesInv, FramesTypeOK
<1>4. \A a \in assemblies : AssemblyInv(a)' <=> AssemblyInv(a)
  BY DEF AssemblyInv
<1> QED
  BY <1>2, <1>3, <1>4 DEF FramesInv

LEMMA PushKeeps ==
  ASSUME FramesInv, NEW f \in Frame, Push(f)
  PROVE  FramesInv'
<1>1. clock' = clock /\ arrived' = [arrived EXCEPT ![f] = @ + 1]
  BY DEF Push
<1>2. f.msg \in Message /\ f.msg.total \in Nat
  BY FrameFacts, MessageFacts
<1>3. ASSUME NEW a \in Held(f), a.total = f.msg.total, Fill(f, a)
      PROVE  FramesInv'
  <2>1. a \in assemblies /\ a.key = KeyOf(f.msg)
    BY DEF Held
  <2>2. PICK m \in Message : /\ a.key = KeyOf(m) /\ a.total = m.total
                             /\ \A c \in a.chunks : Alike(c.msg, m)
    BY <2>1 DEF FramesInv, AssemblyInv
  <2>3. \A c \in a.chunks : Alike(c.msg, f.msg)
    <3>1. Alike(m, f.msg)
      <4>1. KeyOf(m) = KeyOf(f.msg) /\ m.total = f.msg.total
        BY <1>3, <2>1, <2>2
      <4> QED
        BY <4>1 DEF Alike, KeyOf
    <3> QED
      BY <2>2, <3>1, AlikeFacts, Zenon
  <2>4. a \in Assembly /\ a.chunks \subseteq Frame
    BY <2>1 DEF FramesInv, FramesTypeOK, Assembly
  <2>5. Matched(a.chunks, f.msg)
    BY <2>1, <2>3, <2>4 DEF FramesInv, AssemblyInv, Matched
  <2>6. Known(f, a)
    BY <1>3, <2>1, <2>4, <2>5 DEF Known
  <2> QED
    BY <1>1, <1>3, <2>6, FilledKeeps
<1>4. CASE Fill(f, Fresh(f))
  <2>1. clock \in Nat
    BY DEF FramesInv, FramesTypeOK
  <2>2. Known(f, Fresh(f))
    BY <1>2, <2>1 DEF Known, Fresh, Assembly, Matched
  <2> QED
    BY <1>1, <1>4, <2>2, FilledKeeps
<1>5. CASE assemblies' = assemblies /\ out' = out
  <2>1. clock \in Nat /\ arrived \in [Frame -> Nat]
    BY DEF FramesInv, FramesTypeOK
  <2>2. arrived' \in [Frame -> Nat] /\ \A g \in Frame : arrived[g] <= arrived'[g]
    BY <1>1, <2>1
  <2> QED
    BY <1>1, <1>5, <2>1, <2>2, LessKeeps
<1> QED
  BY <1>3, <1>4, <1>5 DEF Push

\* For any messages, ids used again among them, and any loss, repetition and
\* order of their frames: an assembly holds one chunk for a place, all of the
\* sender, the id and the number of chunks it is for, and a frame is in an
\* assembly or given out no more often than it came (Reassembler.push, sweep).
THEOREM FramesInvariant == FramesSpec => []FramesInv
<1>1. FramesInit => FramesInv
  BY FramesInitially
<1>2. FramesInv /\ [FramesNext]_frameVars => FramesInv'
  <2> SUFFICES ASSUME FramesInv, [FramesNext]_frameVars PROVE FramesInv'
    OBVIOUS
  <2>1. ASSUME NEW f \in Frame, Push(f) PROVE FramesInv'
    BY <2>1, PushKeeps
  <2>2. CASE /\ assemblies' \subseteq assemblies /\ out' = out /\ arrived' = arrived
             /\ clock' \in {clock, clock + 1}
    <3>1. clock' \in Nat /\ arrived' \in [Frame -> Nat] /\ \A f \in Frame : arrived[f] <= arrived'[f]
      BY <2>2 DEF FramesInv, FramesTypeOK
    <3> QED
      BY <2>2, <3>1, LessKeeps
  <2>3. CASE Grow
    BY <2>2, <2>3 DEF Grow
  <2>4. CASE Sweep
    BY <2>2, <2>4 DEF Sweep
  <2>5. CASE Pass
    BY <2>2, <2>5 DEF Pass
  <2>6. CASE UNCHANGED frameVars
    BY <2>2, <2>6 DEF frameVars
  <2> QED
    BY <2>1, <2>3, <2>4, <2>5, <2>6 DEF FramesNext
<1> QED
  BY <1>1, <1>2, PTL DEF FramesSpec

\* Every body the reassembler gives out has one chunk for each place of one
\* sender, id and number of chunks; it is a message whole, unless another one
\* like it in these three had come in part; and no frame is given out more often
\* than it arrived.
THEOREM BodiesAreWhole == FramesSpec => []DeliveredWhole
<1>1. ASSUME FramesInv PROVE DeliveredWhole
  <2>1. ASSUME NEW f \in Frame
        PROVE  Cardinality({i \in DOMAIN out : f \in out[i].chunks}) <= arrived[f]
    <3>1. PICK k \in Nat : k = Cardinality(GivenOut(f))
      BY <1>1, GivenOutFinite
    <3>2. k + (IF InAssembly(f) THEN 1 ELSE 0) <= arrived[f] /\ arrived[f] \in Nat
      BY <1>1, <3>1 DEF FramesInv, FramesTypeOK
    <3> QED
      BY <3>1, <3>2 DEF GivenOut
  <2>2. ASSUME NEW i \in DOMAIN out, NEW c \in out[i].chunks, c \in Frame
        PROVE  arrived[c] # 0
    <3>1. i \in GivenOut(c)
      BY <2>2 DEF GivenOut
    <3>2. IsFiniteSet(GivenOut(c)) /\ Cardinality(GivenOut(c)) \in Nat
      BY <1>1, GivenOutFinite
    <3>3. Cardinality(GivenOut(c)) # 0
      BY <3>1, <3>2, FS_EmptySet
    <3>4. Cardinality(GivenOut(c)) <= arrived[c]
      BY <2>1, <2>2 DEF GivenOut
    <3> QED
      BY <3>2, <3>3, <3>4
  <2>3. ASSUME NEW i \in DOMAIN out, NEW f \in out[i].chunks, UsedOnce(f.msg)
        PROVE  out[i].chunks = FramesOf(f.msg)
    <3>1. PICK m \in Message : Pieced(out[i].chunks, m)
      BY <1>1 DEF FramesInv
    <3>2. PICK of \in [0..m.total - 1 -> {n \in Message : Alike(n, m)}] :
            out[i].chunks = {[msg |-> of[k], index |-> k] : k \in 0..m.total - 1}
      BY <3>1 DEF Pieced
    <3>3. ASSUME NEW k \in 0..m.total - 1
          PROVE  of[k] = f.msg
      <4>1. PICK l \in 0..m.total - 1 : f.msg = of[l]
        BY <3>2
      <4>2. /\ of[k] \in Message /\ Alike(of[k], m) /\ Alike(f.msg, m)
            /\ of[k].total = m.total
        BY <3>2, <3>3, <4>1, AlikeFacts
      <4>3. Alike(of[k], f.msg)
        BY <4>2, AlikeFacts
      <4>4. PICK c : c = [msg |-> of[k], index |-> k]
        OBVIOUS
      <4>5. c \in Frame /\ c \in out[i].chunks /\ c.msg = of[k]
        BY <3>2, <3>3, <4>2, <4>4 DEF Frame
      <4>6. arrived[c] # 0
        BY <2>2, <4>5
      <4> QED
        BY <2>3, <4>3, <4>5, <4>6 DEF UsedOnce
    <3>4. f.msg.total = m.total
      <4>1. PICK l \in 0..m.total - 1 : f.msg = of[l]
        BY <3>2
      <4> QED
        BY <3>2, <4>1, AlikeFacts
    <3> QED
      BY <3>2, <3>3, <3>4 DEF FramesOf
  <2> QED
    BY <1>1, <2>1, <2>3 DEF FramesInv, DeliveredWhole
<1> QED
  BY <1>1, FramesInvariant, PTL

-----------------------------------------------------------------------------
(***************************************************************************)
(* The arithmetic of chunkMessage.                                         *)
(***************************************************************************)

LEMMA DivMod ==
  ASSUME NEW a \in Nat, NEW d \in Nat \ {0}
  PROVE  a \div d \in Nat /\ d * (a \div d) <= a /\ a < d * (a \div d) + d
OBVIOUS

LEMMA OneLess ==
  ASSUME NEW a \in Nat, NEW b \in Nat, NEW c \in Nat, a < b
  PROVE  a * c + c <= b * c
OBVIOUS

\* So many chunks of d bytes carry the body, and no fewer than needed: with
\* larger chunks there are at most as many.
LEMMA Ceil ==
  ASSUME NEW n \in Nat, NEW d \in Nat \ {0}
  PROVE  /\ CeilDiv(n, d) \in Nat
         /\ n <= CeilDiv(n, d) * d /\ CeilDiv(n, d) * d <= n + d - 1
<1>1. PICK a \in Nat : a = n + d - 1
  OBVIOUS
<1>2. PICK q \in Nat : q = CeilDiv(n, d) /\ d * q <= a /\ a < d * q + d
  BY <1>1, DivMod DEF CeilDiv
<1>3. q * d = d * q /\ q * d \in Nat
  BY <1>2
<1> QED
  BY <1>1, <1>2, <1>3

LEMMA LargerChunks ==
  ASSUME NEW n \in Nat, NEW c \in Nat \ {0}, NEW d \in Nat \ {0}, c <= d
  PROVE  CeilDiv(n, d) <= CeilDiv(n, c)
<1>1. PICK p \in Nat : p = CeilDiv(n, c) /\ n <= p * c
  BY Ceil
<1>2. PICK q \in Nat : q = CeilDiv(n, d) /\ q * d <= n + d - 1
  BY Ceil
<1>3. p * c <= p * d /\ p * c \in Nat /\ p * d \in Nat /\ q * d \in Nat
  BY <1>1, <1>2
<1> SUFFICES ASSUME p < q PROVE FALSE
  BY <1>1, <1>2
<1>4. p * d + d <= q * d
  BY <1>1, <1>2, OneLess
<1> QED
  BY <1>1, <1>2, <1>3, <1>4

LEMMA MoreDigits ==
  ASSUME NEW a \in Nat, NEW b \in Nat, a <= b
  PROVE  Digits36(a) \in 1..3 /\ Digits36(a) <= Digits36(b)
BY DEF Digits36

LEMMA Transport ==
  /\ FrameBytes \in Nat /\ MaxMessageBytes \in Nat
  /\ MaxChunks \in Nat \ {0} /\ MaxMessageBytes <= 96 * MaxChunks
  /\ \A d \in SeqDigits \cup {1} : d \in Nat \ {0} /\ FrameBytes >= d + 164
<1>1. FrameBytes \in Nat /\ MaxMessageBytes \in Nat
  BY FramesAssumption
<1>2. MaxChunks \in Nat \ {0} /\ MaxMessageBytes <= 96 * MaxChunks
  BY TransportAssumption
<1>3. ASSUME NEW d \in SeqDigits \cup {1}
      PROVE  d \in Nat \ {0} /\ FrameBytes >= d + 164
  <2>1. d \in Nat \ {0} /\ FrameBytes >= d + 32 + 132
    BY TransportAssumption
  <2> QED
    BY <1>1, <2>1
<1> QED
  BY <1>1, <1>2, <1>3

\* The guess of the code is an upper bound on the number of chunks.
LEMMA Fits ==
  ASSUME SizeInv
  PROVE  ChunksFit
<1>1. PICK b \in Nat, q \in Nat \ {0} :
        b = size.bytes /\ q = size.seq /\ b <= 96 * MaxChunks /\ FrameBytes >= q + 164
  <2>1. /\ size.bytes \in Nat /\ size.bytes <= 96 * MaxChunks
    BY Transport DEF SizeInv
  <2>2. size.seq \in Nat \ {0} /\ FrameBytes >= size.seq + 164
    BY Transport DEF SizeInv
  <2> QED
    BY <2>1, <2>2
<1>2. MaxChunks \in Nat \ {0} /\ FrameBytes \in Nat
  BY Transport
<1>3. PICK g \in Nat : g = CeilDiv(b, 96) /\ b <= g * 96 /\ g * 96 <= b + 95
  <2>1. PICK e \in Nat \ {0} : e = 96
    OBVIOUS
  <2>2. CeilDiv(b, e) \in Nat /\ b <= CeilDiv(b, e) * e /\ CeilDiv(b, e) * e <= b + e - 1
    BY Ceil
  <2> QED
    BY <2>1, <2>2
<1>4. PICK p \in Nat \ {0} : p = ProbeTotal(size) /\ p <= MaxChunks /\ p = AtLeast1(g)
  <2>1. g <= MaxChunks
    BY <1>1, <1>2, <1>3
  <2> QED
    BY <1>1, <1>2, <1>3, <2>1 DEF ProbeTotal, AtLeast1
<1>5. PICK h \in Nat : h = HeadLength(size, p - 1, p) /\ h <= q + 32
                       /\ h = q + 26 + Digits36(p - 1) + Digits36(p)
  <2>1. Digits36(p - 1) \in 1..3 /\ Digits36(p) \in 1..3
    BY <1>4, MoreDigits
  <2> QED
    BY <1>1, <2>1 DEF HeadLength
<1>6. PICK c \in Nat : c = DataChars(size) /\ c + h = FrameBytes /\ c >= 132
  BY <1>1, <1>2, <1>4, <1>5 DEF DataChars
<1>7. PICK k \in Nat : k = c \div 4 /\ 4 * k <= c /\ c < 4 * k + 4
  BY <1>6, DivMod
<1>8. PICK d \in Nat \ {0} : d = DataBytes(size) /\ d = k * 3 - 3 /\ d >= 96
  BY <1>6, <1>7 DEF DataBytes
<1>9. PICK n \in Nat : n = CeilDiv(b, d) /\ b <= n * d /\ n <= g
  <2>1. PICK e \in Nat \ {0} : e = 96 /\ e <= d
    BY <1>8
  <2>2. CeilDiv(b, d) <= CeilDiv(b, e)
    BY <2>1, LargerChunks
  <2>3. CeilDiv(b, d) \in Nat /\ b <= CeilDiv(b, d) * d
    BY Ceil
  <2> QED
    BY <1>3, <2>1, <2>2, <2>3
<1>10. PICK t \in Nat \ {0} : t = ChunkTotal(size) /\ t <= p /\ n <= t
  <2>1. ChunkTotal(size) = AtLeast1(n)
    BY <1>1, <1>8, <1>9 DEF ChunkTotal
  <2>2. AtLeast1(n) \in Nat \ {0} /\ n <= AtLeast1(n) /\ AtLeast1(n) <= AtLeast1(g)
    BY <1>3, <1>9 DEF AtLeast1
  <2> QED
    BY <1>4, <2>1, <2>2
<1>11. t * d >= b
  <2>1. n * d <= t * d /\ n * d \in Nat /\ t * d \in Nat
    BY <1>8, <1>9, <1>10
  <2> QED
    BY <1>1, <1>9, <2>1
<1>12. Base64Length(d) = 4 * (k - 1)
  <2>1. d \div 3 = k - 1 /\ d % 3 = 0
    BY <1>7, <1>8
  <2> QED
    BY <2>1 DEF Base64Length
<1>13. HeadLength(size, t - 1, t) <= h /\ HeadLength(size, t - 1, t) \in Nat
  <2>1. /\ Digits36(t - 1) \in 1..3 /\ Digits36(t - 1) <= Digits36(p - 1)
        /\ Digits36(t) \in 1..3 /\ Digits36(t) <= Digits36(p)
        /\ Digits36(p - 1) \in 1..3 /\ Digits36(p) \in 1..3
    BY <1>4, <1>10, MoreDigits
  <2> QED
    BY <1>1, <1>5, <2>1 DEF HeadLength
<1>14. HeadLength(size, t - 1, t) + Base64Length(d) <= FrameBytes
  BY <1>2, <1>6, <1>7, <1>12, <1>13
<1> QED
  BY <1>1, <1>2, <1>4, <1>8, <1>10, <1>11, <1>14 DEF ChunksFit

\* For every setting of the transport that meets its assumption, a message of
\* any admitted length is cut into frames that the channel takes, that carry
\* it, and that are no more than a receiver accepts (chunkMessage).
THEOREM MessagesFit == FramesSpec => []ChunksFit
<1>1. FramesInit => SizeInv
  BY Transport DEF FramesInit, SizeInv
<1>2. SizeInv /\ [FramesNext]_frameVars => SizeInv'
  <2> SUFFICES ASSUME SizeInv, [FramesNext]_frameVars PROVE SizeInv'
    OBVIOUS
  <2>1. CASE Grow
    BY <2>1, Transport DEF Grow, SizeInv
  <2>2. CASE size' = size
    BY <2>2 DEF SizeInv
  <2>3. ASSUME NEW f \in Frame, Push(f) PROVE size' = size
    BY <2>3 DEF Push
  <2> QED
    BY <2>1, <2>2, <2>3 DEF FramesNext, Sweep, Pass, frameVars
<1>3. SizeInv => ChunksFit
  BY Fits
<1> QED
  BY <1>1, <1>2, <1>3, PTL DEF FramesSpec

-----------------------------------------------------------------------------
(***************************************************************************)
(* Envelopes: base64url.                                                   *)
(***************************************************************************)

Octet == 0..255
Sextet == 0..63

LEMMA OrZeroIs ==
  ASSUME NEW S, 0 \in S, NEW s \in Seq(S), NEW i
  PROVE  OrZero(s, i) \in S
<1> QED BY DEF OrZero

LEMMA QuadIs ==
  ASSUME NEW p \in Sextet, NEW q \in Sextet, NEW r \in Sextet, NEW u \in Sextet
  PROVE  Quad(p, q, r, u) \in Nat
<1> QED BY SMT DEF Quad, Sextet

LEMMA SymbolsAre ==
  ASSUME NEW n \in Nat, NEW o \in 1..4
  PROVE  SymbolOf(n, o) \in Sextet
<1>1. PICK a \in Nat, b \in Nat, c \in Nat :
        a = n \div 262144 /\ b = n \div 4096 /\ c = n \div 64
  BY SMT
<1>2. /\ SymbolOf(n, 1) = a % 64 /\ SymbolOf(n, 2) = b % 64
      /\ SymbolOf(n, 3) = c % 64 /\ SymbolOf(n, 4) = n % 64
  <2>1. n \div 1 = n
    BY SMT
  <2>2. /\ SymbolOf(n, 1) = (n \div 262144) % 64 /\ SymbolOf(n, 2) = (n \div 4096) % 64
        /\ SymbolOf(n, 3) = (n \div 64) % 64 /\ SymbolOf(n, 4) = (n \div 1) % 64
    BY SMT DEF SymbolOf
  <2> QED BY <1>1, <2>1, <2>2, SMT
<1>3. \A k \in Nat : k % 64 \in Sextet
  BY DEF Sextet
<1>4. o = 1 \/ o = 2 \/ o = 3 \/ o = 4
  OBVIOUS
<1>5. a % 64 \in Sextet /\ b % 64 \in Sextet /\ c % 64 \in Sextet /\ n % 64 \in Sextet
  BY <1>3
<1> QED BY <1>2, <1>4, <1>5

\* The four symbols of a number in which three bytes are found again, the first
\* in the first two symbols and the second in the first three.
Split(x, y, z, w) ==
  \E p, q, r, u \in Sextet :
    /\ p = SymbolOf(w, 1) /\ q = SymbolOf(w, 2)
    /\ r = SymbolOf(w, 3) /\ u = SymbolOf(w, 4)
    /\ \A c, d \in Sextet : ByteOf(Quad(p, q, c, d), 1) = x
    /\ \A d \in Sextet : ByteOf(Quad(p, q, r, d), 2) = y
    /\ ByteOf(Quad(p, q, r, u), 3) = z

LEMMA FoundAgain ==
  ASSUME NEW x \in Octet, NEW y \in Octet, NEW z \in Octet,
         NEW w, w = Triple(x, y, z)
  PROVE  Split(x, y, z, w)
<1> SUFFICES \E p, q, r, u \in Sextet :
           /\ p = SymbolOf(w, 1) /\ q = SymbolOf(w, 2)
           /\ r = SymbolOf(w, 3) /\ u = SymbolOf(w, 4)
           /\ \A c, d \in Sextet : ByteOf(Quad(p, q, c, d), 1) = x
           /\ \A d \in Sextet : ByteOf(Quad(p, q, r, d), 2) = y
           /\ ByteOf(Quad(p, q, r, u), 3) = z
  BY DEF Split
<1>1. PICK g : g = w
  OBVIOUS
<1>2. g = 65536 * x + 256 * y + z /\ g \in Nat
  BY <1>1, SMT DEF Triple, Octet
<1>3. PICK p, q, r, u :
        p = SymbolOf(w, 1) /\ q = SymbolOf(w, 2) /\ r = SymbolOf(w, 3) /\ u = SymbolOf(w, 4)
  OBVIOUS
<1>4. PICK x1 \in 0..63, x0 \in 0..3 : x = 4 * x1 + x0
  <2>1. x \div 4 \in 0..63 /\ x % 4 \in 0..3 /\ x = 4 * (x \div 4) + (x % 4)
    BY SMT DEF Octet
  <2> QED BY <2>1, SMT
<1>5. PICK y1 \in 0..15, y0 \in 0..15 : y = 16 * y1 + y0
  <2>1. y \div 16 \in 0..15 /\ y % 16 \in 0..15 /\ y = 16 * (y \div 16) + (y % 16)
    BY SMT DEF Octet
  <2> QED BY <2>1, SMT
<1>6. PICK z1 \in 0..3, z0 \in 0..63 : z = 64 * z1 + z0
  <2>1. z \div 64 \in 0..3 /\ z % 64 \in 0..63 /\ z = 64 * (z \div 64) + (z % 64)
    BY SMT DEF Octet
  <2> QED BY <2>1, SMT
<1>7. /\ p = (g \div 262144) % 64 /\ q = (g \div 4096) % 64
      /\ r = (g \div 64) % 64 /\ u = g % 64
  <2>1. g \div 1 = g
    BY <1>2, SMT
  <2>2. /\ SymbolOf(g, 1) = (g \div 262144) % 64 /\ SymbolOf(g, 2) = (g \div 4096) % 64
        /\ SymbolOf(g, 3) = (g \div 64) % 64 /\ SymbolOf(g, 4) = (g \div 1) % 64
    BY <1>2, SMT DEF SymbolOf
  <2>3. /\ p = SymbolOf(g, 1) /\ q = SymbolOf(g, 2) /\ r = SymbolOf(g, 3) /\ u = SymbolOf(g, 4)
    BY <1>1, <1>3, Zenon
  <2> QED BY <1>2, <2>1, <2>2, <2>3, SMT
<1>8. p = x1
  BY <1>2, <1>4, <1>5, <1>6, <1>7, SMT
<1>9. q = 16 * x0 + y1
  <2>1. g = 4096 * (64 * x1 + (16 * x0 + y1)) + (256 * y0 + 64 * z1 + z0)
    BY <1>2, <1>4, <1>5, <1>6, SMT
  <2>2. g \div 4096 = 64 * x1 + (16 * x0 + y1)
    BY <1>4, <1>5, <1>6, <2>1, SMT
  <2> QED BY <1>4, <1>5, <1>7, <2>2, SMT
<1>10. r = 4 * y0 + z1
  <2>1. g = 64 * (64 * (64 * x1 + (16 * x0 + y1)) + (4 * y0 + z1)) + z0
    BY <1>2, <1>4, <1>5, <1>6, SMT
  <2>2. g \div 64 = 64 * (64 * x1 + (16 * x0 + y1)) + (4 * y0 + z1)
    BY <1>4, <1>5, <1>6, <2>1, SMT
  <2> QED BY <1>4, <1>5, <1>6, <1>7, <2>2, SMT
<1>11. u = z0
  <2>1. g = 64 * (64 * (64 * x1 + (16 * x0 + y1)) + (4 * y0 + z1)) + z0
    BY <1>2, <1>4, <1>5, <1>6, SMT
  <2> QED BY <1>4, <1>5, <1>6, <1>7, <2>1, SMT
<1>12. p \in Sextet /\ q \in Sextet /\ r \in Sextet /\ u \in Sextet
  BY <1>4, <1>5, <1>6, <1>8, <1>9, <1>10, <1>11, SMT DEF Sextet
<1>13. ASSUME NEW c \in Sextet, NEW d \in Sextet
       PROVE  ByteOf(Quad(p, q, c, d), 1) = x
  <2>1. PICK m \in Nat : m = Quad(p, q, c, d)
    BY <1>12, QuadIs
  <2>2. m = 65536 * x + (4096 * y1 + 64 * c + d)
    BY <1>4, <1>5, <1>8, <1>9, <2>1, SMT DEF Quad, Sextet
  <2>3. m \div 65536 = x
    BY <1>4, <1>5, <2>2, SMT DEF Octet, Sextet
  <2>4. (m \div 65536) % 256 = x
    BY <2>3, SMT DEF Octet
  <2>5. ByteOf(m, 1) = (m \div 65536) % 256
    BY SMT DEF ByteOf
  <2> QED BY <2>1, <2>4, <2>5, SMT
<1>14. ASSUME NEW d \in Sextet
       PROVE  ByteOf(Quad(p, q, r, d), 2) = y
  <2>1. PICK m \in Nat : m = Quad(p, q, r, d)
    BY <1>12, QuadIs
  <2>2. m = 256 * (256 * x + y) + (64 * z1 + d)
    BY <1>4, <1>5, <1>6, <1>8, <1>9, <1>10, <2>1, SMT DEF Quad, Sextet
  <2>3. m \div 256 = 256 * x + y
    BY <1>6, <2>2, SMT DEF Octet, Sextet
  <2>4. (m \div 256) % 256 = y
    BY <2>3, SMT DEF Octet
  <2>5. ByteOf(m, 2) = (m \div 256) % 256
    BY SMT DEF ByteOf
  <2> QED BY <2>1, <2>4, <2>5, SMT
<1>15. ByteOf(Quad(p, q, r, u), 3) = z
  <2>1. PICK m \in Nat : m = Quad(p, q, r, u)
    BY <1>12, QuadIs
  <2>2. m = 256 * (256 * x + y) + z
    BY <1>4, <1>5, <1>6, <1>8, <1>9, <1>10, <1>11, <2>1, SMT DEF Quad, Sextet
  <2>3. m % 256 = z
    BY <2>2, SMT DEF Octet
  <2>4. ByteOf(m, 3) = m % 256
    <3>1. m \div 1 = m /\ ByteOf(m, 3) = (m \div 1) % 256
      BY SMT DEF ByteOf
    <3> QED BY <3>1, SMT
  <2> QED BY <2>1, <2>3, <2>4, SMT
<1>16. \A c, d \in Sextet : ByteOf(Quad(p, q, c, d), 1) = x
  BY <1>13
<1>17. \A d \in Sextet : ByteOf(Quad(p, q, r, d), 2) = y
  BY <1>14
<1>18. /\ p = SymbolOf(w, 1) /\ q = SymbolOf(w, 2)
       /\ r = SymbolOf(w, 3) /\ u = SymbolOf(w, 4)
  BY <1>3, Zenon
<1> p \in Sextet /\ q \in Sextet /\ r \in Sextet /\ u \in Sextet
  BY <1>12, Zenon
<1> WITNESS p \in Sextet, q \in Sextet, r \in Sextet, u \in Sextet
<1> QED BY <1>15, <1>16, <1>17, <1>18, Zenon

\* All symbols of some bytes give as many bytes again, fewer symbols fewer.
LEMMA Lengths ==
  ASSUME NEW n \in Nat
  PROVE  /\ Symbols(n) \in Nat /\ Symbols(n) % 4 # 1 /\ Octets(Symbols(n)) = n
         /\ \A l \in Nat : l < Symbols(n) /\ l % 4 # 1 => Octets(l) \in Nat /\ Octets(l) < n
<1>1. PICK i \in Nat, r \in 0..2 : n = 3 * i + r /\ n \div 3 = i /\ n % 3 = r
  <2>1. n \div 3 \in Nat /\ n % 3 \in 0..2 /\ n = 3 * (n \div 3) + (n % 3)
    OBVIOUS
  <2> QED BY <2>1
<1>2. Symbols(n) = 4 * i + (IF r = 0 THEN 0 ELSE r + 1)
  BY <1>1 DEF Symbols
<1>3. ASSUME NEW l \in Nat, l % 4 # 1
      PROVE  \E j \in Nat, s \in {0, 2, 3} :
               /\ l = 4 * j + s
               /\ Octets(l) = 3 * j + (IF s = 0 THEN 0 ELSE s - 1)
  <2>1. l \div 4 \in Nat /\ l % 4 \in 0..3 /\ l = 4 * (l \div 4) + (l % 4)
    OBVIOUS
  <2>2. l % 4 \in {0, 2, 3}
    BY <1>3, <2>1
  <2> QED BY <2>1, <2>2 DEF Octets
<1>4. Symbols(n) \in Nat /\ Symbols(n) % 4 # 1
  BY <1>1, <1>2
<1>5. Octets(Symbols(n)) = n
  <2>1. PICK j \in Nat, s \in {0, 2, 3} :
          /\ Symbols(n) = 4 * j + s
          /\ Octets(Symbols(n)) = 3 * j + (IF s = 0 THEN 0 ELSE s - 1)
    BY <1>3, <1>4
  <2> QED BY <1>1, <1>2, <2>1
<1>6. ASSUME NEW l \in Nat, l < Symbols(n), l % 4 # 1
      PROVE  Octets(l) \in Nat /\ Octets(l) < n
  <2>1. PICK j \in Nat, s \in {0, 2, 3} :
          /\ l = 4 * j + s
          /\ Octets(l) = 3 * j + (IF s = 0 THEN 0 ELSE s - 1)
    BY <1>3, <1>6
  <2> QED BY <1>1, <1>2, <1>6, <2>1
<1> QED BY <1>4, <1>5, <1>6

\* What base64urlEncode writes, symbol by symbol.
LEMMA EncodedIs ==
  ASSUME NEW s \in Seq(Octet)
  PROVE  /\ Encoded(s) \in Seq(Sextet) /\ Len(Encoded(s)) = Symbols(Len(s))
         /\ \A i \in Nat, o \in 1..4 : 4 * i + o <= Symbols(Len(s)) =>
              Encoded(s)[4 * i + o] = SymbolOf(Triples(s, i), o)
         /\ \A i \in Nat : Triples(s, i) \in Nat
<1>1. \A i : OrZero(s, i) \in Octet
  <2>1. 0 \in Octet
    BY DEF Octet
  <2> QED BY <2>1, OrZeroIs
<1>2. ASSUME NEW i \in Nat PROVE Triples(s, i) \in Nat
  <2>1. \A x, y, z \in Octet : Triple(x, y, z) \in Nat
    BY SMT DEF Triple, Octet
  <2> QED BY <1>1, <2>1 DEF Triples
<1>3. Symbols(Len(s)) \in Nat
  BY Lengths
<1>4. ASSUME NEW j \in 1..Symbols(Len(s))
      PROVE  /\ (j - 1) \div 4 \in Nat /\ 1 + ((j - 1) % 4) \in 1..4
             /\ SymbolOf(Triples(s, (j - 1) \div 4), 1 + ((j - 1) % 4)) \in Sextet
  <2>1. j - 1 \in Nat
    BY <1>3
  <2>2. (j - 1) \div 4 \in Nat /\ 1 + ((j - 1) % 4) \in 1..4
    BY <2>1
  <2> QED BY <1>2, <2>2, SymbolsAre
<1>5. Encoded(s) \in [1..Symbols(Len(s)) -> Sextet]
  BY <1>4 DEF Encoded
<1>6. Encoded(s) \in Seq(Sextet) /\ Len(Encoded(s)) = Symbols(Len(s))
  BY <1>3, <1>5
<1>7. ASSUME NEW i \in Nat, NEW o \in 1..4, 4 * i + o <= Symbols(Len(s))
      PROVE  Encoded(s)[4 * i + o] = SymbolOf(Triples(s, i), o)
  <2>1. PICK j : j = 4 * i + o
    OBVIOUS
  <2>2. j \in 1..Symbols(Len(s))
    BY <1>3, <1>7, <2>1
  <2>3. (j - 1) \div 4 = i /\ 1 + ((j - 1) % 4) = o
    BY <2>1
  <2>4. Encoded(s)[j] = SymbolOf(Triples(s, (j - 1) \div 4), 1 + ((j - 1) % 4))
    BY <2>2 DEF Encoded
  <2> QED BY <2>1, <2>3, <2>4
<1> QED BY <1>2, <1>6, <1>7

\* The symbols that came give the bytes they were made of, group by group.
LEMMA GroupAgain ==
  ASSUME NEW s \in Seq(Octet), NEW l \in Nat, l <= Symbols(Len(s)),
         NEW t, t = SubSeq(Encoded(s), 1, l),
         NEW i \in Nat
  PROVE  /\ 4 * i + 2 <= l /\ 3 * i + 1 <= Len(s) => ByteOf(Quads(t, i), 1) = s[3 * i + 1]
         /\ 4 * i + 3 <= l /\ 3 * i + 2 <= Len(s) => ByteOf(Quads(t, i), 2) = s[3 * i + 2]
         /\ 4 * i + 4 <= l /\ 3 * i + 3 <= Len(s) => ByteOf(Quads(t, i), 3) = s[3 * i + 3]
<1>1. \A j : OrZero(s, j) \in Octet
  <2>1. 0 \in Octet
    BY DEF Octet
  <2> QED BY <2>1, OrZeroIs
<1>2. PICK x \in Octet, y \in Octet, z \in Octet :
        x = OrZero(s, 3 * i + 1) /\ y = OrZero(s, 3 * i + 2) /\ z = OrZero(s, 3 * i + 3)
  BY <1>1
<1>3. Triples(s, i) = Triple(x, y, z)
  BY <1>2 DEF Triples
<1>4. PICK p \in Sextet, q \in Sextet, r \in Sextet, u \in Sextet :
        /\ p = SymbolOf(Triples(s, i), 1) /\ q = SymbolOf(Triples(s, i), 2)
        /\ r = SymbolOf(Triples(s, i), 3) /\ u = SymbolOf(Triples(s, i), 4)
        /\ \A c, d \in Sextet : ByteOf(Quad(p, q, c, d), 1) = x
        /\ \A d \in Sextet : ByteOf(Quad(p, q, r, d), 2) = y
        /\ ByteOf(Quad(p, q, r, u), 3) = z
  <2>1. Split(x, y, z, Triples(s, i))
    BY <1>3, FoundAgain
  <2> QED BY <2>1 DEF Split
<1>5. /\ t \in Seq(Sextet) /\ Len(t) = l
      /\ \A j \in 1..l : t[j] = Encoded(s)[j]
  <2>1. Encoded(s) \in Seq(Sextet) /\ Len(Encoded(s)) = Symbols(Len(s))
    BY EncodedIs
  <2> QED BY <2>1
<1>6. ASSUME NEW o \in 1..4
      PROVE  OrZero(t, 4 * i + o)
               = IF 4 * i + o <= l THEN SymbolOf(Triples(s, i), o) ELSE 0
  <2>1. DOMAIN t = 1..l /\ (4 * i + o \in 1..l <=> 4 * i + o <= l)
    BY <1>5
  <2>2. ASSUME 4 * i + o <= l
        PROVE  t[4 * i + o] = SymbolOf(Triples(s, i), o)
    <3>1. 4 * i + o <= Symbols(Len(s))
      BY <2>2, Lengths
    <3>2. Encoded(s)[4 * i + o] = SymbolOf(Triples(s, i), o)
      BY <3>1, EncodedIs
    <3> QED BY <1>5, <2>1, <2>2, <3>2
  <2> QED BY <2>1, <2>2 DEF OrZero
<1>7. PICK a, b, c, d :
        a = OrZero(t, 4 * i + 1) /\ b = OrZero(t, 4 * i + 2)
        /\ c = OrZero(t, 4 * i + 3) /\ d = OrZero(t, 4 * i + 4)
  OBVIOUS
<1>8. /\ a = (IF 4 * i + 1 <= l THEN p ELSE 0) /\ b = (IF 4 * i + 2 <= l THEN q ELSE 0)
      /\ c = (IF 4 * i + 3 <= l THEN r ELSE 0) /\ d = (IF 4 * i + 4 <= l THEN u ELSE 0)
  BY <1>4, <1>6, <1>7
<1>9. c \in Sextet /\ d \in Sextet
  <2>1. 0 \in Sextet
    BY DEF Sextet
  <2> QED BY <1>4, <1>8, <2>1
<1>10. Quads(t, i) = Quad(a, b, c, d)
  BY <1>7 DEF Quads
<1>11. ASSUME 4 * i + 2 <= l, 3 * i + 1 <= Len(s)
       PROVE  ByteOf(Quads(t, i), 1) = s[3 * i + 1]
  <2>1. a = p /\ b = q
    BY <1>8, <1>11
  <2>2. x = s[3 * i + 1]
    BY <1>2, <1>11 DEF OrZero
  <2> QED BY <1>4, <1>9, <1>10, <2>1, <2>2
<1>12. ASSUME 4 * i + 3 <= l, 3 * i + 2 <= Len(s)
       PROVE  ByteOf(Quads(t, i), 2) = s[3 * i + 2]
  <2>1. a = p /\ b = q /\ c = r
    BY <1>8, <1>12
  <2>2. y = s[3 * i + 2]
    BY <1>2, <1>12 DEF OrZero
  <2> QED BY <1>4, <1>9, <1>10, <2>1, <2>2
<1>13. ASSUME 4 * i + 4 <= l, 3 * i + 3 <= Len(s)
       PROVE  ByteOf(Quads(t, i), 3) = s[3 * i + 3]
  <2>1. a = p /\ b = q /\ c = r /\ d = u
    BY <1>8, <1>13
  <2>2. z = s[3 * i + 3]
    BY <1>2, <1>13 DEF OrZero
  <2> QED BY <1>4, <1>10, <2>1, <2>2
<1> QED BY <1>11, <1>12, <1>13

\* The symbols that came give the first of the bytes, and a group of one
\* symbol nothing.
LEMMA DecodedIs ==
  ASSUME NEW s \in Seq(Octet), NEW l \in Nat, l <= Symbols(Len(s)),
         NEW t, t = SubSeq(Encoded(s), 1, l)
  PROVE  /\ l % 4 = 1 => Decoded(t) = Corrupt
         /\ l % 4 # 1 => /\ Octets(l) \in 0..Len(s)
                         /\ Decoded(t) = SubSeq(s, 1, Octets(l))
<1>1. Len(t) = l
  <2>1. Encoded(s) \in Seq(Sextet) /\ Len(Encoded(s)) = Symbols(Len(s))
    BY EncodedIs
  <2> QED BY <2>1
<1>2. l % 4 = 1 => Decoded(t) = Corrupt
  BY <1>1 DEF Decoded
<1>3. SUFFICES ASSUME l % 4 # 1
               PROVE  Octets(l) \in 0..Len(s) /\ Decoded(t) = SubSeq(s, 1, Octets(l))
  BY <1>2
<1>4. Octets(l) \in 0..Len(s)
  <2>1. Len(s) \in Nat
    OBVIOUS
  <2>2. l < Symbols(Len(s)) => Octets(l) \in Nat /\ Octets(l) < Len(s)
    BY <1>3, <2>1, Lengths
  <2>3. Octets(Symbols(Len(s))) = Len(s) /\ Symbols(Len(s)) \in Nat
    BY <2>1, Lengths
  <2>4. l < Symbols(Len(s)) \/ l = Symbols(Len(s))
    BY <2>3
  <2> QED BY <2>2, <2>3, <2>4
<1>5. Decoded(t) = [k \in 1..Octets(l) |->
                      ByteOf(Quads(t, (k - 1) \div 3), 1 + ((k - 1) % 3))]
  BY <1>1, <1>3 DEF Decoded
<1>6. ASSUME NEW k \in 1..Octets(l)
      PROVE  ByteOf(Quads(t, (k - 1) \div 3), 1 + ((k - 1) % 3)) = s[k]
  <2>1. k \in Nat /\ k >= 1 /\ k <= Octets(l) /\ k <= Len(s) /\ k - 1 \in Nat
    BY <1>4
  <2>2. PICK i \in Nat, o \in 0..2 : i = (k - 1) \div 3 /\ o = (k - 1) % 3 /\ k = 3 * i + o + 1
    <3>1. (k - 1) \div 3 \in Nat /\ (k - 1) % 3 \in 0..2
          /\ k - 1 = 3 * ((k - 1) \div 3) + ((k - 1) % 3)
      BY <2>1
    <3> QED BY <2>1, <3>1
  <2>3. 4 * i + o + 2 <= l
    <3>1. PICK j \in Nat, e \in 0..3 : l = 4 * j + e /\ j = l \div 4 /\ e = l % 4
      <4>1. l \div 4 \in Nat /\ l % 4 \in 0..3 /\ l = 4 * (l \div 4) + (l % 4)
        OBVIOUS
      <4> QED BY <4>1
    <3>2. e # 1 /\ 3 * i + o + 1 <= 3 * j + (IF e = 0 THEN 0 ELSE e - 1)
      BY <1>3, <2>1, <2>2, <3>1 DEF Octets
    <3> QED BY <2>2, <3>1, <3>2
  <2>4. 3 * i + o + 1 <= Len(s)
    BY <2>1, <2>2
  <2>5. /\ 4 * i + 2 <= l /\ 3 * i + 1 <= Len(s) => ByteOf(Quads(t, i), 1) = s[3 * i + 1]
        /\ 4 * i + 3 <= l /\ 3 * i + 2 <= Len(s) => ByteOf(Quads(t, i), 2) = s[3 * i + 2]
        /\ 4 * i + 4 <= l /\ 3 * i + 3 <= Len(s) => ByteOf(Quads(t, i), 3) = s[3 * i + 3]
    BY GroupAgain
  <2>6. ByteOf(Quads(t, i), 1 + o) = s[3 * i + o + 1]
    <3>1. CASE o = 0
      BY <2>3, <2>4, <2>5, <3>1
    <3>2. CASE o = 1
      BY <2>3, <2>4, <2>5, <3>2
    <3>3. CASE o = 2
      BY <2>3, <2>4, <2>5, <3>3
    <3> QED BY <3>1, <3>2, <3>3
  <2> QED BY <2>2, <2>6
<1>7. SubSeq(s, 1, Octets(l)) = [k \in 1..Octets(l) |-> s[k]]
  BY <1>4
<1> QED BY <1>4, <1>5, <1>6, <1>7

-----------------------------------------------------------------------------
(***************************************************************************)
(* Envelopes: stored blocks.                                               *)
(***************************************************************************)

\* A set of naturals that has a member has a least one.
LEMMA LeastExists ==
  ASSUME NEW T, T \subseteq Nat, T # {}
  PROVE  \E x \in T : \A y \in T : x <= y
<1>1. \E x \in T : \A y \in T : <<y, x>> \notin OpToRel(<, Nat)
  BY WFMin, NatLessThanWellFounded, Zenon
<1>2. PICK x \in T : \A y \in T : <<y, x>> \notin OpToRel(<, Nat)
  BY <1>1
<1>3. \A y \in T : ~(y < x)
  BY <1>2 DEF OpToRel
<1> QED BY <1>3

\* The header of a block says how many bytes are in it.
LEMMA HeaderTells ==
  ASSUME NEW n \in Nat, n <= BlockBytes
  PROVE  /\ {n % 256, n \div 256, Complement(n) % 256, Complement(n) \div 256} \subseteq Octet
         /\ Word(n % 256, n \div 256) = n
         /\ Word(Complement(n) % 256, Complement(n) \div 256) = Complement(n)
<1>1. n <= 65535
  BY EnvelopeAssumption, SMT
<1>2. \A m \in Nat : m <= 65535 =>
        m % 256 \in 0..255 /\ m \div 256 \in 0..255 /\ (m % 256) + 256 * (m \div 256) = m
  BY SMT
<1>3. PICK c \in Nat : c = Complement(n) /\ c <= 65535
  BY <1>1, SMT DEF Complement
<1>4. /\ n % 256 \in 0..255 /\ n \div 256 \in 0..255
      /\ (n % 256) + 256 * (n \div 256) = n
      /\ c % 256 \in 0..255 /\ c \div 256 \in 0..255
      /\ (c % 256) + 256 * (c \div 256) = c
  BY <1>1, <1>2, <1>3, SMT
<1>5. Word(n % 256, n \div 256) = n /\ Word(c % 256, c \div 256) = c
  BY <1>4, SMT DEF Word
<1>6. /\ n % 256 \in Octet /\ n \div 256 \in Octet
      /\ c % 256 \in Octet /\ c \div 256 \in Octet
  BY <1>4, SMT DEF Octet
<1>7. c = Complement(n)
  BY <1>3, SMT
<1> QED BY <1>5, <1>6, <1>7

\* One sequence after another of m members.
JoinOf(r, S, c, d, m) ==
  /\ r = c \o d /\ r \in Seq(S) /\ Len(r) = m + Len(d)
  /\ \A j \in 1..m : r[j] = c[j]
  /\ \A j \in 1..Len(d) : r[m + j] = d[j]

LEMMA ConcatIs ==
  ASSUME NEW S, NEW c \in Seq(S), NEW d \in Seq(S), NEW m \in Nat, m = Len(c)
  PROVE  JoinOf(c \o d, S, c, d, m)
<1>1. Len(d) \in Nat
  OBVIOUS
<1>2. /\ c \o d \in Seq(S) /\ Len(c \o d) = m + Len(d)
  OBVIOUS
<1>3. ASSUME NEW j \in 1..m PROVE (c \o d)[j] = c[j]
  BY <1>1
<1>4. ASSUME NEW j \in 1..Len(d) PROVE (c \o d)[m + j] = d[j]
  <2>1. PICK k : k = m + j
    OBVIOUS
  <2>2. k \in 1..m + Len(d) /\ ~(k <= m) /\ k - m = j
    BY <1>1, <2>1
  <2>3. (c \o d)[k] = d[k - m]
    BY <1>1, <2>2
  <2> QED BY <2>1, <2>2, <2>3
<1> QED BY <1>2, <1>3, <1>4 DEF JoinOf

\* What the bytes of a block say.
BlockOf(final, d, w) ==
  /\ w \in Seq(Octet) /\ Len(w) = 5 + Len(d)
  /\ w[1] = (IF final THEN 1 ELSE 0)
  /\ Word(w[2], w[3]) = Len(d)
  /\ Word(w[4], w[5]) = Complement(Len(d))
  /\ \A j \in 1..Len(d) : w[5 + j] = d[j]

LEMMA BlockIs ==
  ASSUME NEW final \in BOOLEAN, NEW d \in Seq(Octet), Len(d) <= BlockBytes
  PROVE  BlockOf(final, d, Block(final, d))
<1> SUFFICES
         /\ Block(final, d) \in Seq(Octet) /\ Len(Block(final, d)) = 5 + Len(d)
         /\ Block(final, d)[1] = (IF final THEN 1 ELSE 0)
         /\ Word(Block(final, d)[2], Block(final, d)[3]) = Len(d)
         /\ Word(Block(final, d)[4], Block(final, d)[5]) = Complement(Len(d))
         /\ \A j \in 1..Len(d) : Block(final, d)[5 + j] = d[j]
  BY DEF BlockOf
<1>1. PICK f, a, b, c, e :
        /\ f = (IF final THEN 1 ELSE 0) /\ a = Len(d) % 256 /\ b = Len(d) \div 256
        /\ c = Complement(Len(d)) % 256 /\ e = Complement(Len(d)) \div 256
  OBVIOUS
<1>2. Len(d) \in Nat
  OBVIOUS
<1>3. /\ a \in Octet /\ b \in Octet /\ c \in Octet /\ e \in Octet
      /\ Word(a, b) = Len(d) /\ Word(c, e) = Complement(Len(d))
  BY <1>1, <1>2, HeaderTells
<1>4. f \in Octet
  BY <1>1 DEF Octet
<1>5. Block(final, d) = <<f, a, b, c, e>> \o d
  BY <1>1 DEF Block
<1>6. PICK h : h = <<f, a, b, c, e>>
  OBVIOUS
<1>7. /\ h \in Seq(Octet) /\ Len(h) = 5
      /\ h[1] = f /\ h[2] = a /\ h[3] = b /\ h[4] = c /\ h[5] = e
  <2>1. <<f, a, b, c, e>> \in Seq(Octet)
    BY <1>3, <1>4
  <2> QED BY <1>6, <2>1
<1>8. PICK w : w = h \o d /\ JoinOf(w, Octet, h, d, 5)
  <2>1. h \in Seq(Octet) /\ 5 \in Nat /\ 5 = Len(h)
    BY <1>7
  <2> QED BY <2>1, ConcatIs
<1>9. /\ w \in Seq(Octet) /\ Len(w) = 5 + Len(d)
      /\ \A j \in 1..5 : w[j] = h[j]
      /\ \A j \in 1..Len(d) : w[5 + j] = d[j]
  BY <1>8 DEF JoinOf
<1>10. w = Block(final, d)
  BY <1>5, <1>6, <1>8
<1>11. w[1] = f /\ w[2] = a /\ w[3] = b /\ w[4] = c /\ w[5] = e
  <2>1. w[1] = h[1] /\ w[2] = h[2] /\ w[3] = h[3] /\ w[4] = h[4] /\ w[5] = h[5]
    BY <1>9
  <2> QED BY <1>7, <2>1
<1>12. Word(w[2], w[3]) = Len(d) /\ Word(w[4], w[5]) = Complement(Len(d))
  BY <1>3, <1>11
<1>13. /\ w \in Seq(Octet) /\ Len(w) = 5 + Len(d)
       /\ \A j \in 1..Len(d) : w[5 + j] = d[j]
  BY <1>9
<1>14. w[1] = (IF final THEN 1 ELSE 0)
  BY <1>1, <1>11
<1> QED BY <1>10, <1>12, <1>13, <1>14, Zenon

LEMMA BlockBytesIs == BlockBytes \in Nat /\ BlockBytes >= 1
BY EnvelopeAssumption, SMT

\* Parts of what is put into an envelope.
PartOf(x, s, a, k) ==
  /\ x = SubSeq(s, a + 1, a + k) /\ x \in Seq(Octet) /\ Len(x) = k
  /\ \A j \in 1..k : x[j] = s[a + j]

LEMMA PartIs ==
  ASSUME NEW s \in Seq(Octet), NEW a \in Nat, NEW k \in Nat, a + k <= Len(s)
  PROVE  PartOf(SubSeq(s, a + 1, a + k), s, a, k)
<1>1. Len(s) \in Nat
  OBVIOUS
<1>2. \A j \in 1..k : a + j \in 1..Len(s)
  BY <1>1
<1>3. CASE k = 0
  <2>1. SubSeq(s, a + 1, a + k) = <<>>
    BY <1>3
  <2> QED BY <1>3, <2>1 DEF PartOf
<1>4. CASE k # 0
  <2>1. a + 1 \in 1..Len(s) /\ a + k \in 1..Len(s) /\ a + k - (a + 1) + 1 = k /\ a + 1 <= a + k
    BY <1>1, <1>4
  <2>2. SubSeq(s, a + 1, a + k) = [j \in 1..(a + k - (a + 1) + 1) |-> s[j + (a + 1) - 1]]
    BY <2>1
  <2>3. SubSeq(s, a + 1, a + k) = [j \in 1..k |-> s[a + j]]
    <3>1. \A j \in 1..k : j + (a + 1) - 1 = a + j
      OBVIOUS
    <3> QED BY <2>1, <2>2, <3>1
  <2>4. \A j \in 1..k : s[a + j] \in Octet
    BY <1>2
  <2> QED BY <2>3, <2>4 DEF PartOf
<1> QED BY <1>3, <1>4 DEF PartOf

LEMMA PartsJoin ==
  ASSUME NEW s \in Seq(Octet), NEW a \in Nat, NEW k \in Nat, NEW m \in Nat,
         NEW e \in Nat, e = a + k, NEW i \in Nat, i = k + m, e + m <= Len(s),
         NEW c, PartOf(c, s, a, k), NEW d, PartOf(d, s, e, m)
  PROVE  PartOf(c \o d, s, a, i)
<1>1. Len(s) \in Nat /\ a + i <= Len(s)
  OBVIOUS
<1>2. c \in Seq(Octet) /\ Len(c) = k /\ \A j \in 1..k : c[j] = s[a + j]
  BY DEF PartOf
<1>3. d \in Seq(Octet) /\ Len(d) = m /\ \A j \in 1..m : d[j] = s[e + j]
  BY DEF PartOf
<1>4. PICK x : PartOf(x, s, a, i)
  BY <1>1, PartIs
<1>5. x \in Seq(Octet) /\ Len(x) = i /\ \A j \in 1..i : x[j] = s[a + j]
  BY <1>4 DEF PartOf
<1>6. PICK r : r = c \o d /\ JoinOf(r, Octet, c, d, k)
  BY <1>2, <1>3, ConcatIs
<1>7. /\ r \in Seq(Octet) /\ Len(r) = i
      /\ \A j \in 1..k : r[j] = c[j]
      /\ \A j \in 1..m : r[k + j] = d[j]
  BY <1>3, <1>6 DEF JoinOf
<1>8. ASSUME NEW j \in 1..i PROVE r[j] = x[j]
  <2>1. CASE j <= k
    <3>1. j \in 1..k
      BY <2>1
    <3>2. r[j] = c[j] /\ c[j] = s[a + j]
      BY <1>2, <1>7, <3>1
    <3>3. x[j] = s[a + j]
      BY <1>5
    <3> QED BY <3>2, <3>3
  <2>2. CASE ~(j <= k)
    <3>1. PICK l \in 1..m : k + l = j /\ e + l = a + j
      <4>1. j - k \in 1..m /\ k + (j - k) = j /\ e + (j - k) = a + j
        BY <2>2
      <4> QED BY <4>1
    <3>2. r[j] = d[l] /\ d[l] = s[a + j]
      BY <1>3, <1>7, <3>1
    <3> QED BY <1>5, <3>2
  <2> QED BY <2>1, <2>2
<1>9. r = x
  <2>1. \A j \in 1..Len(r) : r[j] = x[j]
    BY <1>8, <1>7
  <2>2. Len(r) = Len(x)
    BY <1>5, <1>7
  <2> QED BY <1>5, <1>7, <2>1, <2>2, SeqEqual
<1> QED BY <1>4, <1>6, <1>9

\* The functions that deflateRawStored and inflateRawStored recur through.
Stores(s, f, m) == f = [left \in 0..m |-> StoredFrom(s, left, f)]
Inflates(t, g, m) == g = [left \in 0..m |-> InflatedFrom(t, left, g)]

LEMMA StoresExist ==
  ASSUME NEW s \in Seq(Octet), NEW m \in Nat
  PROVE  \E f : Stores(s, f, m)
<1> DEFINE Bad == {k \in Nat : ~\E f : Stores(s, f, k)}
<1>1. SUFFICES ASSUME Bad # {} PROVE FALSE
  OBVIOUS
<1>2. Bad \subseteq Nat
  OBVIOUS
<1> HIDE DEF Bad
<1>3. PICK b \in Bad : \A k \in Bad : b <= k
  BY <1>1, <1>2, LeastExists
<1>4. b \in Nat
  BY <1>2
<1>5. PICK f : b # 0 => Stores(s, f, b - 1)
  <2>1. CASE b = 0
    BY <2>1
  <2>2. CASE b # 0
    <3>1. b - 1 \in Nat /\ ~(b <= b - 1)
      BY <1>4, <2>2
    <3>2. b - 1 \notin Bad
      BY <1>3, <3>1
    <3> QED BY <3>1, <3>2 DEF Bad
  <2> QED BY <2>1, <2>2
<1> DEFINE h == [left \in 0..b |-> IF left < b THEN f[left] ELSE StoredFrom(s, left, f)]
<1>6. \A left \in 0..b : left < b => h[left] = f[left]
  OBVIOUS
<1>7. h[b] = StoredFrom(s, b, f)
  BY <1>4
<1>8. h = [left \in 0..b |-> h[left]]
  OBVIOUS
<1> HIDE DEF h
<1>9. ASSUME NEW left \in 0..b
      PROVE  StoredFrom(s, left, h) = StoredFrom(s, left, f)
  <2>1. CASE left <= BlockBytes
    BY <2>1 DEF StoredFrom
  <2>2. CASE ~(left <= BlockBytes)
    <3>1. left - BlockBytes \in 0..b /\ left - BlockBytes < b
      BY <1>4, <2>2, BlockBytesIs
    <3>2. h[left - BlockBytes] = f[left - BlockBytes]
      BY <1>6, <3>1
    <3> QED BY <2>2, <3>2 DEF StoredFrom
  <2> QED BY <2>1, <2>2
<1>10. ASSUME NEW left \in 0..b
       PROVE  h[left] = StoredFrom(s, left, h)
  <2>1. CASE left = b
    BY <1>7, <1>9, <2>1
  <2>2. CASE left # b
    <3>1. left < b /\ b # 0 /\ left \in 0..b - 1
      BY <1>4, <2>2
    <3>2. f[left] = StoredFrom(s, left, f)
      BY <1>5, <3>1, Zenon DEF Stores
    <3> QED BY <1>6, <1>9, <3>1, <3>2
  <2> QED BY <2>1, <2>2
<1>11. Stores(s, h, b)
  <2>1. [left \in 0..b |-> h[left]] = [left \in 0..b |-> StoredFrom(s, left, h)]
    BY <1>10
  <2> QED BY <1>8, <2>1 DEF Stores
<1> QED BY <1>4, <1>11 DEF Bad

LEMMA InflatesExist ==
  ASSUME NEW t \in Seq(Octet), NEW m \in 0..Len(t)
  PROVE  \E f : Inflates(t, f, m)
<1> DEFINE Bad == {k \in 0..Len(t) : ~\E f : Inflates(t, f, k)}
<1>1. SUFFICES ASSUME Bad # {} PROVE FALSE
  OBVIOUS
<1>2. Bad \subseteq Nat /\ Bad \subseteq 0..Len(t)
  OBVIOUS
<1> HIDE DEF Bad
<1>3. PICK b \in Bad : \A k \in Bad : b <= k
  BY <1>1, <1>2, LeastExists
<1>4. b \in Nat /\ b <= Len(t) /\ Len(t) \in Nat
  BY <1>2
<1>5. PICK f : b # 0 => Inflates(t, f, b - 1)
  <2>1. CASE b = 0
    BY <2>1
  <2>2. CASE b # 0
    <3>1. b - 1 \in 0..Len(t) /\ ~(b <= b - 1)
      BY <1>4, <2>2
    <3>2. b - 1 \notin Bad
      BY <1>3, <3>1
    <3> QED BY <3>1, <3>2 DEF Bad
  <2> QED BY <2>1, <2>2
<1> DEFINE h == [left \in 0..b |-> IF left < b THEN f[left] ELSE InflatedFrom(t, left, f)]
<1>6. \A left \in 0..b : left < b => h[left] = f[left]
  OBVIOUS
<1>7. h[b] = InflatedFrom(t, b, f)
  BY <1>4
<1>8. h = [left \in 0..b |-> h[left]]
  OBVIOUS
<1> HIDE DEF h
<1>9. ASSUME NEW left \in 0..b
      PROVE  InflatedFrom(t, left, h) = InflatedFrom(t, left, f)
  <2> DEFINE at == Len(t) - left
             held == Word(t[at + 2], t[at + 3])
  <2>1. CASE left < 5
    BY <2>1 DEF InflatedFrom
  <2>2. CASE ~(left < 5) /\ left < 5 + held
    BY <2>2 DEF InflatedFrom
  <2>3. CASE ~(left < 5) /\ ~(left < 5 + held)
    <3>1. at + 2 \in 1..Len(t) /\ at + 3 \in 1..Len(t)
      BY <1>4, <2>3
    <3>2. held \in Nat
      <4>1. PICK x \in Octet, y \in Octet : x = t[at + 2] /\ y = t[at + 3]
        BY <3>1
      <4>2. Word(x, y) \in Nat
        BY DEF Word, Octet
      <4> QED BY <4>1, <4>2
    <3> HIDE DEF held
    <3>3. left - (5 + held) \in 0..b /\ left - (5 + held) < b
      BY <1>4, <2>3, <3>2
    <3>4. h[left - (5 + held)] = f[left - (5 + held)]
      BY <1>6, <3>3
    <3> QED BY <3>4 DEF InflatedFrom, held
  <2> QED BY <2>1, <2>2, <2>3
<1>10. ASSUME NEW left \in 0..b
       PROVE  h[left] = InflatedFrom(t, left, h)
  <2>1. CASE left = b
    BY <1>7, <1>9, <2>1
  <2>2. CASE left # b
    <3>1. left < b /\ b # 0 /\ left \in 0..b - 1
      BY <1>4, <2>2
    <3>2. f[left] = InflatedFrom(t, left, f)
      BY <1>5, <3>1, Zenon DEF Inflates
    <3> QED BY <1>6, <1>9, <3>1, <3>2
  <2> QED BY <2>1, <2>2
<1>11. Inflates(t, h, b)
  <2>1. [left \in 0..b |-> h[left]] = [left \in 0..b |-> InflatedFrom(t, left, h)]
    BY <1>10
  <2> QED BY <1>8, <2>1 DEF Inflates
<1>12. b \notin Bad
  BY <1>11 DEF Bad
<1> QED BY <1>12

LEMMA StoredIs ==
  ASSUME NEW s \in Seq(Octet)
  PROVE  \E f : Stores(s, f, Len(s)) /\ Stored(s) = f[Len(s)]
<1>1. PICK f : f = CHOOSE g : g = [left \in 0..Len(s) |-> StoredFrom(s, left, g)]
  OBVIOUS
<1>2. Len(s) \in Nat
  OBVIOUS
<1>3. \E g : g = [left \in 0..Len(s) |-> StoredFrom(s, left, g)]
  BY <1>2, StoresExist, Zenon DEF Stores
<1>4. f = [left \in 0..Len(s) |-> StoredFrom(s, left, f)]
  BY <1>1, <1>3, Zenon
<1>5. Stored(s) = f[Len(s)]
  BY <1>1, Zenon DEF Stored
<1> QED BY <1>4, <1>5 DEF Stores

LEMMA InflatedIs ==
  ASSUME NEW t \in Seq(Octet)
  PROVE  \E g : Inflates(t, g, Len(t)) /\ Inflated(t) = g[Len(t)]
<1>1. PICK f : f = CHOOSE g : g = [left \in 0..Len(t) |-> InflatedFrom(t, left, g)]
  OBVIOUS
<1>2. Len(t) \in 0..Len(t)
  OBVIOUS
<1>3. \E g : g = [left \in 0..Len(t) |-> InflatedFrom(t, left, g)]
  BY <1>2, InflatesExist, Zenon DEF Inflates
<1>4. f = [left \in 0..Len(t) |-> InflatedFrom(t, left, f)]
  BY <1>1, <1>3, Zenon
<1>5. Inflated(t) = f[Len(t)]
  BY <1>1, Zenon DEF Inflated
<1> QED BY <1>4, <1>5 DEF Inflates

LEMMA NotCorrupt ==
  ASSUME NEW s \in Seq(Octet)
  PROVE  s # Corrupt
<1>1. SUFFICES ASSUME s = Corrupt PROVE FALSE
  OBVIOUS
<1>2. Len(s) = 1 /\ s[1] = -1
  BY <1>1 DEF Corrupt
<1>3. s[1] \in Octet
  BY <1>2
<1> QED BY <1>2, <1>3 DEF Octet

\* A part of what was written, from the start of a block on, is read up to its
\* end if it is all of it, and is refused otherwise.
Reads(s, f, left) ==
  /\ f[left] \in Seq(Octet)
  /\ \A t \in Seq(Octet) : \A g : \A rest \in 0..Len(t) :
       /\ Inflates(t, g, Len(t))
       /\ rest <= Len(f[left])
       /\ \A j \in 1..rest : t[Len(t) - rest + j] = f[left][j]
       => g[rest] = IF rest = Len(f[left])
                    THEN SubSeq(s, Len(s) - left + 1, Len(s)) ELSE Corrupt

LEMMA ReadBack ==
  ASSUME NEW s \in Seq(Octet), NEW f, Stores(s, f, Len(s)),
         NEW left \in 0..Len(s)
  PROVE  Reads(s, f, left)
<1> DEFINE n == Len(s)
           Bad == {k \in 0..n : ~Reads(s, f, k)}
<1>1. SUFFICES ASSUME Bad # {} PROVE FALSE
  OBVIOUS
<1>2. Bad \subseteq Nat /\ Bad \subseteq 0..n /\ n \in Nat
  OBVIOUS
<1> HIDE DEF Bad
<1>3. PICK b \in Bad : \A k \in Bad : b <= k
  BY <1>1, <1>2, LeastExists
<1>4. b \in Nat /\ b <= n /\ b \in 0..n
  BY <1>2
<1>5. ASSUME NEW k \in 0..n, k < b PROVE Reads(s, f, k)
  <2>1. k \notin Bad
    BY <1>3, <1>4, <1>5
  <2> QED BY <2>1 DEF Bad
<1>6. f[b] = StoredFrom(s, b, f)
  BY <1>4, Zenon DEF Stores
<1>7. PICK final \in BOOLEAN, held \in Nat :
        /\ final <=> b <= BlockBytes
        /\ held = (IF b <= BlockBytes THEN b ELSE BlockBytes)
  BY <1>4, BlockBytesIs
<1>8. /\ held <= b /\ held <= BlockBytes /\ BlockBytes \in Nat
      /\ final => held = b
      /\ ~final => held = BlockBytes /\ held >= 1 /\ b - held \in 0..n /\ b - held < b
  <2>1. CASE b <= BlockBytes
    BY <1>4, <1>7, <2>1, BlockBytesIs
  <2>2. CASE ~(b <= BlockBytes)
    BY <1>2, <1>4, <1>7, <2>2, BlockBytesIs
  <2> QED BY <2>1, <2>2
<1>9. PICK start \in Nat : start = n - b /\ start + b = n
  <2>1. n - b \in Nat /\ (n - b) + b = n
    BY <1>2, <1>4
  <2> QED BY <2>1
<1>10. PICK d : PartOf(d, s, start, held)
  <2>1. start + held <= Len(s)
    BY <1>2, <1>4, <1>8, <1>9
  <2> QED BY <2>1, PartIs
<1>11. /\ d = SubSeq(s, start + 1, start + held)
      /\ d \in Seq(Octet) /\ Len(d) = held
  BY <1>10 DEF PartOf
<1>12. PICK w : /\ w = Block(final, d)
                /\ w \in Seq(Octet) /\ Len(w) = 5 + held
                /\ w[1] = (IF final THEN 1 ELSE 0)
                /\ Word(w[2], w[3]) = held
                /\ Word(w[4], w[5]) = Complement(held)
                /\ \A j \in 1..held : w[5 + j] = d[j]
  <2>1. Len(d) <= BlockBytes /\ d \in Seq(Octet) /\ Len(d) = held
    BY <1>8, <1>11
  <2>2. PICK w : w = Block(final, d)
    OBVIOUS
  <2>3. BlockOf(final, d, w)
    BY <2>1, <2>2, BlockIs
  <2> QED BY <2>1, <2>2, <2>3 DEF BlockOf
<1>13. /\ final => f[b] = w
       /\ ~final => f[b] = w \o f[b - held]
  <2>1. CASE b <= BlockBytes
    <3>1. final = TRUE /\ held = b
      BY <1>7, <2>1
    <3>2. f[b] = Block(TRUE, SubSeq(s, start + 1, start + b))
      BY <1>6, <1>9, <2>1 DEF StoredFrom
    <3>3. f[b] = w
      BY <1>11, <1>12, <3>1, <3>2, Zenon
    <3> QED BY <3>1, <3>3
  <2>2. CASE ~(b <= BlockBytes)
    <3>1. final = FALSE /\ held = BlockBytes
      BY <1>7, <2>2
    <3>2. f[b] = Block(FALSE, SubSeq(s, start + 1, start + BlockBytes)) \o f[b - BlockBytes]
      BY <1>6, <1>9, <2>2 DEF StoredFrom
    <3>3. f[b] = w \o f[b - held]
      BY <1>11, <1>12, <3>1, <3>2, Zenon
    <3> QED BY <3>1, <3>3
  <2> QED BY <2>1, <2>2
<1>14. ~final => Reads(s, f, b - held)
  <2> QED BY <1>5, <1>8
<1>15. PICK tail \in Nat :
         /\ f[b] \in Seq(Octet) /\ Len(f[b]) = 5 + held + tail
         /\ \A j \in 1..5 + held : f[b][j] = w[j]
         /\ final => tail = 0
         /\ ~final => /\ f[b - held] \in Seq(Octet) /\ Len(f[b - held]) = tail
                      /\ \A j \in 1..tail : f[b][(5 + held) + j] = f[b - held][j]
  <2>1. CASE final
    <3>1. f[b] = w
      BY <1>13, <2>1
    <3>2. /\ f[b] \in Seq(Octet) /\ Len(f[b]) = 5 + held + 0
          /\ \A j \in 1..5 + held : f[b][j] = w[j]
      BY <1>12, <3>1
    <3> QED BY <2>1, <3>2
  <2>2. CASE ~final
    <3>1. f[b - held] \in Seq(Octet)
      BY <1>14, <2>2 DEF Reads
    <3>2. w \in Seq(Octet) /\ 5 + held \in Nat /\ 5 + held = Len(w)
      BY <1>12
    <3>3. PICK m \in Nat, c \in Seq(Octet) : m = 5 + held /\ c = f[b - held]
      BY <3>1, <3>2
    <3>4. PICK r : r = w \o c /\ JoinOf(r, Octet, w, c, m)
      <4>1. w \in Seq(Octet) /\ m = Len(w)
        BY <3>2, <3>3
      <4> QED BY <4>1, ConcatIs
    <3>5. /\ r \in Seq(Octet) /\ Len(r) = m + Len(c)
          /\ \A j \in 1..m : r[j] = w[j]
          /\ \A j \in 1..Len(c) : r[m + j] = c[j]
      BY <3>4 DEF JoinOf
    <3>6. r = f[b]
      BY <1>13, <2>2, <3>3, <3>4
    <3>7. Len(c) \in Nat
      OBVIOUS
    <3> QED BY <2>2, <3>1, <3>5, <3>6, <3>7, <3>3
  <2> QED BY <2>1, <2>2
<1>16. ASSUME NEW t \in Seq(Octet), NEW g, NEW rest \in 0..Len(t),
              Inflates(t, g, Len(t)), rest <= Len(f[b]),
              \A j \in 1..rest : t[Len(t) - rest + j] = f[b][j]
       PROVE  g[rest] = IF rest = Len(f[b]) THEN SubSeq(s, n - b + 1, n) ELSE Corrupt
  <2>1. PICK at \in Nat : at = Len(t) - rest /\ at + rest = Len(t)
    OBVIOUS
  <2>2. /\ Len(t) \in Nat /\ rest \in Nat /\ rest <= 5 + held + tail
        /\ rest = Len(f[b]) <=> rest = 5 + held + tail
        /\ \A j \in 1..rest : t[at + j] = f[b][j]
    BY <1>15, <1>16, <2>1
  <2>3. /\ Len(t) \in Nat /\ rest \in Nat /\ rest <= 5 + held + tail
         /\ at = Len(t) - rest
    BY <2>1, <2>2
  <2>4. g[rest] = InflatedFrom(t, rest, g)
    BY <1>16, Zenon DEF Inflates
  <2>5. CASE rest < 5
    <3>1. g[rest] = Corrupt
      BY <2>4, <2>5 DEF InflatedFrom
    <3>2. rest # 5 + held + tail
      BY <2>2, <2>5
    <3> QED BY <2>2, <3>1, <3>2
  <2>6. CASE rest >= 5
    <3>1. /\ t[at + 1] = w[1] /\ t[at + 2] = w[2] /\ t[at + 3] = w[3]
          /\ t[at + 4] = w[4] /\ t[at + 5] = w[5]
      <4>1. \A j \in 1..5 : j \in 1..rest /\ j \in 1..5 + held
        BY <2>2, <2>6
      <4>2. \A j \in 1..5 : t[at + j] = w[j]
        BY <1>15, <2>2, <4>1
      <4> QED BY <4>2
    <3>2. /\ t[at + 1] = (IF final THEN 1 ELSE 0)
          /\ Word(t[at + 2], t[at + 3]) = held
          /\ Word(t[at + 4], t[at + 5]) = Complement(held)
      BY <1>12, <3>1
    <3>3. PICK data : data = SubSeq(t, at + 6, at + 5 + held)
      OBVIOUS
    <3>4. g[rest] = IF rest < 5 + held THEN Corrupt
                    ELSE IF final THEN data
                    ELSE IF g[rest - (5 + held)] = Corrupt THEN Corrupt
                         ELSE data \o g[rest - (5 + held)]
      <4>1. ~(rest < 5)
        BY <2>2, <2>6
      <4> QED BY <2>1, <2>4, <3>2, <3>3, <4>1 DEF InflatedFrom
    <3>5. CASE rest < 5 + held
      <4>1. rest # 5 + held + tail
        BY <2>2, <3>5
      <4> QED BY <2>2, <3>4, <3>5, <4>1
    <3>6. CASE ~(rest < 5 + held)
      <4>1. data = d
        <5>1. PICK m \in Nat : m = at + 5 /\ m + held <= Len(t) /\ at + 6 = m + 1
                               /\ at + 5 + held = m + held
          <6>1. at + 5 \in Nat /\ (at + 5) + held <= Len(t) /\ at + 6 = (at + 5) + 1
            BY <2>1, <2>2, <3>6
          <6> QED BY <6>1
        <5>2. PartOf(data, t, m, held)
          BY <3>3, <5>1, PartIs
        <5>3. /\ data \in Seq(Octet) /\ Len(data) = held
              /\ \A j \in 1..held : data[j] = t[m + j]
          BY <5>2 DEF PartOf
        <5>4. ASSUME NEW j \in 1..held PROVE data[j] = d[j]
          <6>1. 5 + j \in 1..rest /\ 5 + j \in 1..5 + held /\ at + (5 + j) = m + j
            BY <2>2, <3>6, <5>1
          <6>2. t[at + (5 + j)] = f[b][5 + j] /\ f[b][5 + j] = w[5 + j]
            BY <1>15, <2>2, <6>1
          <6> QED BY <1>12, <5>1, <5>3, <6>1, <6>2
        <5>5. \A j \in 1..Len(data) : data[j] = d[j]
          BY <5>3, <5>4
        <5> QED BY <1>11, <5>3, <5>5, SeqEqual
      <4>2. CASE final
        <5>1. g[rest] = d
          BY <3>4, <3>6, <4>1, <4>2
        <5>2. rest = 5 + held + tail
          BY <1>15, <2>2, <3>6, <4>2
        <5>3. d = SubSeq(s, n - b + 1, n)
          <6>1. held = b /\ start + held = n
            BY <1>8, <1>9, <4>2
          <6> QED BY <1>11, <1>9, <6>1
        <5> QED BY <2>2, <5>1, <5>2, <5>3
      <4>3. CASE ~final
        <5>1. PICK less \in 0..Len(t) :
                /\ less = rest - (5 + held) /\ less <= tail
                /\ less = tail <=> rest = 5 + held + tail
                /\ Len(t) - less = at + (5 + held)
          <6>1. PICK m \in Nat : m = 5 + held
            OBVIOUS
          <6>2. rest - m \in 0..Len(t) /\ rest - m <= tail
            BY <2>3, <3>6, <6>1
          <6>3. rest - m = tail <=> rest = 5 + held + tail
            BY <2>3, <6>1
          <6>4. Len(t) - (rest - m) = at + m
            BY <2>3, <6>1
          <6> QED BY <6>1, <6>2, <6>3, <6>4
        <5>2. ASSUME NEW j \in 1..less
              PROVE  t[Len(t) - less + j] = f[b - held][j]
          <6>1. /\ (5 + held) + j \in 1..rest /\ j \in 1..tail
                /\ Len(t) - less + j = at + ((5 + held) + j)
            <7>1. PICK m \in Nat : m = 5 + held
              OBVIOUS
            <7>2. less = rest - m /\ less <= tail /\ Len(t) - less = at + m
              BY <5>1, <7>1
            <7>3. j \in Nat /\ j >= 1 /\ j <= less /\ less \in Nat
              OBVIOUS
            <7>4. m + j \in 1..rest /\ j \in 1..tail
              BY <2>3, <7>2, <7>3
            <7>5. Len(t) - less + j = at + (m + j)
              BY <7>2, <7>3
            <7> QED BY <7>1, <7>4, <7>5
          <6>2. t[at + ((5 + held) + j)] = f[b][(5 + held) + j]
            BY <2>2, <6>1
          <6>3. f[b][(5 + held) + j] = f[b - held][j]
            BY <1>15, <4>3, <6>1
          <6> QED BY <6>1, <6>2, <6>3
        <5>3. g[less] = IF less = Len(f[b - held])
                        THEN SubSeq(s, n - (b - held) + 1, n) ELSE Corrupt
          <6>1. less <= Len(f[b - held])
            BY <1>15, <4>3, <5>1
          <6>2. \A j \in 1..less : t[Len(t) - less + j] = f[b - held][j]
            BY <5>2
          <6>3. Reads(s, f, b - held)
            BY <1>14, <4>3
          <6> QED BY <1>16, <6>1, <6>2, <6>3 DEF Reads
        <5>4. Len(f[b - held]) = tail
          BY <1>15, <4>3
        <5>5. CASE less = tail
          <6>1. PICK e \in Nat, k \in Nat :
                  /\ e = start + held /\ k = b - held /\ e + k = n /\ b = held + k
                  /\ n - (b - held) + 1 = e + 1 /\ n <= Len(s)
            <7>1. PICK len \in Nat : len = n
              BY <1>2
            <7>2. held <= b /\ b \in Nat /\ start + b = len
              BY <1>4, <1>8, <1>9, <7>1
            <7>3. /\ start + held \in Nat /\ b - held \in Nat
                  /\ (start + held) + (b - held) = len /\ b = held + (b - held)
                  /\ len - (b - held) + 1 = (start + held) + 1 /\ len <= len
              BY <7>2
            <7>4. /\ start + held \in Nat /\ b - held \in Nat
                  /\ (start + held) + (b - held) = n /\ b = held + (b - held)
                  /\ n - (b - held) + 1 = (start + held) + 1 /\ n <= Len(s)
              BY <7>1, <7>3
            <7> QED BY <7>4
          <6>2. PICK v : v = SubSeq(s, e + 1, e + k) /\ PartOf(v, s, e, k)
            BY <6>1, PartIs
          <6>3. g[less] = v
            BY <5>3, <5>4, <5>5, <6>1, <6>2
          <6>4. v # Corrupt
            <7>1. v \in Seq(Octet)
              BY <6>2 DEF PartOf
            <7> QED BY <7>1, NotCorrupt
          <6>5. g[rest] = d \o v
            BY <3>4, <3>6, <4>1, <4>3, <5>1, <6>3, <6>4
          <6>6. PartOf(d \o v, s, start, b)
            <7>1. e + k <= Len(s) /\ e = start + held /\ b = held + k
              BY <6>1
            <7> QED BY <1>4, <1>10, <6>2, <7>1, PartsJoin
          <6>7. g[rest] = SubSeq(s, n - b + 1, n)
            BY <1>9, <6>5, <6>6 DEF PartOf
          <6> QED BY <2>2, <5>1, <5>5, <6>7
        <5>6. CASE less # tail
          <6>1. g[less] = Corrupt
            BY <5>3, <5>4, <5>6
          <6>2. g[rest] = Corrupt
            BY <3>4, <3>6, <4>3, <5>1, <6>1
          <6> QED BY <2>2, <5>1, <5>6, <6>2
        <5> QED BY <5>5, <5>6
      <4> QED BY <4>2, <4>3
    <3> QED BY <3>5, <3>6
  <2> QED BY <2>2, <2>5, <2>6
<1>17. Reads(s, f, b)
  BY <1>15, <1>16 DEF Reads
<1>18. b \notin Bad
  <2> QED BY <1>17 DEF Bad
<1> QED BY <1>18

\* Stored blocks are read as what they were written of, and no part of them
\* that lost its end is.
LEMMA StoredReadBack ==
  ASSUME NEW s \in Seq(Octet)
  PROVE  /\ Stored(s) \in Seq(Octet)
         /\ \A k \in 0..Len(Stored(s)) :
              Inflated(SubSeq(Stored(s), 1, k)) = IF k = Len(Stored(s)) THEN s ELSE Corrupt
<1>1. PICK f : Stores(s, f, Len(s)) /\ Stored(s) = f[Len(s)]
  BY StoredIs
<1>2. PICK n \in Nat : n = Len(s) /\ n \in 0..Len(s)
  OBVIOUS
<1>3. Stores(s, f, Len(s))
  BY <1>1
<1>4. n \in 0..Len(s)
  BY <1>2
<1>5. Reads(s, f, n)
  BY <1>3, <1>4, ReadBack
<1>6. PICK w : w = Stored(s) /\ w = f[n]
  BY <1>1, <1>2
<1>7. w \in Seq(Octet)
  BY <1>5, <1>6 DEF Reads
<1>8. ASSUME NEW k \in 0..Len(w)
      PROVE  Inflated(SubSeq(w, 1, k)) = IF k = Len(w) THEN s ELSE Corrupt
  <2>1. PICK t : PartOf(t, w, 0, k) /\ t = SubSeq(w, 1, k)
    <3>1. PICK o \in Nat, m \in Nat : o = 0 /\ m = k /\ o + m <= Len(w) /\ o + 1 = 1 /\ o + m = k
      BY <1>7
    <3>2. PartOf(SubSeq(w, o + 1, o + m), w, o, m)
      BY <1>7, <3>1, PartIs
    <3> QED BY <3>1, <3>2
  <2>2. t \in Seq(Octet) /\ Len(t) = k /\ \A j \in 1..k : t[j] = w[j]
    <3>1. \A j \in 1..k : 0 + j = j
      OBVIOUS
    <3> QED BY <2>1, <3>1 DEF PartOf
  <2>3. PICK g : Inflates(t, g, Len(t)) /\ Inflated(t) = g[Len(t)]
    BY <2>2, InflatedIs
  <2>4. /\ k \in 0..Len(t) /\ k <= Len(f[n])
        /\ \A j \in 1..k : t[Len(t) - k + j] = f[n][j]
    BY <1>6, <1>7, <2>2
  <2>5. g[k] = IF k = Len(f[n]) THEN SubSeq(s, Len(s) - n + 1, Len(s)) ELSE Corrupt
    BY <1>5, <2>2, <2>3, <2>4 DEF Reads
  <2>6. SubSeq(s, Len(s) - n + 1, Len(s)) = s
    BY <1>2
  <2> QED BY <1>6, <2>1, <2>2, <2>3, <2>5, <2>6
<1> QED BY <1>6, <1>7, <1>8

-----------------------------------------------------------------------------
(***************************************************************************)
(* Envelopes on their way.                                                 *)
(***************************************************************************)

\* What comes is the start of what was sent.
Start(symbols, payload) ==
  \E l \in 0..Len(Encoded(Stored(payload))) : symbols = SubSeq(Encoded(Stored(payload)), 1, l)

EnvelopeInv ==
  /\ wire \in [payload : Payload \cup {<<>>}, symbols : Seq(Sextet), sent : BOOLEAN]
  /\ wire.sent => wire.payload \in Payload /\ Start(wire.symbols, wire.payload)

LEMMA PayloadIs ==
  ASSUME NEW p \in Payload
  PROVE  /\ p \in Seq(Octet) /\ Stored(p) \in Seq(Octet)
         /\ Encoded(Stored(p)) \in Seq(Sextet)
         /\ Len(Encoded(Stored(p))) = Symbols(Len(Stored(p)))
<1>1. p \in Seq(Octet)
  BY EnvelopeAssumption, SMT DEF Octet
<1>2. Stored(p) \in Seq(Octet)
  BY <1>1, StoredReadBack
<1> QED BY <1>1, <1>2, EncodedIs

LEMMA EnvelopeInvHolds == EnvelopeSpec => []EnvelopeInv
<1>1. EnvelopeInit => EnvelopeInv
  BY DEF EnvelopeInit, EnvelopeInv
<1>2. ASSUME EnvelopeInv, [EnvelopeNext]_wire PROVE EnvelopeInv'
  <2>1. CASE Send
    <3>1. PICK p \in Payload :
            wire' = [payload |-> p, symbols |-> Encoded(Stored(p)), sent |-> TRUE]
      BY <2>1 DEF Send
    <3>2. PICK e \in Seq(Sextet) : e = Encoded(Stored(p))
      BY PayloadIs
    <3>3. SubSeq(e, 1, Len(e)) = e /\ Len(e) \in 0..Len(e)
      OBVIOUS
    <3>4. Start(e, p)
      BY <3>2, <3>3 DEF Start
    <3> QED BY <3>1, <3>2, <3>4 DEF EnvelopeInv
  <2>2. CASE Cut
    <3>1. wire.sent /\ wire.symbols # <<>> /\ wire' = [wire EXCEPT !.symbols = Front(@)]
      BY <2>2 DEF Cut
    <3>2. PICK p \in Payload : p = wire.payload /\ Start(wire.symbols, p)
      BY <1>2, <3>1 DEF EnvelopeInv
    <3>3. PICK e \in Seq(Sextet) : e = Encoded(Stored(p))
      BY PayloadIs
    <3>4. PICK l \in 0..Len(e) : wire.symbols = SubSeq(e, 1, l)
      BY <3>2, <3>3 DEF Start
    <3>5. PICK c \in Seq(Sextet) : c = wire.symbols /\ Len(c) = l /\ l # 0
      <4>1. SubSeq(e, 1, l) \in Seq(Sextet) /\ Len(SubSeq(e, 1, l)) = l
        OBVIOUS
      <4>2. l # 0
        BY <3>1, <3>4, <4>1
      <4> QED BY <3>4, <4>1, <4>2
    <3>6. /\ Front(c) = SubSeq(e, 1, l - 1) /\ l - 1 \in 0..Len(e)
          /\ Front(c) \in Seq(Sextet)
      <4>1. l - 1 \in 0..Len(e) /\ Len(c) = l /\ c = SubSeq(e, 1, l) /\ l \in 1..Len(e)
        BY <3>4, <3>5
      <4>2. Front(c) = SubSeq(c, 1, l - 1)
        BY <4>1 DEF Front
      <4>3. SubSeq(SubSeq(e, 1, l), 1, l - 1) = SubSeq(e, 1, l - 1)
        BY <4>1
      <4>4. SubSeq(e, 1, l - 1) \in Seq(Sextet)
        BY <4>1
      <4> QED BY <4>1, <4>2, <4>3, <4>4
    <3>7. Start(Front(c), p)
      BY <3>6, <3>3 DEF Start
    <3>8. /\ wire'.payload = wire.payload /\ wire'.symbols = Front(c) /\ wire'.sent = wire.sent
          /\ wire' \in [payload : Payload \cup {<<>>}, symbols : Seq(Sextet), sent : BOOLEAN]
      BY <1>2, <3>1, <3>5, <3>6 DEF EnvelopeInv
    <3> QED BY <3>2, <3>7, <3>8 DEF EnvelopeInv
  <2>3. CASE UNCHANGED wire
    BY <1>2, <2>3 DEF EnvelopeInv
  <2> QED BY <1>2, <2>1, <2>2, <2>3 DEF EnvelopeNext
<1> QED BY <1>1, <1>2, PTL DEF EnvelopeSpec

\* decodePayload opens an envelope as what encodePayload put into it, and does
\* not open one that lost its end, of every payload and every size of a block.
THEOREM EnvelopesOpen == EnvelopeSpec => []EnvelopeWhole
<1>1. ASSUME EnvelopeInv PROVE EnvelopeWhole
  <2>1. SUFFICES ASSUME wire.sent
        PROVE  Opened(wire.symbols)
                 = IF wire.symbols = Encoded(Stored(wire.payload))
                   THEN wire.payload ELSE Corrupt
    BY DEF EnvelopeWhole
  <2>2. PICK p \in Payload, c \in Seq(Sextet) :
          p = wire.payload /\ c = wire.symbols /\ Start(c, p)
    BY <1>1, <2>1 DEF EnvelopeInv
  <2>3. PICK s \in Seq(Octet), e \in Seq(Sextet) :
          /\ s = Stored(p) /\ e = Encoded(s) /\ Len(e) = Symbols(Len(s))
    BY PayloadIs
  <2>4. PICK l \in Nat : l <= Len(e) /\ c = SubSeq(e, 1, l)
    BY <2>2, <2>3 DEF Start
  <2>5. Len(c) = l /\ Len(e) \in Nat /\ (c = e <=> l = Len(e))
    <3>1. Len(SubSeq(e, 1, l)) = l /\ SubSeq(e, 1, Len(e)) = e
      BY <2>4
    <3>2. Len(e) \in Nat
      OBVIOUS
    <3>3. Len(c) = l /\ (l = Len(e) => c = e)
      BY <2>4, <3>1, Zenon
    <3>4. c = e => l = Len(e)
      BY <3>3, Zenon
    <3> QED BY <3>2, <3>3, <3>4
  <2>6. PICK n \in Nat : n = Len(s)
    OBVIOUS
  <2>7. /\ l % 4 = 1 => Decoded(c) = Corrupt
        /\ l % 4 # 1 => Octets(l) \in 0..n /\ Decoded(c) = SubSeq(s, 1, Octets(l))
    BY <2>3, <2>4, <2>6, DecodedIs
  <2>8. l = Len(e) => l % 4 # 1 /\ Octets(l) = n
    BY <2>3, <2>6, Lengths
  <2>9. l # Len(e) /\ l % 4 # 1 => Octets(l) # n
    <3>1. ASSUME l # Len(e), l % 4 # 1 PROVE Octets(l) # n
      <4>1. l < Symbols(n)
        BY <2>3, <2>4, <2>5, <2>6, <3>1
      <4>2. Octets(l) \in Nat /\ Octets(l) < n
        BY <3>1, <4>1, Lengths
      <4> QED BY <4>2
    <3> QED BY <3>1
  <2>10. p \in Seq(Octet)
    BY PayloadIs
  <2>11. ASSUME NEW k \in 0..n
         PROVE  /\ Inflated(SubSeq(s, 1, k)) = IF k = n THEN p ELSE Corrupt
                /\ SubSeq(s, 1, k) # Corrupt
    <3>1. SubSeq(s, 1, k) \in Seq(Octet)
      BY <2>6
    <3> QED BY <2>3, <2>6, <2>10, <3>1, StoredReadBack, NotCorrupt
  <2>12. CASE l % 4 = 1
    BY <2>2, <2>3, <2>5, <2>7, <2>8, <2>12 DEF Opened
  <2>13. CASE l % 4 # 1
    <3>1. PICK k \in 0..n : k = Octets(l) /\ Decoded(c) = SubSeq(s, 1, k)
      BY <2>7, <2>13
    <3>2. Opened(c) = IF k = n THEN p ELSE Corrupt
      BY <2>11, <3>1 DEF Opened
    <3>3. k = n <=> c = e
      BY <2>5, <2>8, <2>9, <2>13, <3>1
    <3> QED BY <2>2, <2>3, <3>2, <3>3
  <2> QED BY <2>12, <2>13
<1> QED BY <1>1, EnvelopeInvHolds, PTL
=============================================================================
