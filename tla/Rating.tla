------------------------------- MODULE Rating -------------------------------
(***************************************************************************)
(* Community Elo (packages/rating/src/rating.ts) and the ladder members a  *)
(* generation is made of (replay.ts, buildGeneration).                     *)
(*                                                                         *)
(* replay goes through the series of one season in the order the server    *)
(* received them.  Ratings are integers; the expected score, a real number *)
(* in the code, is a table in parts of Unit, and weights are counted in    *)
(* quarters.  The season, the pool and the bracket of a ladder  *)
(* key are left out: there is one of each.                                 *)
(***************************************************************************)
EXTENDS Integers, SequencesExt

CONSTANTS
  Character,     \* characters, numbered in the order of their ids
  Owner,         \* the account of each character
  Class,         \* the class of each character
  Initial,       \* INITIAL
  K,             \* K_MILLI
  Week,          \* WEEK
  Unit,          \* the certain score
  Clamp,         \* a lead beyond which the expected score stays the same
  Expected       \* the expected score of a player whose opponent leads by the argument

ASSUME RatingAssumption ==
  /\ Character \subseteq Nat
  /\ DOMAIN Owner = Character /\ DOMAIN Class = Character
  /\ {Initial, K, Week, Unit, Clamp} \subseteq Nat \ {0}
  /\ Expected \in [-Clamp..Clamp -> 0..Unit]
  /\ \A d \in 0..Clamp : Expected[d] + Expected[-d] = Unit

\* An event: a series as deriveEvent hands it to replay.  `score` is A's, in halves.
Event == [id: Nat, seq: Nat, seen: Nat, ladder: {"open", "mirror"},
          a: Character, b: Character, score: 0..2, eligible: BOOLEAN]

Distance(x) == IF x < 0 THEN -x ELSE x

\* num / den to the nearest integer, half away from zero.
RoundAway(num, den) ==
  LET magnitude == (2 * Distance(num) + den) \div (2 * den)
  IN IF num < 0 THEN -magnitude ELSE magnitude

\* PAIR_WEIGHTS.
WeightFor(prior) ==
  IF prior = 0 THEN 4 ELSE IF prior = 1 THEN 2 ELSE IF prior = 2 THEN 1 ELSE 0

\* update: what A gains and B loses.
Clamped(d) == IF d < -Clamp THEN -Clamp ELSE IF d > Clamp THEN Clamp ELSE d
Gain(a, b, score, weight) ==
  RoundAway(K * weight * (score * Unit - 2 * Expected[Clamped(b - a)]), 8 * Unit)

LadderKey(e) == <<e.ladder, IF e.ladder = "mirror" THEN Class[e.a] ELSE 0>>

\* Mutant of PairOf: the repeat counter is kept for each pair of characters.
PairOfCharacters(e) == {e.a, e.b}
\* pairKeyOf: characters of one account share their repeats.
PairOf(e) == {Owner[e.a], Owner[e.b]}

\* validateEvent and the duplicate test; any of these aborts the whole replay.
Replayable(events) ==
  /\ \A i, j \in DOMAIN events :
       i # j => events[i].id # events[j].id /\ events[i].seq # events[j].seq
  /\ \A i \in DOMAIN events :
       /\ events[i].a < events[i].b
       /\ events[i].ladder = "mirror" => Class[events[i].a] = Class[events[i].b]

\* Mutant of Before: ties keep the order of the input.
BeforeSeen(x, y) == x.seen < y.seen
Before(x, y) == x.seen < y.seen \/ (x.seen = y.seen /\ x.seq < y.seq)

\* Series of the pair in the week before, positive or not.
PriorCount(ledger, e) ==
  Cardinality({i \in DOMAIN ledger : /\ PairOf(ledger[i].event) = PairOf(e)
                                     /\ ledger[i].event.seen > e.seen - Week})

\* The rating of a character on a ladder after the last entry that changed it.
RatingIn(ledger, key, c) ==
  LET own == {i \in DOMAIN ledger : /\ LadderKey(ledger[i].event) = key
                                    /\ c \in {ledger[i].event.a, ledger[i].event.b}}
      last == ledger[Max(own)]
  IN IF own = {} THEN Initial ELSE IF c = last.event.a THEN last.a ELSE last.b

\* One pass of replay's loop.
Counted(e) == e.eligible /\ Owner[e.a] # Owner[e.b]
Rate(ledger, e) ==
  LET weight == WeightFor(PriorCount(ledger, e))
      a == RatingIn(ledger, LadderKey(e), e.a)
      b == RatingIn(ledger, LadderKey(e), e.b)
      gain == Gain(a, b, e.score, weight)
  IN IF Counted(e)
     THEN Append(ledger, [event |-> e, weight |-> weight, a |-> a + gain, b |-> b - gain])
     ELSE ledger

\* The stable sort: what comes before event i, which keeps its place among equals.
Earlier(events, i) ==
  LET e == events[i] IN
  {j \in DOMAIN events : Before(events[j], e) \/ (j < i /\ ~Before(e, events[j]))}
Sorted(events) ==
  [k \in DOMAIN events |->
     events[CHOOSE i \in DOMAIN events : Cardinality(Earlier(events, i)) = k - 1]]

\* replay: the ledger of a season, `after` the first n events.
Replay(events) ==
  LET sorted == Sorted(events)
      after[n \in 0..Len(sorted)] == IF n = 0 THEN <<>> ELSE Rate(after[n - 1], sorted[n])
  IN after[Len(sorted)]

\* buildGeneration: a row of ladder_members for everyone in the ledger.
Members(ledger) ==
  LET entries == Range(ledger)
      Of(key, c) == {l \in entries : LadderKey(l.event) = key /\ c \in {l.event.a, l.event.b}}
      Positive(key, c) == {l \in Of(key, c) : l.weight > 0}
      Opponent(l, c) == Owner[IF c = l.event.a THEN l.event.b ELSE l.event.a]
  IN {[key |-> x[1], character |-> x[2],
       rating |-> RatingIn(ledger, x[1], x[2]),
       series |-> Cardinality(Positive(x[1], x[2])),
       opponents |-> Cardinality({Opponent(l, x[2]) : l \in Positive(x[1], x[2])})]
      : x \in UNION {{<<LadderKey(l.event), l.event.a>>, <<LadderKey(l.event), l.event.b>>}
                     : l \in entries}}
=============================================================================
