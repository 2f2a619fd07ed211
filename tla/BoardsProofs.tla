---------------------------- MODULE BoardsProofs ----------------------------
(***************************************************************************)
(* Theorems about Rating and Boards, for every pool of matches, every      *)
(* table of expected scores and every placement: what replay makes of the  *)
(* settled matches, and what the site shows of it.                         *)
(***************************************************************************)
EXTENDS Boards, FiniteSetTheorems, TLAPS

-----------------------------------------------------------------------------
(***************************************************************************)
(* Counting and ranking.                                                   *)
(***************************************************************************)

\* A set of naturals that is not empty has a least element.
LEMMA LeastExists ==
  ASSUME NEW T, T \subseteq Nat, T # {}
  PROVE  \E x \in T : \A y \in T : x <= y
<1>1. \E x \in T : \A y \in T : <<y, x>> \notin OpToRel(<, Nat)
  BY WFMin, NatLessThanWellFounded, Zenon
<1>2. PICK x \in T : \A y \in T : <<y, x>> \notin OpToRel(<, Nat)
  BY <1>1
<1>3. \A y \in T : ~(y < x)
  BY <1>2 DEF OpToRel
<1> QED BY <1>3

\* And one that is bounded has a greatest.
LEMMA GreatestExists ==
  ASSUME NEW T, T \subseteq Nat, T # {}, NEW n \in Nat, \A y \in T : y <= n
  PROVE  \E x \in T : \A y \in T : y <= x
<1> DEFINE Missing == {n - y : y \in T}
<1>1. Missing \subseteq Nat /\ Missing # {}
  <2>1. \A y \in T : n - y \in Nat
    OBVIOUS
  <2> QED BY <2>1
<1>2. PICK d \in Missing : \A e \in Missing : d <= e
  BY <1>1, LeastExists
<1>3. PICK x \in T : d = n - x
  BY <1>2
<1>4. \A y \in T : n - x <= n - y
  BY <1>2, <1>3
<1> QED BY <1>4

\* The relation of a strict order, and of one that leaves no ties.
PartialOrder(S, R) ==
  /\ \A x \in S : <<x, x>> \notin R
  /\ \A x, y, z \in S : <<x, y>> \in R /\ <<y, z>> \in R => <<x, z>> \in R
StrictOrder(S, R) ==
  /\ PartialOrder(S, R)
  /\ \A x, y \in S : x # y => <<x, y>> \in R \/ <<y, x>> \in R

Below(S, R, x) == {y \in S : <<y, x>> \in R}

\* What is below in a strict order has fewer elements below itself.
LEMMA FewerBelow ==
  ASSUME NEW S, NEW R, IsFiniteSet(S), PartialOrder(S, R), NEW x \in S, NEW y \in S,
         <<x, y>> \in R
  PROVE  /\ Cardinality(Below(S, R, x)) \in Nat /\ Cardinality(Below(S, R, y)) \in Nat
         /\ Cardinality(Below(S, R, x)) < Cardinality(Below(S, R, y))
<1> DEFINE X == Below(S, R, x)
           Y == Below(S, R, y)
<1>1. X \subseteq Y /\ x \in Y /\ x \notin X /\ Y \subseteq S
  BY DEF Below, PartialOrder
<1> HIDE DEF X, Y
<1>2. IsFiniteSet(Y)
  BY <1>1, FS_Subset
<1>3. IsFiniteSet(X) /\ Cardinality(X) <= Cardinality(Y) /\ (Cardinality(Y) = Cardinality(X) => Y = X)
  BY <1>1, <1>2, FS_Subset
<1>4. Cardinality(X) \in Nat /\ Cardinality(Y) \in Nat
  BY <1>2, <1>3, FS_CardinalityType
<1>5. Cardinality(X) < Cardinality(Y)
  BY <1>1, <1>3, <1>4
<1> QED BY <1>4, <1>5 DEF X, Y

\* In a finite strict order every rank is taken, by one element.
LEMMA OneOfEachRank ==
  ASSUME NEW S, NEW R, IsFiniteSet(S), StrictOrder(S, R)
  PROVE  /\ Cardinality(S) \in Nat
         /\ \A x \in S : Cardinality(Below(S, R, x)) \in 0..Cardinality(S) - 1
         /\ \A x, y \in S : Cardinality(Below(S, R, x)) = Cardinality(Below(S, R, y)) => x = y
         /\ \A k \in 1..Cardinality(S) : \E x \in S : Cardinality(Below(S, R, x)) = k - 1
<1> DEFINE n == Cardinality(S)
           f == [x \in S |-> Cardinality(Below(S, R, x))]
<1>1. n \in Nat
  BY FS_CardinalityType
<1>2. ASSUME NEW x \in S
      PROVE  f[x] \in 0..n - 1
  <2> DEFINE X == Below(S, R, x)
  <2>1. X \in SUBSET S /\ x \notin X
    BY DEF Below, StrictOrder, PartialOrder
  <2> HIDE DEF X
  <2>2. IsFiniteSet(X) /\ Cardinality(X) <= Cardinality(S) /\ (Cardinality(S) = Cardinality(X) => S = X)
    BY <2>1, FS_Subset
  <2>3. Cardinality(X) \in Nat
    BY <2>2, FS_CardinalityType
  <2>4. Cardinality(X) < n
    BY <1>1, <2>1, <2>2, <2>3
  <2> QED BY <1>1, <2>3, <2>4 DEF X
<1>3. ASSUME NEW x \in S, NEW y \in S, f[x] = f[y], x # y
      PROVE  FALSE
  <2>1. CASE <<x, y>> \in R
    BY <1>3, <2>1, FewerBelow DEF StrictOrder
  <2>2. CASE <<y, x>> \in R
    BY <1>3, <2>2, FewerBelow DEF StrictOrder
  <2> QED BY <1>3, <2>1, <2>2 DEF StrictOrder
<1> DEFINE T == 0..n - 1
<1>4. f \in Injection(S, T)
  <2>1. f \in [S -> T]
    BY <1>2
  <2> QED BY <2>1, <1>3 DEF Injection, IsInjective
<1>5. 0 \in Int /\ n - 1 \in Int
  BY <1>1
<1>6. IsFiniteSet(T) /\ Cardinality(T) = n
  <2>1. IsFiniteSet(T) /\ Cardinality(T) = IF 0 > n - 1 THEN 0 ELSE n - 1 - 0 + 1
    BY <1>5, FS_Interval
  <2> QED BY <2>1, <1>1
<1> HIDE DEF T, f
<1>7. f \in Surjection(S, T)
  BY <1>4, <1>6, FS_Injection DEF n
<1>8. \A t \in T : \E x \in S : f[x] = t
  BY <1>7 DEF Surjection
<1>9. ASSUME NEW k \in 1..n PROVE \E x \in S : Cardinality(Below(S, R, x)) = k - 1
  <2>1. k - 1 \in T
    BY <1>1 DEF T
  <2> QED BY <2>1, <1>8 DEF f
<1> QED BY <1>1, <1>2, <1>3, <1>9 DEF f

\* So one element comes after all the others.
LEMMA LastExists ==
  ASSUME NEW S, NEW R, IsFiniteSet(S), StrictOrder(S, R), S # {}
  PROVE  \E x \in S : \A y \in S : y = x \/ <<y, x>> \in R
<1>1. Cardinality(S) \in Nat /\ Cardinality(S) # 0
  BY FS_CardinalityType, FS_EmptySet
<1>2. PICK x \in S : Cardinality(Below(S, R, x)) = Cardinality(S) - 1
  BY <1>1, OneOfEachRank
<1>3. ASSUME NEW y \in S, y # x, <<y, x>> \notin R PROVE FALSE
  <2>1. <<x, y>> \in R
    BY <1>3 DEF StrictOrder
  <2>2. Cardinality(Below(S, R, x)) < Cardinality(Below(S, R, y))
    BY <2>1, FewerBelow DEF StrictOrder
  <2>3. Cardinality(Below(S, R, y)) \in 0..Cardinality(S) - 1
    BY OneOfEachRank
  <2> QED BY <1>1, <1>2, <2>2, <2>3
<1> QED BY <1>3

LEMMA GreatestOfFinite ==
  ASSUME NEW S, S \subseteq Nat, IsFiniteSet(S), S # {}
  PROVE  \E x \in S : \A y \in S : y <= x
<1> DEFINE R == {z \in S \X S : z[1] < z[2]}
<1>1. StrictOrder(S, R)
  <2>1. \A x, y \in S : <<x, y>> \in R <=> x < y
    OBVIOUS
  <2> HIDE DEF R
  <2> QED BY <2>1 DEF StrictOrder, PartialOrder
<1>2. \A x, y \in S : <<x, y>> \in R => x < y
  OBVIOUS
<1> HIDE DEF R
<1>3. PICK x \in S : \A y \in S : y = x \/ <<y, x>> \in R
  BY <1>1, LastExists
<1>4. \A y \in S : y = x \/ y < x
  BY <1>2, <1>3
<1>5. x \in Nat /\ \A y \in S : y \in Nat
  OBVIOUS
<1>6. \A y \in S : y <= x
  BY <1>4, <1>5
<1> QED BY <1>6

-----------------------------------------------------------------------------
(***************************************************************************)
(* The order of the events.                                                *)
(***************************************************************************)

\* That event j comes before event i in the stable sort.
InOrder(events) ==
  {p \in (DOMAIN events) \X (DOMAIN events) : p[1] \in Earlier(events, p[2])}

LEMMA EarlierIsBelow ==
  ASSUME NEW events, NEW i \in DOMAIN events
  PROVE  Earlier(events, i) = Below(DOMAIN events, InOrder(events), i)
BY DEF InOrder, Below, Earlier

LEMMA EventFields ==
  ASSUME NEW e \in Event
  PROVE  /\ e.seen \in Nat /\ e.seq \in Nat /\ e.a \in Character /\ e.b \in Character
         /\ e.score \in 0..2
BY DEF Event

LEMMA StableOrder ==
  ASSUME NEW events \in Seq(Event)
  PROVE  StrictOrder(DOMAIN events, InOrder(events))
<1> DEFINE D == DOMAIN events
           R == InOrder(events)
<1>1. /\ \A i \in D : i \in Nat
      /\ \A i \in D : events[i].seen \in Nat /\ events[i].seq \in Nat
  BY EventFields
<1>2. \A j, i \in D : <<j, i>> \in R <=>
        (Before(events[j], events[i]) \/ (j < i /\ ~Before(events[i], events[j])))
  BY DEF InOrder, Earlier
<1> HIDE DEF D, R
<1>3. \A x \in D : <<x, x>> \notin R
  BY <1>1, <1>2 DEF Before
<1>4. \A x, y \in D : x # y => <<x, y>> \in R \/ <<y, x>> \in R
  BY <1>1, <1>2 DEF Before
<1>5. ASSUME NEW x \in D, NEW y \in D, NEW z \in D, <<x, y>> \in R, <<y, z>> \in R
      PROVE  <<x, z>> \in R
  <2>1. /\ x \in Nat /\ y \in Nat /\ z \in Nat
        /\ events[x].seen \in Nat /\ events[y].seen \in Nat /\ events[z].seen \in Nat
        /\ events[x].seq \in Nat /\ events[y].seq \in Nat /\ events[z].seq \in Nat
    BY <1>1
  <2>2. /\ Before(events[x], events[y]) \/ (x < y /\ ~Before(events[y], events[x]))
        /\ Before(events[y], events[z]) \/ (y < z /\ ~Before(events[z], events[y]))
    BY <1>2, <1>5
  <2>3. PICK s \in Nat, t \in Nat, u \in Nat, p \in Nat, q \in Nat, r \in Nat :
          /\ s = events[x].seen /\ t = events[y].seen /\ u = events[z].seen
          /\ p = events[x].seq /\ q = events[y].seq /\ r = events[z].seq
    BY <2>1
  <2>4. /\ (s < t \/ (s = t /\ p < q)) \/ (x < y /\ ~(t < s \/ (t = s /\ q < p)))
        /\ (t < u \/ (t = u /\ q < r)) \/ (y < z /\ ~(u < t \/ (u = t /\ r < q)))
    BY <2>2, <2>3 DEF Before
  <2>5. (s < u \/ (s = u /\ p < r)) \/ (x < z /\ ~(u < s \/ (u = s /\ r < p)))
    BY <2>1, <2>4
  <2>6. Before(events[x], events[z]) \/ (x < z /\ ~Before(events[z], events[x]))
    BY <2>3, <2>5 DEF Before
  <2> QED BY <1>2, <2>6
<1> QED BY <1>3, <1>4, <1>5 DEF StrictOrder, PartialOrder, D, R

\* The place of the sort at which an event is: one event for each place.
LEMMA Places ==
  ASSUME NEW events \in Seq(Event)
  PROVE  /\ \A k \in DOMAIN events : \E i \in DOMAIN events : Cardinality(Earlier(events, i)) = k - 1
         /\ \A i, j \in DOMAIN events :
              Cardinality(Earlier(events, i)) = Cardinality(Earlier(events, j)) => i = j
         /\ \A i \in DOMAIN events : /\ Cardinality(Earlier(events, i)) \in Nat
                                    /\ Cardinality(Earlier(events, i)) + 1 \in DOMAIN events
<1> DEFINE D == DOMAIN events
           R == InOrder(events)
           n == Len(events)
<1>1. n \in Nat /\ D = 1..n
  OBVIOUS
<1>2. IsFiniteSet(D) /\ Cardinality(D) = n
  <2>1. 1 \in Int /\ n \in Int
    BY <1>1
  <2>2. IsFiniteSet(1..n) /\ Cardinality(1..n) = IF 1 > n THEN 0 ELSE n - 1 + 1
    BY <2>1, FS_Interval
  <2> QED BY <1>1, <2>2
<1>3. StrictOrder(D, R)
  BY StableOrder
<1>4. \A i \in D : Earlier(events, i) = Below(D, R, i)
  BY EarlierIsBelow
<1> HIDE DEF D, R
<1>5. /\ \A x \in D : Cardinality(Below(D, R, x)) \in 0..n - 1
      /\ \A x, y \in D : Cardinality(Below(D, R, x)) = Cardinality(Below(D, R, y)) => x = y
      /\ \A k \in 1..n : \E x \in D : Cardinality(Below(D, R, x)) = k - 1
  BY <1>2, <1>3, OneOfEachRank
<1>6. ASSUME NEW i \in D
      PROVE  Cardinality(Earlier(events, i)) \in Nat /\ Cardinality(Earlier(events, i)) + 1 \in 1..n
  <2>1. PICK c \in 0..n - 1 : c = Cardinality(Earlier(events, i))
    BY <1>4, <1>5
  <2> QED BY <1>1, <2>1
<1> QED BY <1>1, <1>4, <1>5, <1>6 DEF D

\* Sorting keeps the events, each at the place that is its own.
LEMMA SortedPlaces ==
  ASSUME NEW events \in Seq(Event)
  PROVE  /\ Sorted(events) \in Seq(Event) /\ Len(Sorted(events)) = Len(events)
         /\ \A k \in DOMAIN events : \E i \in DOMAIN events :
              /\ Cardinality(Earlier(events, i)) = k - 1
              /\ Sorted(events)[k] = events[i]
         /\ \A i \in DOMAIN events :
              Sorted(events)[Cardinality(Earlier(events, i)) + 1] = events[i]
<1> DEFINE D == DOMAIN events
           At(k) == CHOOSE i \in D : Cardinality(Earlier(events, i)) = k - 1
<1>1. D = 1..Len(events) /\ Len(events) \in Nat
  OBVIOUS
<1>2. Sorted(events) = [k \in D |-> events[At(k)]]
  BY DEF Sorted
<1>3. \A k \in D : At(k) \in D /\ Cardinality(Earlier(events, At(k))) = k - 1
  BY Places
<1> HIDE DEF At
<1>4. \A k \in D : Sorted(events)[k] = events[At(k)] /\ events[At(k)] \in Event
  BY <1>2, <1>3
<1>5. Sorted(events) \in [1..Len(events) -> Event]
  BY <1>1, <1>2, <1>4
<1>6. ASSUME NEW i \in D
      PROVE  Sorted(events)[Cardinality(Earlier(events, i)) + 1] = events[i]
  <2> DEFINE k == Cardinality(Earlier(events, i)) + 1
  <2>1. k \in D
    BY Places
  <2>2. k \in Nat
    BY <1>1, <2>1
  <2>3. Cardinality(Earlier(events, At(k))) = k - 1 /\ At(k) \in D
    BY <1>3, <2>1
  <2> HIDE DEF D
  <2>4. k - 1 = Cardinality(Earlier(events, i))
    <3>1. PICK c \in Nat : c = Cardinality(Earlier(events, i))
      BY Places DEF D
    <3> QED BY <3>1
  <2>5. At(k) = i
    BY <2>3, <2>4, Places DEF D
  <2> QED BY <1>4, <2>1, <2>5
<1> QED BY <1>1, <1>3, <1>4, <1>5, <1>6

\* With receipts of their own the events are sorted in one way, however they
\* are listed.
LEMMA SortedOrderFree ==
  ASSUME NEW events \in Seq(Event), NEW other \in Seq(Event),
         DOMAIN other = DOMAIN events,
         NEW p \in Bijection(DOMAIN events, DOMAIN events),
         \A i \in DOMAIN events : other[i] = events[p[i]],
         \A i, j \in DOMAIN events : i # j => events[i].seq # events[j].seq
  PROVE  Sorted(other) = Sorted(events)
<1> DEFINE D == DOMAIN events
<1>1. /\ \A i \in D : i \in Nat /\ p[i] \in D
      /\ \A i, j \in D : p[i] = p[j] => i = j
      /\ \A j \in D : \E i \in D : p[i] = j
  BY DEF Bijection, Injection, Surjection, IsInjective
<1>2. \A i \in D : events[i].seen \in Nat /\ events[i].seq \in Nat
  BY EventFields
<1>3. \A i, j \in D : j \in Earlier(events, i) <=> Before(events[j], events[i])
  <2>1. ASSUME NEW i \in D, NEW j \in D
        PROVE  j \in Earlier(events, i) <=> Before(events[j], events[i])
    <3>1. j \in Earlier(events, i) <=> \/ Before(events[j], events[i])
                                       \/ j < i /\ ~Before(events[i], events[j])
      BY DEF Earlier
    <3>2. i \in Nat /\ j \in Nat /\ (i # j => events[i].seq # events[j].seq)
      BY <1>1
    <3>3. PICK s \in Nat, t \in Nat, q \in Nat, r \in Nat :
            /\ s = events[i].seen /\ t = events[j].seen
            /\ q = events[i].seq /\ r = events[j].seq
      BY <1>2
    <3> QED BY <3>1, <3>2, <3>3 DEF Before
  <2> QED BY <2>1
<1>4. \A i, j \in D : j \in Earlier(other, i) <=> Before(events[p[j]], events[p[i]])
  <2>1. ASSUME NEW i \in D, NEW j \in D
        PROVE  j \in Earlier(other, i) <=> Before(events[p[j]], events[p[i]])
    <3>1. j \in Earlier(other, i) <=> \/ Before(events[p[j]], events[p[i]])
                                      \/ j < i /\ ~Before(events[p[i]], events[p[j]])
      BY DEF Earlier
    <3>2. /\ p[i] \in D /\ p[j] \in D /\ i \in Nat /\ j \in Nat
          /\ i # j => events[p[i]].seq # events[p[j]].seq
      BY <1>1
    <3>3. PICK s \in Nat, t \in Nat, q \in Nat, r \in Nat :
            /\ s = events[p[i]].seen /\ t = events[p[j]].seen
            /\ q = events[p[i]].seq /\ r = events[p[j]].seq
      BY <1>2, <3>2
    <3> QED BY <3>1, <3>2, <3>3 DEF Before
  <2> QED BY <2>1
<1>5. ASSUME NEW i \in D
      PROVE  Cardinality(Earlier(other, i)) = Cardinality(Earlier(events, p[i]))
  <2> DEFINE A == Earlier(other, i)
             B == Earlier(events, p[i])
             f == [j \in A |-> p[j]]
  <2>1. A \subseteq D /\ B \subseteq D /\ p[i] \in D
    BY <1>1 DEF Earlier
  <2>2. \A j \in D : j \in A <=> p[j] \in B
    BY <1>1, <1>3, <1>4
  <2> HIDE DEF A, B
  <2>3. f \in [A -> B] /\ \A x, y \in A : f[x] = f[y] => x = y
    BY <1>1, <2>1, <2>2
  <2>4. ASSUME NEW b \in B PROVE \E a \in A : f[a] = b
    <3>1. PICK a \in D : p[a] = b
      BY <1>1, <2>1
    <3>2. a \in A
      BY <2>2, <3>1
    <3> QED BY <3>1, <3>2
  <2>5. f \in Bijection(A, B)
    BY <2>3, <2>4, Zenon DEF Bijection, Injection, Surjection, IsInjective
  <2>6. IsFiniteSet(A)
    <3>1. 1 \in Int /\ Len(events) \in Int /\ D = 1..Len(events)
      OBVIOUS
    <3>2. IsFiniteSet(1..Len(events))
      BY <3>1, FS_Interval
    <3> QED BY <2>1, <3>1, <3>2, FS_Subset
  <2>7. Cardinality(B) = Cardinality(A)
    BY <2>5, <2>6, FS_Bijection DEF ExistsBijection
  <2> QED BY <2>7 DEF A, B
<1>6. ASSUME NEW k \in D
      PROVE  Sorted(other)[k] = Sorted(events)[k]
  <2>1. PICK i \in D : Cardinality(Earlier(other, i)) = k - 1 /\ Sorted(other)[k] = other[i]
    BY SortedPlaces
  <2>2. p[i] \in D /\ Cardinality(Earlier(events, p[i])) = k - 1 /\ k \in Nat
    BY <1>1, <1>5, <2>1
  <2>3. Sorted(events)[Cardinality(Earlier(events, p[i])) + 1] = events[p[i]]
    BY <2>2, SortedPlaces
  <2>4. Cardinality(Earlier(events, p[i])) + 1 = k
    BY <2>2
  <2> QED BY <2>1, <2>3, <2>4
<1>7. /\ Sorted(other) \in Seq(Event) /\ Sorted(events) \in Seq(Event)
      /\ Len(Sorted(other)) = Len(Sorted(events)) /\ D = 1..Len(Sorted(events))
  <2>1. Len(other) = Len(events)
    OBVIOUS
  <2> QED BY <2>1, SortedPlaces
<1> QED BY <1>6, <1>7

-----------------------------------------------------------------------------
(***************************************************************************)
(* One pass after the other.                                               *)
(***************************************************************************)

\* `after` holds the ledgers after the first 0..m events of s.
Passes(after, s, m) ==
  after = [n \in 0..m |-> IF n = 0 THEN <<>> ELSE Rate(after[n - 1], s[n])]

LEMMA PassesExist ==
  ASSUME NEW s, NEW m \in Nat
  PROVE  \E after : Passes(after, s, m)
<1> DEFINE Bad == {n \in Nat : ~\E after : Passes(after, s, n)}
<1>1. SUFFICES ASSUME Bad # {} PROVE FALSE
  OBVIOUS
<1>2. Bad \subseteq Nat
  OBVIOUS
<1> HIDE DEF Bad
<1>3. PICK b \in Bad : \A n \in Bad : b <= n
  BY <1>1, <1>2, LeastExists
<1>4. b \in Nat
  BY <1>2
<1>5. CASE b = 0
  <2> DEFINE f == [n \in 0..0 |-> <<>>]
  <2>1. f = [n \in 0..0 |-> IF n = 0 THEN <<>> ELSE Rate(f[n - 1], s[n])]
    OBVIOUS
  <2>2. Passes(f, s, 0)
    BY <2>1 DEF Passes
  <2> QED BY <1>3, <1>5, <2>2 DEF Bad
<1>6. CASE b # 0
  <2>1. b - 1 \in Nat /\ b - 1 \notin Bad
    BY <1>3, <1>4, <1>6
  <2>2. PICK f : Passes(f, s, b - 1)
    BY <2>1 DEF Bad
  <2> DEFINE g == [n \in 0..b |-> IF n = b THEN Rate(f[b - 1], s[b]) ELSE f[n]]
  <2>3. ASSUME NEW n \in 0..b
        PROVE  g[n] = IF n = 0 THEN <<>> ELSE Rate(g[n - 1], s[n])
    <3>0. f = [i \in 0..b - 1 |-> IF i = 0 THEN <<>> ELSE Rate(f[i - 1], s[i])]
      BY <2>2 DEF Passes
    <3>1. CASE n = b
      <4>1. b - 1 \in 0..b /\ b - 1 # b
        BY <1>4, <1>6
      <4>2. g[b] = Rate(f[b - 1], s[b]) /\ g[b - 1] = f[b - 1]
        BY <1>4, <4>1
      <4> QED BY <1>6, <3>1, <4>2
    <3>2. CASE n # b
      <4>1. n \in 0..b - 1
        BY <1>4, <3>2
      <4>2. f[n] = IF n = 0 THEN <<>> ELSE Rate(f[n - 1], s[n])
        BY <3>0, <4>1
      <4>3. g[n] = f[n]
        BY <3>2
      <4>4. n # 0 => n - 1 \in 0..b /\ n - 1 # b
        BY <1>4, <4>1
      <4>5. n # 0 => g[n - 1] = f[n - 1]
        BY <4>4
      <4> HIDE DEF g
      <4> QED BY <4>2, <4>3, <4>5
    <3> QED BY <3>1, <3>2
  <2>4. g = [n \in 0..b |-> g[n]]
    OBVIOUS
  <2> HIDE DEF g
  <2>5. g = [n \in 0..b |-> IF n = 0 THEN <<>> ELSE Rate(g[n - 1], s[n])]
    BY <2>3, <2>4
  <2>6. Passes(g, s, b)
    BY <2>5 DEF Passes
  <2> QED BY <1>3, <2>6 DEF Bad
<1> QED BY <1>5, <1>6

\* replay is what its last pass leaves.
LEMMA ReplayPasses ==
  ASSUME NEW events, Len(Sorted(events)) \in Nat
  PROVE  \E after : /\ Passes(after, Sorted(events), Len(Sorted(events)))
                    /\ Replay(events) = after[Len(Sorted(events))]
<1> DEFINE s == Sorted(events)
           m == Len(s)
           h == CHOOSE after : after = [n \in 0..m |-> IF n = 0 THEN <<>> ELSE Rate(after[n - 1], s[n])]
<1>1. \E after : after = [n \in 0..m |-> IF n = 0 THEN <<>> ELSE Rate(after[n - 1], s[n])]
  BY PassesExist DEF Passes
<1>2. h = [n \in 0..m |-> IF n = 0 THEN <<>> ELSE Rate(h[n - 1], s[n])]
  BY <1>1
<1>3. Replay(events) = h[m]
  BY DEF Replay
<1> HIDE DEF h
<1> QED BY <1>2, <1>3 DEF Passes

-----------------------------------------------------------------------------
(***************************************************************************)
(* The ledger.                                                             *)
(***************************************************************************)

Entry == [event: Event, weight: Nat, a: Int, b: Int]

\* The entries before entry k of the same pair, in the week before it.
Recent(ledger, k) ==
  {i \in 1..k - 1 : /\ PairOf(ledger[i].event) = PairOf(ledger[k].event)
                    /\ ledger[i].event.seen > ledger[k].event.seen - Week}

\* Entries are of counted events of s, with the weight that those before give them.
LedgerOf(ledger, s) ==
  /\ ledger \in Seq(Entry)
  /\ \A k \in DOMAIN ledger :
       /\ ledger[k].event \in Range(s) /\ Counted(ledger[k].event)
       /\ ledger[k].weight = WeightFor(Cardinality(Recent(ledger, k)))

LEMMA Settings ==
  /\ Initial \in Nat /\ K \in Nat /\ Week \in Nat \ {0} /\ Unit \in Nat \ {0} /\ Clamp \in Nat
  /\ Expected \in [-Clamp..Clamp -> 0..Unit]
  /\ Character \subseteq Nat
BY RatingAssumption DEF RatingAssumption

LEMMA GreatestIn ==
  ASSUME NEW S, S \subseteq Nat, S # {}, NEW n \in Nat, \A y \in S : y <= n
  PROVE  Max(S) \in S /\ \A y \in S : y <= Max(S)
<1>1. \E x \in S : \A y \in S : x >= y
  BY GreatestExists
<1> QED BY <1>1 DEF Max

LEMMA RatingIsInt ==
  ASSUME NEW ledger \in Seq(Entry), NEW key, NEW c
  PROVE  RatingIn(ledger, key, c) \in Int
<1> DEFINE own == {i \in DOMAIN ledger : /\ LadderKey(ledger[i].event) = key
                                        /\ c \in {ledger[i].event.a, ledger[i].event.b}}
<1>1. own \subseteq DOMAIN ledger /\ DOMAIN ledger = 1..Len(ledger) /\ Len(ledger) \in Nat
  OBVIOUS
<1>2. RatingIn(ledger, key, c) = IF own = {} THEN Initial
                                ELSE IF c = ledger[Max(own)].event.a THEN ledger[Max(own)].a
                                ELSE ledger[Max(own)].b
  BY DEF RatingIn
<1> HIDE DEF own
<1>3. own # {} => Max(own) \in DOMAIN ledger
  <2>1. own \subseteq Nat /\ \A y \in own : y <= Len(ledger)
    BY <1>1
  <2> QED BY <1>1, <2>1, GreatestIn
<1>4. own # {} => ledger[Max(own)] \in Entry
  BY <1>3
<1>5. \A l \in Entry : l.a \in Int /\ l.b \in Int
  BY DEF Entry
<1> QED BY <1>2, <1>4, <1>5, Settings

LEMMA GainIsInt ==
  ASSUME NEW a \in Int, NEW b \in Int, NEW score \in 0..2, NEW weight \in Nat
  PROVE  Gain(a, b, score, weight) \in Int
<1>1. Clamped(b - a) \in -Clamp..Clamp
  BY Settings DEF Clamped
<1>2. PICK x \in 0..Unit : x = Expected[Clamped(b - a)]
  BY <1>1, Settings
<1>3. score * Unit - 2 * x \in Int /\ 8 * Unit \in Nat \ {0}
  BY Settings
<1>4. K * weight \in Int
  BY Settings
<1>5. K * weight * (score * Unit - 2 * x) \in Int
  BY <1>3, <1>4
<1>6. ASSUME NEW num \in Int, NEW den \in Nat \ {0}
      PROVE  RoundAway(num, den) \in Int
  <2>1. Distance(num) \in Int
    BY DEF Distance
  <2>2. (2 * Distance(num) + den) \div (2 * den) \in Int
    BY <2>1
  <2> QED BY <2>2 DEF RoundAway
<1> QED BY <1>2, <1>3, <1>5, <1>6 DEF Gain

LEMMA WeightIsNat == \A n : WeightFor(n) \in Nat
BY DEF WeightFor

\* One pass adds an entry that is as it should be, or nothing.
LEMMA RateKeeps ==
  ASSUME NEW ledger, NEW s, LedgerOf(ledger, s), NEW e \in Event, e \in Range(s)
  PROVE  LedgerOf(Rate(ledger, e), s)
<1>1. CASE ~Counted(e)
  BY <1>1 DEF Rate
<1>2. CASE Counted(e)
  <2>1. ledger \in Seq(Entry) /\ Len(ledger) \in Nat /\ DOMAIN ledger = 1..Len(ledger)
    BY DEF LedgerOf
  <2>2. PICK w \in Nat : w = WeightFor(PriorCount(ledger, e))
    BY WeightIsNat
  <2>3. PICK a \in Int, b \in Int : /\ a = RatingIn(ledger, LadderKey(e), e.a)
                                    /\ b = RatingIn(ledger, LadderKey(e), e.b)
    BY <2>1, RatingIsInt
  <2>4. e.score \in 0..2
    BY EventFields
  <2>5. PICK g \in Int : g = Gain(a, b, e.score, w)
    BY <2>4, GainIsInt
  <2>6. PICK l : l = [event |-> e, weight |-> w, a |-> a + g, b |-> b - g]
    OBVIOUS
  <2>7. l \in Entry /\ l.event = e /\ l.weight = w
    BY <2>6 DEF Entry
  <2>8. Rate(ledger, e) = Append(ledger, l)
    BY <1>2, <2>2, <2>3, <2>5, <2>6 DEF Rate
  <2>9. PICK new : new = Append(ledger, l)
    OBVIOUS
  <2>10. /\ new \in Seq(Entry) /\ Len(new) = Len(ledger) + 1
         /\ \A i \in 1..Len(ledger) : new[i] = ledger[i]
         /\ new[Len(ledger) + 1] = l
    BY <2>1, <2>7, <2>9
  <2>11. ASSUME NEW k \in DOMAIN new
         PROVE  /\ new[k].event \in Range(s) /\ Counted(new[k].event)
                /\ new[k].weight = WeightFor(Cardinality(Recent(new, k)))
    <3>1. CASE k \in 1..Len(ledger)
      <4>1. new[k] = ledger[k] /\ \A i \in 1..k - 1 : new[i] = ledger[i]
        BY <2>1, <2>10, <3>1
      <4>2. Recent(new, k) = Recent(ledger, k)
        BY <4>1 DEF Recent
      <4> QED BY <2>1, <3>1, <4>1, <4>2 DEF LedgerOf
    <3>2. CASE k = Len(ledger) + 1
      <4>1. 1..k - 1 = DOMAIN ledger
        BY <2>1, <3>2
      <4>2. \A i \in 1..k - 1 : new[i] = ledger[i]
        BY <2>1, <2>10, <4>1
      <4>3. new[k].event = e /\ new[k].weight = w
        BY <2>7, <2>10, <3>2
      <4>4. Recent(new, k) = {i \in DOMAIN ledger : /\ PairOf(ledger[i].event) = PairOf(e)
                                                   /\ ledger[i].event.seen > e.seen - Week}
        <5>1. Recent(new, k) = {i \in DOMAIN ledger : /\ PairOf(new[i].event) = PairOf(new[k].event)
                                                     /\ new[i].event.seen > new[k].event.seen - Week}
          BY <4>1 DEF Recent
        <5>2. \A i \in DOMAIN ledger : new[i] = ledger[i]
          BY <4>1, <4>2
        <5> QED BY <4>3, <5>1, <5>2
      <4>5. Cardinality(Recent(new, k)) = PriorCount(ledger, e)
        BY <4>4 DEF PriorCount
      <4> QED BY <1>2, <2>2, <4>3, <4>5
    <3>3. k \in 1..Len(ledger) \/ k = Len(ledger) + 1
      BY <2>1, <2>10
    <3> QED BY <3>1, <3>2, <3>3
  <2>12. LedgerOf(new, s)
    BY <2>10, <2>11 DEF LedgerOf
  <2> QED BY <2>8, <2>9, <2>12
<1> QED BY <1>1, <1>2

LEMMA PassesKeep ==
  ASSUME NEW s \in Seq(Event), NEW after, Passes(after, s, Len(s)), NEW n \in 0..Len(s)
  PROVE  LedgerOf(after[n], s)
<1> DEFINE m == Len(s)
           Bad == {i \in 0..m : ~LedgerOf(after[i], s)}
<1>1. SUFFICES ASSUME Bad # {} PROVE FALSE
  OBVIOUS
<1>2. m \in Nat /\ Bad \subseteq Nat
  OBVIOUS
<1>3. \A i \in 0..m : after[i] = IF i = 0 THEN <<>> ELSE Rate(after[i - 1], s[i])
  BY DEF Passes
<1> HIDE DEF Bad
<1>4. PICK b \in Bad : \A i \in Bad : b <= i
  BY <1>1, <1>2, LeastExists
<1>5. b \in 0..m /\ ~LedgerOf(after[b], s)
  BY <1>4 DEF Bad
<1>6. CASE b = 0
  <2>1. after[b] = <<>>
    BY <1>3, <1>5, <1>6
  <2>2. LedgerOf(<<>>, s)
    BY DEF LedgerOf
  <2> QED BY <1>5, <2>1, <2>2
<1>7. CASE b # 0
  <2>1. b - 1 \in 0..m /\ b - 1 < b /\ b \in 1..Len(s) /\ b \in Int
    BY <1>2, <1>5, <1>7
  <2>2. LedgerOf(after[b - 1], s)
    <3>1. b - 1 \notin Bad
      BY <1>4, <2>1
    <3> QED BY <2>1, <3>1 DEF Bad
  <2>3. s[b] \in Event /\ s[b] \in Range(s)
    BY <2>1 DEF Range
  <2>4. after[b] = Rate(after[b - 1], s[b])
    BY <1>3, <1>5, <1>7
  <2> QED BY <1>5, <2>2, <2>3, <2>4, RateKeeps
<1> QED BY <1>6, <1>7

LEMMA ReplayLedger ==
  ASSUME NEW events \in Seq(Event)
  PROVE  LedgerOf(Replay(events), events)
<1> DEFINE s == Sorted(events)
<1>1. s \in Seq(Event) /\ Len(s) = Len(events) /\ Len(s) \in Nat
  BY SortedPlaces
<1>2. \A k \in DOMAIN s : \E i \in DOMAIN events : s[k] = events[i]
  <2>1. DOMAIN s = DOMAIN events
    BY <1>1
  <2> QED BY <2>1, SortedPlaces
<1>3. PICK after : Passes(after, s, Len(s)) /\ Replay(events) = after[Len(s)]
  BY <1>1, ReplayPasses
<1> HIDE DEF s
<1>4. LedgerOf(Replay(events), s)
  BY <1>1, <1>3, PassesKeep
<1>5. Range(s) \subseteq Range(events)
  BY <1>2 DEF Range
<1> QED BY <1>4, <1>5 DEF LedgerOf

\* The fourth series of a pair within a week of the first has no weight.
LEMMA CapOfLedger ==
  ASSUME NEW ledger, NEW s, LedgerOf(ledger, s), NEW i \in DOMAIN ledger
  PROVE  Cardinality({j \in DOMAIN ledger :
            /\ PairOf(ledger[j].event) = PairOf(ledger[i].event)
            /\ ledger[j].weight > 0
            /\ ledger[j].event.seen >= ledger[i].event.seen
            /\ ledger[j].event.seen < ledger[i].event.seen + Week}) <= 3
<1> DEFINE M == {j \in DOMAIN ledger :
                   /\ PairOf(ledger[j].event) = PairOf(ledger[i].event)
                   /\ ledger[j].weight > 0
                   /\ ledger[j].event.seen >= ledger[i].event.seen
                   /\ ledger[j].event.seen < ledger[i].event.seen + Week}
<1>1. /\ ledger \in Seq(Entry) /\ Len(ledger) \in Nat /\ DOMAIN ledger = 1..Len(ledger)
      /\ \A j \in DOMAIN ledger : ledger[j].event.seen \in Nat
  <2>1. ledger \in Seq(Entry)
    BY DEF LedgerOf
  <2>2. \A l \in Entry : l.event \in Event
    BY DEF Entry
  <2> QED BY <2>1, <2>2, EventFields
<1>2. \A j \in M : /\ j \in 1..Len(ledger) /\ PairOf(ledger[j].event) = PairOf(ledger[i].event)
                   /\ ledger[j].weight > 0
                   /\ ledger[j].event.seen >= ledger[i].event.seen
                   /\ ledger[j].event.seen < ledger[i].event.seen + Week
  BY <1>1
<1> HIDE DEF M
<1>3. M \subseteq 1..Len(ledger) /\ IsFiniteSet(M) /\ Cardinality(M) \in Nat
  <2>1. 1 \in Int /\ Len(ledger) \in Int
    BY <1>1
  <2>2. IsFiniteSet(1..Len(ledger))
    BY <2>1, FS_Interval
  <2>3. M \subseteq 1..Len(ledger)
    BY <1>2
  <2>4. IsFiniteSet(M)
    BY <2>2, <2>3, FS_Subset
  <2> QED BY <2>3, <2>4, FS_CardinalityType
<1>4. ASSUME Cardinality(M) > 3 PROVE FALSE
  <2>1. M # {} /\ M \subseteq Nat /\ \A j \in M : j <= Len(ledger)
    BY <1>1, <1>3, <1>4, FS_EmptySet
  <2>2. PICK k \in M : \A j \in M : j <= k
    BY <1>1, <2>1, GreatestExists
  <2> DEFINE B == M \ {k}
             Q == Recent(ledger, k)
  <2>3. IsFiniteSet(B) /\ Cardinality(B) = Cardinality(M) - 1
    BY <1>3, <2>2, FS_RemoveElement
  <2>4. B \subseteq Q
    <3>1. SUFFICES ASSUME NEW j \in B PROVE j \in Q
      OBVIOUS
    <3>2. j \in 1..k - 1
      BY <1>3, <2>2, <3>1
    <3>3. PairOf(ledger[j].event) = PairOf(ledger[k].event)
      BY <1>2, <2>2, <3>1
    <3>4. ledger[j].event.seen > ledger[k].event.seen - Week
      <4>1. PICK x \in Nat, y \in Nat, z \in Nat :
              x = ledger[i].event.seen /\ y = ledger[j].event.seen /\ z = ledger[k].event.seen
        BY <1>1, <1>2, <2>2, <3>1
      <4>2. y >= x /\ z < x + Week
        BY <1>2, <2>2, <3>1, <4>1
      <4>3. y > z - Week
        BY <4>2, Settings
      <4> QED BY <4>1, <4>3
    <3> QED BY <3>2, <3>3, <3>4 DEF Recent
  <2>5. IsFiniteSet(Q)
    <3>1. k - 1 \in Int /\ 1 \in Int
      BY <1>3, <2>2
    <3>2. IsFiniteSet(1..k - 1)
      BY <3>1, FS_Interval
    <3>3. Q \subseteq 1..k - 1
      BY DEF Recent
    <3> HIDE DEF Q
    <3> QED BY <3>2, <3>3, FS_Subset
  <2> HIDE DEF B, Q
  <2>6. Cardinality(B) <= Cardinality(Q) /\ Cardinality(Q) \in Nat
    BY <2>4, <2>5, FS_Subset, FS_CardinalityType
  <2>7. Cardinality(Q) >= 3
    BY <1>3, <1>4, <2>3, <2>6
  <2>8. WeightFor(Cardinality(Q)) = 0
    BY <2>6, <2>7 DEF WeightFor
  <2>9. ledger[k].weight = WeightFor(Cardinality(Q))
    BY <1>1, <1>2, <2>2 DEF LedgerOf, Q
  <2> QED BY <1>2, <2>2, <2>8, <2>9
<1> QED BY <1>3, <1>4 DEF M

-----------------------------------------------------------------------------
(***************************************************************************)
(* The shelf.                                                              *)
(***************************************************************************)

\* The shelf lists rows of the pool, none of them twice.
ShelfInv ==
  /\ shelf \in Seq(Pool) /\ Len(shelf) <= MaxShelf
  /\ \A i, j \in DOMAIN shelf : i # j => shelf[i] # shelf[j]

LEMMA MatchFields ==
  ASSUME NEW m \in Pool
  PROVE  /\ m \in Match
         /\ m.id \in Nat /\ m.seq \in Nat /\ m.seen \in Nat
         /\ m.ladder \in {"open", "mirror", "none"}
         /\ m.a \in Character /\ m.b \in Character /\ m.a < m.b
         /\ m.bestOf \in {1, 3, 5} /\ m.games \in Seq(Character \cup {NoOne})
         /\ m.finished \in BOOLEAN
BY BoardsAssumption DEF BoardsAssumption, Match

LEMMA EventOfType ==
  ASSUME NEW m \in Pool
  PROVE  EventOf(m) \in Event
<1>1. /\ m.id \in Nat /\ m.seq \in Nat /\ m.seen \in Nat
      /\ m.ladder \in {"open", "mirror", "none"}
      /\ m.a \in Character /\ m.b \in Character
  BY MatchFields
<1> DEFINE ladder == IF m.ladder = "none" THEN "open" ELSE m.ladder
           score == IF SeriesWinner(m) = NoOne THEN 1 ELSE IF SeriesWinner(m) = m.a THEN 2 ELSE 0
           eligible == /\ m.finished /\ m.evidence = "corroborated"
                       /\ m.rating \in {"pending", "applied"} /\ m.ladder # "none"
<1>2. ladder \in {"open", "mirror"} /\ score \in 0..2
  BY <1>1
<1>3. eligible \in BOOLEAN
  OBVIOUS
<1>4. EventOf(m) = [id |-> m.id, seq |-> m.seq, seen |-> m.seen, a |-> m.a, b |-> m.b,
                    ladder |-> ladder, score |-> score, eligible |-> eligible]
  BY DEF EventOf
<1> HIDE DEF ladder, score, eligible
<1> QED BY <1>1, <1>2, <1>3, <1>4 DEF Event

LEMMA EventsType ==
  ASSUME NEW list \in Seq(Pool)
  PROVE  /\ Events(list) \in Seq(Event) /\ DOMAIN Events(list) = DOMAIN list
         /\ Len(Events(list)) = Len(list)
         /\ \A i \in DOMAIN list : Events(list)[i] = EventOf(list[i])
<1>1. \A i \in DOMAIN list : EventOf(list[i]) \in Event
  BY EventOfType
<1>2. DOMAIN list = 1..Len(list) /\ Len(list) \in Nat
  OBVIOUS
<1>3. Events(list) = [i \in 1..Len(list) |-> EventOf(list[i])]
  BY <1>2 DEF Events
<1> QED BY <1>1, <1>2, <1>3

LEMMA ShelfInvariant == BoardsSpec => []ShelfInv
<1>1. BoardsInit => ShelfInv
  BY BoardsAssumption DEF BoardsInit, ShelfInv, BoardsAssumption
<1>2. ShelfInv /\ [BoardsNext]_shelf => ShelfInv'
  <2> SUFFICES ASSUME ShelfInv, [BoardsNext]_shelf PROVE ShelfInv'
    OBVIOUS
  <2>1. CASE UNCHANGED shelf
    BY <2>1 DEF ShelfInv
  <2>2. ASSUME NEW m \in Pool, Shelve(m) PROVE ShelfInv'
    <3>1. /\ Len(shelf) < MaxShelf /\ m \notin Range(shelf) /\ shelf' = Append(shelf, m)
          /\ shelf \in Seq(Pool) /\ Len(shelf) \in Nat /\ MaxShelf \in Nat
      BY <2>2, BoardsAssumption DEF Shelve, ShelfInv, BoardsAssumption
    <3>2. /\ shelf' \in Seq(Pool) /\ Len(shelf') = Len(shelf) + 1
          /\ \A i \in 1..Len(shelf) : shelf'[i] = shelf[i]
          /\ shelf'[Len(shelf) + 1] = m
      BY <3>1
    <3>3. \A i \in 1..Len(shelf) : shelf[i] # m
      BY <3>1 DEF Range
    <3>4. \A i, j \in 1..Len(shelf) + 1 : i # j => shelf'[i] # shelf'[j]
      <4>1. \A i \in 1..Len(shelf) + 1 : i \in 1..Len(shelf) \/ i = Len(shelf) + 1
        BY <3>1
      <4>2. \A i, j \in 1..Len(shelf) : i # j => shelf[i] # shelf[j]
        BY <3>1 DEF ShelfInv
      <4> QED BY <3>2, <3>3, <4>1, <4>2
    <3>5. DOMAIN shelf' = 1..Len(shelf) + 1
      BY <3>1, <3>2
    <3>6. Len(shelf') <= MaxShelf
      BY <3>1, <3>2
    <3> QED BY <3>2, <3>4, <3>5, <3>6 DEF ShelfInv
  <2> QED BY <2>1, <2>2 DEF BoardsNext
<1> QED BY <1>1, <1>2, PTL DEF BoardsSpec

LEMMA LedgerOfShelf ==
  ASSUME ShelfInv
  PROVE  LedgerOf(Ledger, Events(shelf))
BY EventsType, ReplayLedger DEF ShelfInv, Ledger

\* Two accounts give each other at most three series with weight in a week, in
\* the ledger of any settled matches (PAIR_WEIGHTS of rating.ts).
THEOREM PairsAreCapped == BoardsSpec => []PairCap
<1>1. ShelfInv => PairCap
  <2> SUFFICES ASSUME ShelfInv PROVE PairCap
    OBVIOUS
  <2>1. LedgerOf(Ledger, Events(shelf))
    BY LedgerOfShelf
  <2> DEFINE ledger == Ledger
  <2> HIDE DEF ledger
  <2>2. ASSUME NEW i \in DOMAIN ledger
        PROVE  Cardinality({j \in DOMAIN ledger :
                  /\ PairOf(ledger[j].event) = PairOf(ledger[i].event)
                  /\ ledger[j].weight > 0
                  /\ ledger[j].event.seen >= ledger[i].event.seen
                  /\ ledger[j].event.seen < ledger[i].event.seen + Week}) <= 3
    BY <2>1, CapOfLedger DEF ledger
  <2> QED BY <2>2 DEF PairCap, PairOf, ledger
<1> QED BY <1>1, ShelfInvariant, PTL

\* The ledger is the same in whatever order the database lists the matches
\* (replay of rating.ts, "Order-independent").
THEOREM ReplayIsOrderFree == BoardsSpec => []ReplayOrderFree
<1>1. ShelfInv => ReplayOrderFree
  <2> SUFFICES ASSUME ShelfInv, Replayable(Events(shelf)),
                      NEW p \in Bijection(DOMAIN shelf, DOMAIN shelf)
               PROVE  Ledger = Replay(Events([i \in DOMAIN shelf |-> shelf[p[i]]]))
    BY DEF ReplayOrderFree
  <2> DEFINE n == Len(shelf)
             back == [i \in DOMAIN shelf |-> shelf[p[i]]]
  <2>1. n \in Nat /\ shelf \in Seq(Pool) /\ DOMAIN shelf = 1..n
    BY DEF ShelfInv
  <2>2. p \in Bijection(1..n, 1..n)
    BY <2>1
  <2>3. \A i \in 1..n : p[i] \in 1..n
    BY <2>2 DEF Bijection, Injection
  <2>4. back \in Seq(Pool) /\ DOMAIN back = 1..n /\ \A i \in 1..n : back[i] = shelf[p[i]]
    <3>1. back = [i \in 1..n |-> shelf[p[i]]]
      BY <2>1
    <3>2. \A i \in 1..n : shelf[p[i]] \in Pool
      BY <2>1, <2>3
    <3> QED BY <2>1, <3>1, <3>2
  <2> HIDE DEF back, n
  <2>5. /\ Events(shelf) \in Seq(Event) /\ DOMAIN Events(shelf) = 1..n
        /\ \A i \in 1..n : Events(shelf)[i] = EventOf(shelf[i])
    BY <2>1, EventsType
  <2>6. /\ Events(back) \in Seq(Event) /\ DOMAIN Events(back) = 1..n
        /\ \A i \in 1..n : Events(back)[i] = EventOf(back[i])
    BY <2>4, EventsType
  <2>7. \A i \in 1..n : Events(back)[i] = Events(shelf)[p[i]]
    BY <2>3, <2>4, <2>5, <2>6
  <2>8. \A i, j \in 1..n : i # j => Events(shelf)[i].seq # Events(shelf)[j].seq
    BY <2>5 DEF Replayable
  <2>9. Sorted(Events(back)) = Sorted(Events(shelf))
    <3> DEFINE D == 1..n
    <3>1. PICK events : events = Events(shelf)
      OBVIOUS
    <3>2. PICK other : other = Events(back)
      OBVIOUS
    <3> HIDE DEF D
    <3>3. /\ events \in Seq(Event) /\ other \in Seq(Event)
          /\ DOMAIN other = D /\ DOMAIN events = D
      BY <2>5, <2>6, <3>1, <3>2 DEF D
    <3>4. p \in Bijection(DOMAIN events, DOMAIN events)
      BY <2>2, <3>3 DEF D
    <3>5. \A i \in DOMAIN events : other[i] = events[p[i]]
      BY <2>7, <3>1, <3>2, <3>3 DEF D
    <3>6. \A i, j \in DOMAIN events : i # j => events[i].seq # events[j].seq
      BY <2>8, <3>1, <3>3 DEF D
    <3>7. Sorted(other) = Sorted(events)
      BY <3>3, <3>4, <3>5, <3>6, SortedOrderFree
    <3> QED BY <3>1, <3>2, <3>7
  <2>10. Replay(Events(back)) = Replay(Events(shelf))
    BY <2>9 DEF Replay
  <2> QED BY <2>10 DEF Ledger, back
<1> QED BY <1>1, ShelfInvariant, PTL

-----------------------------------------------------------------------------
(***************************************************************************)
(* Sums and images of finite sets.                                         *)
(***************************************************************************)

LEMMA ImageIsFinite ==
  ASSUME NEW S, IsFiniteSet(S), NEW f, DOMAIN f = S
  PROVE  IsFiniteSet({f[x] : x \in S})
<1> DEFINE T == {f[x] : x \in S}
           g == [x \in S |-> f[x]]
<1>1. g \in [S -> T] /\ \A t \in T : \E x \in S : g[x] = t
  OBVIOUS
<1> HIDE DEF T, g
<1>2. g \in Surjection(S, T)
  BY <1>1, Zenon DEF Surjection
<1>3. IsFiniteSet(T)
  BY <1>2, FS_Surjection
<1> QED BY <1>3 DEF T

Total(f) == FoldFunction(+, 0, f)

\* The elements of D are counted by adding up the parts that w sorts them into.
LEMMA SumOfParts ==
  ASSUME NEW T, IsFiniteSet(T), NEW D, IsFiniteSet(D), NEW w \in [D -> T],
         NEW f \in [T -> Nat],
         \A t \in T : f[t] = Cardinality({d \in D : w[d] = t})
  PROVE  Total(f) = Cardinality(D)
<1> DEFINE Part(S) == {d \in D : w[d] \in S}
           Body(g, s) == IF s = {} THEN 0
                         ELSE LET x == CHOOSE x \in s : TRUE IN f[x] + g[s \ {x}]
           iter == CHOOSE g : g = [s \in SUBSET T |-> Body(g, s)]
           sum == [s \in SUBSET T |-> Cardinality(Part(s))]
<1>1. \A S \in SUBSET T : IsFiniteSet(Part(S)) /\ Cardinality(Part(S)) \in Nat
  <2>1. SUFFICES ASSUME NEW S \in SUBSET T PROVE IsFiniteSet(Part(S)) /\ Cardinality(Part(S)) \in Nat
    OBVIOUS
  <2>2. Part(S) \subseteq D
    OBVIOUS
  <2>3. IsFiniteSet(Part(S))
    BY <2>2, FS_Subset
  <2> QED BY <2>3, FS_CardinalityType
<1>2. ASSUME NEW S \in SUBSET T, NEW x \in S
      PROVE  Cardinality(Part(S)) = f[x] + Cardinality(Part(S \ {x}))
  <2> DEFINE A == Part(S \ {x})
             B == {d \in D : w[d] = x}
  <2>1. A \cup B = Part(S) /\ A \cap B = {} /\ B = Part({x})
    OBVIOUS
  <2>2. IsFiniteSet(A) /\ IsFiniteSet(B) /\ Cardinality(A) \in Nat /\ Cardinality(B) \in Nat
    <3>1. S \ {x} \in SUBSET T /\ {x} \in SUBSET T
      OBVIOUS
    <3> QED BY <1>1, <2>1, <3>1
  <2>3. f[x] = Cardinality(B)
    OBVIOUS
  <2> HIDE DEF A, B, Part
  <2>4. Cardinality(A \cup B) = Cardinality(A) + Cardinality(B) - Cardinality(A \cap B)
    BY <2>2, FS_Union
  <2>5. Cardinality(A \cap B) = 0
    BY <2>1, FS_EmptySet
  <2>6. Cardinality(Part(S)) = Cardinality(B) + Cardinality(A)
    <3>1. Cardinality(A \cup B) = Cardinality(B) + Cardinality(A)
      BY <2>2, <2>4, <2>5
    <3>2. A \cup B = Part(S)
      BY <2>1
    <3> QED BY <3>1, <3>2
  <2>7. Cardinality(Part(S)) = f[x] + Cardinality(A)
    BY <2>2, <2>3, <2>6
  <2> QED BY <2>7 DEF A
<1>3. Part({}) = {} /\ Cardinality(Part({})) = 0
  BY FS_EmptySet
<1>4. Part(T) = D
  OBVIOUS
<1> HIDE DEF Part
<1>5. sum = [s \in SUBSET T |-> Body(sum, s)]
  <2>1. ASSUME NEW s \in SUBSET T PROVE sum[s] = Body(sum, s)
    <3>1. CASE s = {}
      BY <1>3, <3>1
    <3>2. CASE s # {}
      <4>1. PICK x : x = CHOOSE y \in s : TRUE
        OBVIOUS
      <4>2. x \in s
        BY <3>2, <4>1
      <4>3. s \ {x} \in SUBSET T
        OBVIOUS
      <4>4. sum[s] = f[x] + sum[s \ {x}]
        BY <1>2, <4>2, <4>3
      <4> HIDE DEF sum
      <4> QED BY <3>2, <4>1, <4>4
    <3> QED BY <3>1, <3>2
  <2> HIDE DEF Body
  <2> QED BY <2>1
<1>6. iter = [s \in SUBSET T |-> Body(iter, s)]
  <2> HIDE DEF Body, sum
  <2> QED BY <1>5
<1>7. Total(f) = iter[T]
  <2>1. DOMAIN f = T
    OBVIOUS
  <2> QED BY <2>1 DEF Total, FoldFunction, FoldFunctionOnSet, MapThenFoldSet
<1> HIDE DEF iter
<1>8. \A s \in SUBSET T : iter[s] = Cardinality(Part(s))
  <2> DEFINE Size == {n \in Nat : \E s \in SUBSET T : n = Cardinality(s) /\ iter[s] # Cardinality(Part(s))}
  <2>1. SUFFICES ASSUME Size # {} PROVE FALSE
    <3>1. \A s \in SUBSET T : Cardinality(s) \in Nat
      BY FS_Subset, FS_CardinalityType
    <3> QED BY <3>1
  <2>2. Size \subseteq Nat
    OBVIOUS
  <2> HIDE DEF Size
  <2>3. PICK n \in Size : \A k \in Size : n <= k
    BY <2>1, <2>2, LeastExists
  <2>4. PICK s \in SUBSET T : n = Cardinality(s) /\ iter[s] # Cardinality(Part(s))
    BY <2>3 DEF Size
  <2>5. iter[s] = Body(iter, s)
    <3> HIDE DEF Body
    <3> QED BY <1>6
  <2>6. CASE s = {}
    BY <1>3, <2>4, <2>5, <2>6
  <2>7. CASE s # {}
    <3>1. PICK x : x = CHOOSE y \in s : TRUE
      OBVIOUS
    <3>2. x \in s /\ s \ {x} \in SUBSET T
      BY <2>7, <3>1
    <3>3. iter[s] = f[x] + iter[s \ {x}]
      BY <2>5, <2>7, <3>1
    <3>4. IsFiniteSet(s) /\ Cardinality(s \ {x}) = n - 1 /\ n \in Nat /\ n # 0
      BY <2>2, <2>3, <2>4, <2>7, <3>2, FS_Subset, FS_RemoveElement, FS_EmptySet
    <3>5. n - 1 \notin Size /\ n - 1 \in Nat
      BY <2>3, <3>4
    <3>6. iter[s \ {x}] = Cardinality(Part(s \ {x}))
      BY <3>2, <3>4, <3>5 DEF Size
    <3> QED BY <1>2, <2>4, <3>2, <3>3, <3>6
  <2> QED BY <2>6, <2>7
<1> QED BY <1>4, <1>7, <1>8

-----------------------------------------------------------------------------
(***************************************************************************)
(* The games of a match.                                                   *)
(***************************************************************************)

\* The games of m that c has won.
GamesOf(m, c) == {i \in DOMAIN m.games : m.games[i] = c}

LEMMA GamesAreCounted ==
  ASSUME NEW m \in Pool, NEW c
  PROVE  /\ GamesWon(m, c) = Cardinality(GamesOf(m, c)) /\ GamesWon(m, c) \in Nat
         /\ IsFiniteSet(GamesOf(m, c)) /\ GamesOf(m, c) \subseteq 1..Len(m.games)
         /\ IsFiniteSet(1..Len(m.games)) /\ Cardinality(1..Len(m.games)) = Len(m.games)
         /\ Len(m.games) \in Nat
         /\ GamesWon(m, c) > 0 => GamesOf(m, c) # {}
<1>1. m.games \in Seq(Character \cup {NoOne}) /\ Len(m.games) \in Nat
      /\ DOMAIN m.games = 1..Len(m.games)
  <2>1. m.games \in Seq(Character \cup {NoOne})
    BY MatchFields
  <2> QED BY <2>1
<1> DEFINE n == Len(m.games)
<1> HIDE DEF n
<1>2. n \in Nat
  BY <1>1 DEF n
<1>3. 1 \in Int /\ n \in Int
  BY <1>2
<1>4. IsFiniteSet(1..n) /\ Cardinality(1..n) = IF 1 > n THEN 0 ELSE n - 1 + 1
  BY <1>3, FS_Interval
<1>5. Cardinality(1..n) = n
  BY <1>2, <1>4
<1>6. GamesOf(m, c) \subseteq 1..n
  BY <1>1 DEF GamesOf, n
<1>7. IsFiniteSet(GamesOf(m, c))
  BY <1>4, <1>6, FS_Subset
<1>8. Cardinality(GamesOf(m, c)) \in Nat
  BY <1>7, FS_CardinalityType
<1>9. GamesWon(m, c) = Cardinality(GamesOf(m, c))
  BY DEF GamesWon, Tally, GamesOf
<1>10. Cardinality(GamesOf(m, c)) > 0 => GamesOf(m, c) # {}
  BY FS_EmptySet
<1> QED BY <1>2, <1>4, <1>5, <1>6, <1>7, <1>8, <1>9, <1>10 DEF n

\* A game is won by one character.
LEMMA GamesAreShared ==
  ASSUME NEW m \in Pool, NEW c, NEW d, c # d
  PROVE  GamesWon(m, c) + GamesWon(m, d) <= Len(m.games)
<1> DEFINE C == GamesOf(m, c)
           D == GamesOf(m, d)
           G == 1..Len(m.games)
<1>1. C \cap D = {}
  BY DEF GamesOf
<1>2. /\ IsFiniteSet(C) /\ IsFiniteSet(D) /\ IsFiniteSet(G) /\ C \cup D \subseteq G
      /\ GamesWon(m, c) = Cardinality(C) /\ GamesWon(m, d) = Cardinality(D)
      /\ Cardinality(G) = Len(m.games) /\ Len(m.games) \in Nat
      /\ Cardinality(C) \in Nat /\ Cardinality(D) \in Nat
  BY GamesAreCounted
<1> HIDE DEF C, D, G
<1>3. Cardinality(C \cup D) = Cardinality(C) + Cardinality(D) - Cardinality(C \cap D)
  BY <1>2, FS_Union
<1>4. Cardinality(C \cap D) = 0
  BY <1>1, FS_EmptySet
<1>5. Cardinality(C \cup D) <= Cardinality(G)
  BY <1>2, FS_Subset
<1> QED BY <1>2, <1>3, <1>4, <1>5

\* Whoever wins a series has more games than anyone else.
LEMMA WinnerLeads ==
  ASSUME NEW m \in Pool, Len(m.games) <= m.bestOf, WinnerIn(m, m.games) # NoOne
  PROVE  /\ WinnerIn(m, m.games) \in Character
         /\ GamesWon(m, WinnerIn(m, m.games)) > 0
         /\ \A d : d # WinnerIn(m, m.games) => GamesWon(m, d) < GamesWon(m, WinnerIn(m, m.games))
<1> DEFINE reached == {c \in Character : GamesWon(m, c) >= WinsNeeded(m)}
           First(c) == Min({i \in DOMAIN m.games : m.games[i] = c})
<1>1. reached # {} /\ WinnerIn(m, m.games) = CHOOSE c \in reached : \A d \in reached : First(d) <= First(c)
  BY DEF WinnerIn, GamesWon
<1>2. PICK need \in Nat : /\ need = WinsNeeded(m) /\ need > 0 /\ need + need > m.bestOf
                          /\ m.bestOf \in Nat /\ Len(m.games) \in Nat
  <2>1. m.bestOf \in {1, 3, 5}
    BY MatchFields
  <2>2. WinsNeeded(m) \in Nat /\ WinsNeeded(m) > 0 /\ WinsNeeded(m) + WinsNeeded(m) > m.bestOf
    BY <2>1 DEF WinsNeeded
  <2>3. Len(m.games) \in Nat
    BY GamesAreCounted
  <2> QED BY <2>1, <2>2, <2>3
<1>3. ASSUME NEW c, NEW d, c # d, GamesWon(m, c) >= need
      PROVE  GamesWon(m, d) < need
  <2>1. GamesWon(m, c) \in Nat /\ GamesWon(m, d) \in Nat
    BY GamesAreCounted
  <2>2. GamesWon(m, c) + GamesWon(m, d) <= Len(m.games)
    BY <1>3, GamesAreShared
  <2> QED BY <1>2, <1>3, <2>1, <2>2
<1>4. \A c \in reached : c \in Character /\ GamesWon(m, c) >= need
  BY <1>2
<1>5. PICK w : w \in reached
  BY <1>1
<1>6. \A c \in reached : c = w
  <2> SUFFICES ASSUME NEW c \in reached, c # w PROVE FALSE
    OBVIOUS
  <2>1. GamesWon(m, w) < need /\ GamesWon(m, w) >= need
    BY <1>3, <1>4, <1>5
  <2>2. GamesWon(m, w) \in Nat
    BY GamesAreCounted
  <2> QED BY <1>2, <2>1, <2>2
<1>7. First(w) <= First(w)
  <2>1. GamesOf(m, w) \subseteq Nat /\ GamesOf(m, w) # {}
    <3>1. GamesWon(m, w) \in Nat /\ GamesWon(m, w) >= need
      BY <1>4, <1>5, GamesAreCounted
    <3>2. GamesWon(m, w) > 0
      BY <1>2, <3>1
    <3> QED BY <3>2, GamesAreCounted
  <2>2. \E x \in GamesOf(m, w) : \A y \in GamesOf(m, w) : x <= y
    BY <2>1, LeastExists
  <2>3. Min(GamesOf(m, w)) \in GamesOf(m, w)
    BY <2>2 DEF Min
  <2>4. First(w) = Min(GamesOf(m, w))
    BY DEF GamesOf
  <2> QED BY <2>1, <2>3, <2>4
<1> HIDE DEF reached, First
<1>8. \A d \in reached : First(d) <= First(w)
  BY <1>6, <1>7
<1>9. WinnerIn(m, m.games) = w
  BY <1>1, <1>5, <1>6, <1>8
<1>10. GamesWon(m, w) >= need /\ w \in Character /\ GamesWon(m, w) \in Nat
  BY <1>4, <1>5, GamesAreCounted
<1>11. ASSUME NEW d, d # w PROVE GamesWon(m, d) < GamesWon(m, w)
  <2>1. GamesWon(m, d) < need /\ GamesWon(m, d) \in Nat
    BY <1>3, <1>10, <1>11, GamesAreCounted
  <2> QED BY <1>2, <1>10, <2>1
<1> QED BY <1>2, <1>9, <1>10, <1>11

\* When the players have won the games, the card names the winner of the series.
LEMMA CardTellsWinner ==
  ASSUME NEW m \in Pool, Len(m.games) <= m.bestOf, OwnGames(m), WinnerIn(m, m.games) # NoOne
  PROVE  WinnerIn(m, m.games) \in {m.a, m.b} /\ CardWinner(m) = WinnerIn(m, m.games)
<1>1. PICK w : w = WinnerIn(m, m.games)
  OBVIOUS
<1>2. /\ w \in Character /\ GamesWon(m, w) > 0
      /\ \A d : d # w => GamesWon(m, d) < GamesWon(m, w)
  BY <1>1, WinnerLeads
<1>3. w \in {m.a, m.b}
  <2>1. PICK i \in DOMAIN m.games : m.games[i] = w
    <3>1. GamesOf(m, w) # {}
      BY <1>2, GamesAreCounted
    <3> QED BY <3>1 DEF GamesOf
  <2>2. w \in {m.a, m.b, NoOne}
    BY <2>1 DEF OwnGames
  <2> QED BY <1>1, <2>2
<1>4. m.a \in Nat /\ m.b \in Nat /\ m.a # m.b
  <2>1. m.a \in Character /\ m.b \in Character /\ m.a < m.b
    BY MatchFields
  <2>2. PICK x \in Nat, y \in Nat : x = m.a /\ y = m.b
    BY <2>1, Settings
  <2>3. x < y
    BY <2>1, <2>2
  <2>4. x # y
    BY <2>3
  <2> QED BY <2>2, <2>4
<1>5. GamesWon(m, m.a) \in Nat /\ GamesWon(m, m.b) \in Nat
  BY GamesAreCounted
<1>6. CASE w = m.a
  <2>1. GamesWon(m, m.b) < GamesWon(m, m.a)
    BY <1>2, <1>4, <1>6
  <2> QED BY <1>1, <1>5, <1>6, <2>1 DEF CardWinner
<1>7. CASE w = m.b
  <2>1. GamesWon(m, m.a) < GamesWon(m, m.b)
    BY <1>2, <1>4, <1>7
  <2> QED BY <1>1, <1>5, <1>7, <2>1 DEF CardWinner
<1> QED BY <1>3, <1>6, <1>7

LEMMA ShelfTellsRated == ShelfInv => RatedAsShown
<1> SUFFICES ASSUME ShelfInv, NEW l \in Range(Ledger), NEW m \in Range(shelf),
                    m.id = l.event.id, Len(m.games) <= m.bestOf, OwnGames(m)
             PROVE  /\ Status(m) = "rated"
                    /\ WinnerIn(m, m.games) # NoOne =>
                         /\ l.event.score # 1
                         /\ CardWinner(m) = (IF l.event.score = 2 THEN l.event.a ELSE l.event.b)
  BY DEF RatedAsShown
<1>1. shelf \in Seq(Pool)
  BY DEF ShelfInv
<1>2. LedgerOf(Ledger, Events(shelf))
  BY LedgerOfShelf
<1>3. l.event \in Range(Events(shelf)) /\ Counted(l.event)
  BY <1>2 DEF LedgerOf, Range
<1>4. PICK i \in DOMAIN shelf : l.event = EventOf(shelf[i])
  BY <1>1, <1>3, EventsType DEF Range
<1>5. shelf[i] \in Pool /\ m \in Pool
  BY <1>1 DEF Range
<1>6. EventOf(shelf[i]).id = shelf[i].id
  BY DEF EventOf
<1>7. m = shelf[i]
  BY <1>4, <1>5, <1>6, BoardsAssumption DEF BoardsAssumption
<1>8. l.event.a = m.a /\ l.event.b = m.b
  BY <1>4, <1>7 DEF EventOf
<1>9. Status(m) = "rated"
  <2>1. m.evidence = "corroborated" /\ m.rating \in {"pending", "applied"}
    BY <1>3, <1>4, <1>7 DEF Counted, EventOf
  <2> QED BY <2>1 DEF Status
<1>10. l.event.score = IF SeriesWinner(m) = NoOne THEN 1 ELSE IF SeriesWinner(m) = m.a THEN 2 ELSE 0
  BY <1>4, <1>7 DEF EventOf
<1>11. ASSUME WinnerIn(m, m.games) # NoOne
       PROVE  /\ l.event.score # 1
              /\ CardWinner(m) = (IF l.event.score = 2 THEN l.event.a ELSE l.event.b)
  <2>1. PICK w : w = WinnerIn(m, m.games)
    OBVIOUS
  <2>2. w \in {m.a, m.b} /\ CardWinner(m) = w
    BY <1>5, <1>11, <2>1, CardTellsWinner
  <2>3. SeriesWinner(m) = w /\ w # NoOne
    BY <1>11, <2>1 DEF SeriesWinner
  <2>4. l.event.score = IF w = m.a THEN 2 ELSE 0
    BY <1>10, <2>3
  <2> QED BY <1>8, <2>2, <2>4
<1> QED BY <1>9, <1>11

-----------------------------------------------------------------------------
(***************************************************************************)
(* Records.                                                                *)
(***************************************************************************)

LEMMA CardOf ==
  ASSUME NEW m \in Pool, NEW p, PlayedBy(m, p)
  PROVE  /\ p \in Character /\ p # NoOne
         /\ OtherOf(m, p) \in Character /\ OtherOf(m, p) # NoOne /\ OtherOf(m, p) # p
         /\ {p, OtherOf(m, p)} = {m.a, m.b}
         /\ CardWinner(m) \in {p, OtherOf(m, p), NoOne}
         /\ CardWinner(m) = p <=> GamesWon(m, p) > GamesWon(m, OtherOf(m, p))
         /\ CardWinner(m) = OtherOf(m, p) <=> GamesWon(m, p) < GamesWon(m, OtherOf(m, p))
<1>1. m.a \in Character /\ m.b \in Character /\ m.a < m.b
  BY MatchFields
<1>2. PICK x \in Nat, y \in Nat : x = m.a /\ y = m.b
  BY <1>1, Settings
<1>3. x < y
  BY <1>1, <1>2
<1>4. x # y
  BY <1>3
<1>5. NoOne # x /\ NoOne # y
  BY <1>1, <1>2, BoardsAssumption DEF BoardsAssumption
<1>6. PICK ga \in Nat, gb \in Nat : ga = GamesWon(m, x) /\ gb = GamesWon(m, y)
  BY GamesAreCounted
<1>7. CardWinner(m) = IF ga > gb THEN x ELSE IF gb > ga THEN y ELSE NoOne
  BY <1>2, <1>6 DEF CardWinner
<1>8. CASE p = x
  <2>1. OtherOf(m, p) = y
    BY <1>2, <1>8 DEF OtherOf
  <2> QED BY <1>1, <1>2, <1>4, <1>5, <1>6, <1>7, <1>8, <2>1
<1>9. CASE p = y
  <2>1. OtherOf(m, p) = x
    BY <1>2, <1>4, <1>9 DEF OtherOf
  <2> QED BY <1>1, <1>2, <1>4, <1>5, <1>6, <1>7, <1>9, <2>1
<1> QED BY <1>2, <1>8, <1>9 DEF PlayedBy

\* The games that either store counts against a player are those of the other.
AgainstIn(store, m, p) ==
  IF store = "memory" THEN GamesWon(m, OtherOf(m, p))
  ELSE Cardinality({i \in DOMAIN m.games : m.games[i] \notin {p, NoOne}})

LEMMA AgainstIsOther ==
  ASSUME NEW m \in Pool, NEW p, PlayedBy(m, p), OwnGames(m), NEW store
  PROVE  AgainstIn(store, m, p) = GamesWon(m, OtherOf(m, p))
<1>1. \A i \in DOMAIN m.games : m.games[i] \notin {p, NoOne} <=> m.games[i] = OtherOf(m, p)
  <2>1. /\ p # NoOne /\ OtherOf(m, p) # NoOne /\ OtherOf(m, p) # p
        /\ {p, OtherOf(m, p)} = {m.a, m.b}
    BY CardOf
  <2>2. \A i \in DOMAIN m.games : m.games[i] \in {p, OtherOf(m, p), NoOne}
    BY <2>1 DEF OwnGames
  <2> QED BY <2>1, <2>2
<1>2. {i \in DOMAIN m.games : m.games[i] \notin {p, NoOne}}
        = {i \in DOMAIN m.games : m.games[i] = OtherOf(m, p)}
  BY <1>1
<1> QED BY <1>2 DEF AgainstIn, GamesWon, Tally

\* What the page counts as won or lost by the player on a ladder.
WonOn(page, p, ladder) ==
  {m \in page : LadderOf(m) = ladder /\ m.evidence # "disputed" /\ CardWinner(m) = p}
LostOn(page, p, ladder) ==
  {m \in page : /\ LadderOf(m) = ladder /\ m.evidence # "disputed"
                /\ CardWinner(m) # NoOne /\ CardWinner(m) # p}

LEMMA PageOfShelf ==
  ASSUME ShelfInv, NEW store, NEW p
  PROVE  /\ OnPage(store, p) \subseteq Range(shelf) /\ Range(shelf) \subseteq Pool
         /\ \A m \in OnPage(store, p) : PlayedBy(m, p)
         /\ IsFiniteSet(OnPage(store, p)) /\ IsFiniteSet(Range(shelf))
<1>1. shelf \in Seq(Pool) /\ DOMAIN shelf = 1..Len(shelf) /\ Len(shelf) \in Nat
  BY DEF ShelfInv
<1>2. Range(shelf) = {shelf[i] : i \in 1..Len(shelf)}
  BY <1>1 DEF Range
<1>3. IsFiniteSet(1..Len(shelf))
  <2>1. 1 \in Int /\ Len(shelf) \in Int
    BY <1>1
  <2> QED BY <2>1, FS_Interval
<1>4. IsFiniteSet(Range(shelf))
  BY <1>1, <1>2, <1>3, ImageIsFinite
<1>5. Range(shelf) \subseteq Pool
  BY <1>1, <1>2
<1>6. OnPage(store, p) \subseteq {m \in Range(shelf) : PlayedBy(m, p)}
  BY DEF OnPage
<1>7. OnPage(store, p) \subseteq Range(shelf)
  BY <1>6
<1>8. IsFiniteSet(OnPage(store, p))
  BY <1>4, <1>7, FS_Subset
<1> QED BY <1>4, <1>5, <1>6, <1>7, <1>8

LEMMA PageRecordIs ==
  ASSUME NEW store, NEW p \in Character, NEW ladder
  PROVE  PageRecord(store, p, ladder) = WinLoss(WonOn(OnPage(store, p), p, ladder),
                                                LostOn(OnPage(store, p), p, ladder))
<1> DEFINE page == OnPage(store, p)
           decided == {m \in page : /\ LadderOf(m) = ladder
                                    /\ CardWinner(m) # NoOne
                                    /\ m.evidence # "disputed"}
<1>1. PageRecord(store, p, ladder)
        = WinLoss({m \in decided : CardWinner(m) = p}, {m \in decided : CardWinner(m) # p})
  BY DEF PageRecord
<1>2. p # NoOne
  BY BoardsAssumption DEF BoardsAssumption
<1> HIDE DEF page
<1>3. {m \in decided : CardWinner(m) = p} = WonOn(page, p, ladder)
  BY <1>2 DEF WonOn
<1>4. {m \in decided : CardWinner(m) # p} = LostOn(page, p, ladder)
  BY DEF LostOn
<1> QED BY <1>1, <1>3, <1>4 DEF page

\* The leaderboard and the page count the same series.
LEMMA BoardIsPage ==
  ASSUME ShelfInv, NEW store, NEW p \in Character, NEW ladder,
         WholePage(store, p), Plain(p)
  PROVE  BoardRecord(store, p, ladder) = PageRecord(store, p, ladder)
<1> DEFINE all == OnBoard(p, ladder)
           won == {m \in all : GamesWon(m, p) > AgainstIn(store, m, p)}
           lost == {m \in all : GamesWon(m, p) < AgainstIn(store, m, p)}
           page == OnPage(store, p)
<1>1. BoardRecord(store, p, ladder) = WinLoss(won, lost)
  BY DEF BoardRecord, AgainstIn
<1>2. page = {m \in Range(shelf) : PlayedBy(m, p)} /\ Range(shelf) \subseteq Pool
  BY PageOfShelf DEF WholePage, OnPage
<1>3. ASSUME NEW m \in page
      PROVE  /\ m \in won <=> m \in WonOn(page, p, ladder)
             /\ m \in lost <=> m \in LostOn(page, p, ladder)
  <2>1. m \in Range(shelf) /\ m \in Pool /\ PlayedBy(m, p)
    BY <1>2
  <2>2. (m.finished \/ CardWinner(m) = NoOne) /\ OwnGames(m)
    BY <2>1 DEF Plain
  <2>3. AgainstIn(store, m, p) = GamesWon(m, OtherOf(m, p))
    BY <2>1, <2>2, AgainstIsOther
  <2>4. /\ p # NoOne /\ OtherOf(m, p) # NoOne /\ OtherOf(m, p) # p
        /\ CardWinner(m) \in {p, OtherOf(m, p), NoOne}
        /\ CardWinner(m) = p <=> GamesWon(m, p) > AgainstIn(store, m, p)
        /\ CardWinner(m) = OtherOf(m, p) <=> GamesWon(m, p) < AgainstIn(store, m, p)
    BY <2>1, <2>3, CardOf
  <2>5. m \in all <=> m.finished /\ m.evidence # "disputed" /\ LadderOf(m) = ladder
    BY <2>1 DEF OnBoard
  <2> HIDE DEF all, page
  <2>6. m \in won <=> m \in all /\ GamesWon(m, p) > AgainstIn(store, m, p)
    OBVIOUS
  <2>7. m \in lost <=> m \in all /\ GamesWon(m, p) < AgainstIn(store, m, p)
    OBVIOUS
  <2>8. m \in WonOn(page, p, ladder)
          <=> LadderOf(m) = ladder /\ m.evidence # "disputed" /\ CardWinner(m) = p
    BY <1>3 DEF WonOn
  <2>9. m \in LostOn(page, p, ladder)
          <=> /\ LadderOf(m) = ladder /\ m.evidence # "disputed"
              /\ CardWinner(m) # NoOne /\ CardWinner(m) # p
    BY <1>3 DEF LostOn
  <2> HIDE DEF won, lost
  <2> QED BY <2>2, <2>4, <2>5, <2>6, <2>7, <2>8, <2>9
<1>4. all \subseteq page
  BY <1>2 DEF OnBoard
<1>5. won \subseteq page /\ lost \subseteq page
  BY <1>4
<1>6. WonOn(page, p, ladder) \subseteq page /\ LostOn(page, p, ladder) \subseteq page
  BY DEF WonOn, LostOn
<1> HIDE DEF page, won, lost
<1>7. won = WonOn(page, p, ladder) /\ lost = LostOn(page, p, ladder)
  BY <1>3, <1>5, <1>6
<1> QED BY <1>1, <1>7, PageRecordIs DEF page

-----------------------------------------------------------------------------
(***************************************************************************)
(* Rivals.                                                                 *)
(***************************************************************************)

\* The rows before the cap, and the order they are cut off in.
AllRivals(store, p) == {RivalRow(store, p, q) : q \in {OtherOf(m, p) : m \in OnPage(store, p)}}
Ahead(all) ==
  {z \in all \X all : \/ Series(z[1]) > Series(z[2])
                      \/ Series(z[1]) = Series(z[2]) /\ z[1].last > z[2].last}

LEMMA RivalsAre ==
  ASSUME ShelfInv, NEW store, NEW p
  PROVE  LET all == AllRivals(store, p) IN
         /\ IsFiniteSet(all)
         /\ \A r \in all : Series(r) \in Nat /\ r.last \in Nat
         /\ Rivals(store, p) = {r \in all : Cardinality(Below(all, Ahead(all), r)) < RivalCap}
<1> DEFINE page == OnPage(store, p)
           opponents == {OtherOf(m, p) : m \in page}
           all == AllRivals(store, p)
           Above(r) == {s \in all : \/ Series(s) > Series(r)
                                    \/ Series(s) = Series(r) /\ s.last > r.last}
<1>1. page \subseteq Pool /\ IsFiniteSet(page)
  BY PageOfShelf
<1>2. IsFiniteSet(all)
  <2> DEFINE f == [m \in page |-> OtherOf(m, p)]
             g == [q \in opponents |-> RivalRow(store, p, q)]
  <2>1. opponents = {f[m] : m \in page} /\ DOMAIN f = page
    OBVIOUS
  <2>2. all = {g[q] : q \in opponents} /\ DOMAIN g = opponents
    BY DEF AllRivals
  <2> HIDE DEF page, opponents, all, f, g
  <2>3. IsFiniteSet(opponents)
    BY <1>1, <2>1, ImageIsFinite
  <2> QED BY <2>2, <2>3, ImageIsFinite
<1>3. ASSUME NEW r \in all
      PROVE  Series(r) \in Nat /\ r.last \in Nat
  <2>1. PICK q \in opponents : r = RivalRow(store, p, q)
    BY DEF AllRivals
  <2> DEFINE met == {m \in page : OtherOf(m, p) = q}
             times == {m.seen : m \in met}
             decided == {m \in met : CardWinner(m) # NoOne /\ m.evidence # "disputed"}
             won == {m \in decided : CardWinner(m) = p}
             lost == {m \in decided : CardWinner(m) # p}
  <2>2. /\ r.last = CHOOSE t \in times : \A m \in met : m.seen <= t
        /\ r.record = WinLoss(won, lost)
    BY <2>1 DEF RivalRow
  <2>3. met \subseteq page /\ won \subseteq page /\ lost \subseteq page /\ met # {}
    BY <2>1
  <2>4. times \subseteq Nat /\ times # {}
    <3>1. \A m \in met : m.seen \in Nat
      BY <1>1, <2>3, MatchFields
    <3> QED BY <2>3, <3>1
  <2>5. IsFiniteSet(times)
    <3> DEFINE f == [m \in met |-> m.seen]
    <3>1. times = {f[m] : m \in met} /\ DOMAIN f = met
      OBVIOUS
    <3>2. IsFiniteSet(met)
      BY <1>1, <2>3, FS_Subset
    <3> HIDE DEF f, met, times
    <3> QED BY <3>1, <3>2, ImageIsFinite
  <2>6. PICK t \in times : \A u \in times : u <= t
    <3> HIDE DEF times
    <3> QED BY <2>4, <2>5, GreatestOfFinite
  <2>7. \A m \in met : m.seen <= t
    BY <2>6
  <2>8. r.last \in Nat
    <3> HIDE DEF met, times
    <3>1. r.last \in times
      BY <2>2, <2>7
    <3> QED BY <2>4, <3>1
  <2> HIDE DEF won, lost
  <2>9. IsFiniteSet(won) /\ IsFiniteSet(lost)
    BY <1>1, <2>3, FS_Subset
  <2>10. Cardinality(won) \in Nat /\ Cardinality(lost) \in Nat
    BY <2>9, FS_CardinalityType
  <2>11. Series(r) = Cardinality(won) + Cardinality(lost)
    BY <2>2 DEF Series, WinLoss
  <2> QED BY <2>8, <2>10, <2>11
<1>4. Rivals(store, p) = {r \in all : Cardinality(Above(r)) < RivalCap}
  BY DEF Rivals, AllRivals
<1>5. \A r \in all : Above(r) = Below(all, Ahead(all), r)
  <2> HIDE DEF all
  <2> QED BY DEF Below, Ahead
<1> HIDE DEF Above, all
<1>6. Rivals(store, p) = {r \in all : Cardinality(Below(all, Ahead(all), r)) < RivalCap}
  BY <1>4, <1>5
<1> QED BY <1>2, <1>3, <1>6 DEF all

\* A list shorter than its cap has left nobody out.
LEMMA NobodyLeftOut ==
  ASSUME NEW all, IsFiniteSet(all), NEW R, PartialOrder(all, R), NEW cap \in Nat,
         NEW kept, kept = {r \in all : Cardinality(Below(all, R, r)) < cap},
         Cardinality(kept) < cap
  PROVE  kept = all
<1> DEFINE Rank(r) == Cardinality(Below(all, R, r))
           Ranks == {Rank(r) : r \in all \ kept}
<1>1. SUFFICES ASSUME kept # all PROVE FALSE
  OBVIOUS
<1>2. \A r \in all : /\ Below(all, R, r) \subseteq all /\ IsFiniteSet(Below(all, R, r))
                     /\ Rank(r) \in Nat
  <2>1. \A r \in all : Below(all, R, r) \subseteq all
    BY DEF Below
  <2>2. \A r \in all : IsFiniteSet(Below(all, R, r))
    BY <2>1, FS_Subset
  <2> QED BY <2>1, <2>2, FS_CardinalityType
<1>3. Ranks \subseteq Nat /\ Ranks # {}
  BY <1>1, <1>2
<1>4. PICK n \in Ranks : \A k \in Ranks : n <= k
  <2> HIDE DEF Ranks
  <2> QED BY <1>3, LeastExists
<1>5. PICK r \in all \ kept : n = Rank(r)
  BY <1>4
<1>6. Below(all, R, r) \subseteq kept
  <2> SUFFICES ASSUME NEW s \in Below(all, R, r), s \notin kept PROVE FALSE
    OBVIOUS
  <2>1. s \in all /\ <<s, r>> \in R
    BY DEF Below
  <2>2. Rank(s) < Rank(r) /\ Rank(s) \in Nat /\ Rank(r) \in Nat
    BY <2>1, FewerBelow
  <2>3. n <= Rank(s)
    BY <1>4, <2>1
  <2> HIDE DEF Rank
  <2> QED BY <1>5, <2>2, <2>3
<1>7. IsFiniteSet(kept) /\ Cardinality(kept) \in Nat
  <2>1. kept \subseteq all
    OBVIOUS
  <2>2. IsFiniteSet(kept)
    BY <2>1, FS_Subset
  <2> QED BY <2>2, FS_CardinalityType
<1>8. Rank(r) <= Cardinality(kept)
  BY <1>6, <1>7, FS_Subset
<1>9. ~(Rank(r) < cap)
  BY <1>5
<1>10. Rank(r) \in Nat
  BY <1>2, <1>5
<1> HIDE DEF Rank
<1> QED BY <1>7, <1>8, <1>9, <1>10

LEMMA AheadIsOrder ==
  ASSUME NEW all, \A r \in all : Series(r) \in Nat /\ r.last \in Nat
  PROVE  PartialOrder(all, Ahead(all))
<1>1. \A r, s \in all : <<r, s>> \in Ahead(all)
        <=> (Series(r) > Series(s) \/ (Series(r) = Series(s) /\ r.last > s.last))
  BY DEF Ahead
<1>2. ASSUME NEW x \in all PROVE <<x, x>> \notin Ahead(all)
  <2>1. PICK s \in Nat, t \in Nat : s = Series(x) /\ t = x.last
    OBVIOUS
  <2>2. ~(s > s) /\ ~(t > t)
    OBVIOUS
  <2> QED BY <1>1, <2>1, <2>2
<1>3. ASSUME NEW x \in all, NEW y \in all, NEW z \in all,
             <<x, y>> \in Ahead(all), <<y, z>> \in Ahead(all)
      PROVE  <<x, z>> \in Ahead(all)
  <2>1. PICK s1 \in Nat, t1 \in Nat : s1 = Series(x) /\ t1 = x.last
    OBVIOUS
  <2>2. PICK s2 \in Nat, t2 \in Nat : s2 = Series(y) /\ t2 = y.last
    OBVIOUS
  <2>3. PICK s3 \in Nat, t3 \in Nat : s3 = Series(z) /\ t3 = z.last
    OBVIOUS
  <2>4. s1 > s2 \/ (s1 = s2 /\ t1 > t2)
    BY <1>1, <1>3, <2>1, <2>2
  <2>5. s2 > s3 \/ (s2 = s3 /\ t2 > t3)
    BY <1>1, <1>3, <2>2, <2>3
  <2>6. s1 > s3 \/ (s1 = s3 /\ t1 > t3)
    BY <2>4, <2>5
  <2> QED BY <1>1, <2>1, <2>3, <2>6
<1> QED BY <1>2, <1>3 DEF PartialOrder

\* The rivals of a list that is not full add up to the player's record.
LEMMA RivalsAddUp ==
  ASSUME ShelfInv, NEW store, NEW p \in Character, Cardinality(Rivals(store, p)) < RivalCap
  PROVE  LET rivals == Rivals(store, p)
             open == PageRecord(store, p, "open")
             mirror == PageRecord(store, p, "mirror") IN
         /\ FoldFunction(+, 0, [r \in rivals |-> r.record.wins]) = open.wins + mirror.wins
         /\ FoldFunction(+, 0, [r \in rivals |-> r.record.losses]) = open.losses + mirror.losses
<1> DEFINE page == OnPage(store, p)
           all == AllRivals(store, p)
           rivals == Rivals(store, p)
           won == {m \in page : m.evidence # "disputed" /\ CardWinner(m) = p}
           lost == {m \in page : m.evidence # "disputed" /\ CardWinner(m) # NoOne /\ CardWinner(m) # p}
<1>1. page \subseteq Pool /\ IsFiniteSet(page)
  BY PageOfShelf
<1>2. p # NoOne
  BY BoardsAssumption DEF BoardsAssumption
<1>3. /\ IsFiniteSet(all)
      /\ \A r \in all : Series(r) \in Nat /\ r.last \in Nat
      /\ rivals = {r \in all : Cardinality(Below(all, Ahead(all), r)) < RivalCap}
  BY RivalsAre
<1>4. rivals = all
  <2> HIDE DEF all
  <2>1. RivalCap \in Nat
    BY BoardsAssumption DEF BoardsAssumption
  <2>2. Cardinality(rivals) < RivalCap
    OBVIOUS
  <2>3. PartialOrder(all, Ahead(all))
    BY <1>3, AheadIsOrder
  <2> HIDE DEF rivals
  <2> QED BY <1>3, <2>1, <2>2, <2>3, NobodyLeftOut
<1>5. ASSUME NEW q \in {OtherOf(m, p) : m \in page}
      PROVE  /\ RivalRow(store, p, q) \in all /\ RivalRow(store, p, q).player = q
             /\ RivalRow(store, p, q).record.wins = Cardinality({m \in won : OtherOf(m, p) = q})
             /\ RivalRow(store, p, q).record.losses = Cardinality({m \in lost : OtherOf(m, p) = q})
  <2> DEFINE met == {m \in page : OtherOf(m, p) = q}
             decided == {m \in met : CardWinner(m) # NoOne /\ m.evidence # "disputed"}
  <2>1. /\ RivalRow(store, p, q).player = q
        /\ RivalRow(store, p, q).record
             = WinLoss({m \in decided : CardWinner(m) = p}, {m \in decided : CardWinner(m) # p})
    BY DEF RivalRow
  <2>2. RivalRow(store, p, q) \in all
    BY DEF AllRivals
  <2> HIDE DEF page
  <2>3. {m \in decided : CardWinner(m) = p} = {m \in won : OtherOf(m, p) = q}
    BY <1>2
  <2>4. {m \in decided : CardWinner(m) # p} = {m \in lost : OtherOf(m, p) = q}
    OBVIOUS
  <2> HIDE DEF decided, won, lost
  <2> QED BY <2>1, <2>2, <2>3, <2>4 DEF WinLoss
<1>6. \A r \in all : \E q \in {OtherOf(m, p) : m \in page} : r = RivalRow(store, p, q)
  BY DEF AllRivals
<1>7. won \subseteq page /\ lost \subseteq page
  OBVIOUS
<1>8. IsFiniteSet(won) /\ IsFiniteSet(lost)
  <2> HIDE DEF won, lost
  <2> QED BY <1>1, <1>7, FS_Subset
<1>9. ASSUME NEW D, D \subseteq page, IsFiniteSet(D), NEW f, f = [r \in all |-> f[r]],
             \A q \in {OtherOf(m, p) : m \in page} :
               f[RivalRow(store, p, q)] = Cardinality({m \in D : OtherOf(m, p) = q})
      PROVE  Total(f) = Cardinality(D)
  <2> DEFINE w == [m \in D |-> RivalRow(store, p, OtherOf(m, p))]
  <2> HIDE DEF all, page
  <2>1. w \in [D -> all]
    BY <1>5, <1>9
  <2>2. ASSUME NEW r \in all PROVE f[r] = Cardinality({m \in D : w[m] = r})
    <3>1. PICK q \in {OtherOf(m, p) : m \in page} : r = RivalRow(store, p, q)
      BY <1>6
    <3>2. \A m \in D : w[m] = r <=> OtherOf(m, p) = q
      BY <1>5, <1>9, <3>1
    <3>3. {m \in D : w[m] = r} = {m \in D : OtherOf(m, p) = q}
      BY <3>2
    <3> QED BY <1>9, <3>1, <3>3
  <2>3. ASSUME NEW r \in all PROVE f[r] \in Nat
    <3>1. {m \in D : w[m] = r} \subseteq D
      OBVIOUS
    <3>2. IsFiniteSet({m \in D : w[m] = r})
      BY <1>9, <3>1, FS_Subset
    <3> HIDE DEF w
    <3> QED BY <2>2, <3>2, FS_CardinalityType
  <2>4. f \in [all -> Nat]
    <3>1. [r \in all |-> f[r]] \in [all -> Nat]
      BY <2>3
    <3> QED BY <1>9, <3>1
  <2> HIDE DEF w
  <2> QED BY <1>3, <1>9, <2>1, <2>2, <2>4, SumOfParts
<1>10. Total([r \in rivals |-> r.record.wins]) = Cardinality(won)
  <2> DEFINE f == [r \in all |-> r.record.wins]
  <2>1. \A q \in {OtherOf(m, p) : m \in page} :
          f[RivalRow(store, p, q)] = Cardinality({m \in won : OtherOf(m, p) = q})
    <3> HIDE DEF all, page, won
    <3> QED BY <1>5
  <2>2. f = [r \in all |-> f[r]] /\ f = [r \in rivals |-> r.record.wins]
    BY <1>4
  <2> HIDE DEF all, page, won, rivals, f
  <2> QED BY <1>7, <1>8, <1>9, <2>1, <2>2
<1>11. Total([r \in rivals |-> r.record.losses]) = Cardinality(lost)
  <2> DEFINE f == [r \in all |-> r.record.losses]
  <2>1. \A q \in {OtherOf(m, p) : m \in page} :
          f[RivalRow(store, p, q)] = Cardinality({m \in lost : OtherOf(m, p) = q})
    <3> HIDE DEF all, page, lost
    <3> QED BY <1>5
  <2>2. f = [r \in all |-> f[r]] /\ f = [r \in rivals |-> r.record.losses]
    BY <1>4
  <2> HIDE DEF all, page, lost, rivals, f
  <2> QED BY <1>7, <1>8, <1>9, <2>1, <2>2
<1>12. ASSUME NEW D, IsFiniteSet(D)
       PROVE  Cardinality(D) = Cardinality({m \in D : LadderOf(m) = "open"})
                               + Cardinality({m \in D : LadderOf(m) = "mirror"})
  <2> DEFINE A == {m \in D : LadderOf(m) = "open"}
             B == {m \in D : LadderOf(m) = "mirror"}
  <2>1. A \cup B = D /\ A \cap B = {} /\ A \subseteq D /\ B \subseteq D
    BY DEF LadderOf
  <2> HIDE DEF A, B
  <2>2. IsFiniteSet(A) /\ IsFiniteSet(B)
    BY <1>12, <2>1, FS_Subset
  <2>3. Cardinality(A \cup B) = Cardinality(A) + Cardinality(B) - Cardinality(A \cap B)
    BY <2>2, FS_Union
  <2>4. Cardinality(A \cap B) = 0 /\ Cardinality(A) \in Nat /\ Cardinality(B) \in Nat
    BY <2>1, <2>2, FS_EmptySet, FS_CardinalityType
  <2>5. Cardinality(A \cup B) = Cardinality(A) + Cardinality(B)
    BY <2>3, <2>4
  <2> QED BY <2>1, <2>5 DEF A, B
<1>13. \A ladder : /\ WonOn(page, p, ladder) = {m \in won : LadderOf(m) = ladder}
                   /\ LostOn(page, p, ladder) = {m \in lost : LadderOf(m) = ladder}
  <2> HIDE DEF page
  <2> QED BY DEF WonOn, LostOn
<1>14. \A ladder : /\ PageRecord(store, p, ladder).wins = Cardinality(WonOn(page, p, ladder))
                   /\ PageRecord(store, p, ladder).losses = Cardinality(LostOn(page, p, ladder))
  BY PageRecordIs DEF WinLoss
<1> HIDE DEF page, won, lost, rivals, all
<1>15. /\ Cardinality(won) = PageRecord(store, p, "open").wins + PageRecord(store, p, "mirror").wins
       /\ Cardinality(lost) = PageRecord(store, p, "open").losses + PageRecord(store, p, "mirror").losses
  BY <1>8, <1>12, <1>13, <1>14
<1> QED BY <1>10, <1>11, <1>15 DEF rivals, Total

LEMMA ShelfTellsRecords == ShelfInv => RecordsAgree
<1> SUFFICES ASSUME ShelfInv, NEW store \in {"memory", "pg"}, NEW p \in Character
             PROVE  /\ WholePage(store, p) /\ Plain(p) =>
                         \A ladder \in {"open", "mirror"} :
                           BoardRecord(store, p, ladder) = PageRecord(store, p, ladder)
                    /\ Cardinality(Rivals(store, p)) < RivalCap =>
                         /\ FoldFunction(+, 0, [r \in Rivals(store, p) |-> r.record.wins])
                              = PageRecord(store, p, "open").wins + PageRecord(store, p, "mirror").wins
                         /\ FoldFunction(+, 0, [r \in Rivals(store, p) |-> r.record.losses])
                              = PageRecord(store, p, "open").losses + PageRecord(store, p, "mirror").losses
  BY DEF RecordsAgree
<1> QED BY BoardIsPage, RivalsAddUp

-----------------------------------------------------------------------------
(***************************************************************************)
(* The leaderboard.                                                        *)
(***************************************************************************)

MembersOk(members) ==
  /\ IsFiniteSet(members)
  /\ \A r \in members :
       /\ r.character \in Character /\ r.rating \in Int
       /\ r.series \in Nat /\ r.opponents \in Nat
       /\ r.key = <<r.key[1], IF r.key[1] = "mirror" THEN Class[r.character] ELSE 0>>
  /\ \A r, s \in members : r.key = s.key /\ r.character = s.character => r = s

\* A ladder has one row for each character, on the mirror ladder in their class.
LEMMA MembersAre ==
  ASSUME ShelfInv, Replayable(Events(shelf))
  PROVE  MembersOk(Members(Ledger))
<1> DEFINE ledger == Ledger
           entries == Range(ledger)
           D == DOMAIN ledger
           Of(key, c) == {l \in entries : LadderKey(l.event) = key /\ c \in {l.event.a, l.event.b}}
           Positive(key, c) == {l \in Of(key, c) : l.weight > 0}
           Opponent(l, c) == Owner[IF c = l.event.a THEN l.event.b ELSE l.event.a]
           Row(x) == [key |-> x[1], character |-> x[2],
                      rating |-> RatingIn(ledger, x[1], x[2]),
                      series |-> Cardinality(Positive(x[1], x[2])),
                      opponents |-> Cardinality({Opponent(l, x[2]) : l \in Positive(x[1], x[2])})]
           places == UNION {{<<LadderKey(l.event), l.event.a>>, <<LadderKey(l.event), l.event.b>>}
                            : l \in entries}
<1>1. Members(ledger) = {Row(x) : x \in places}
  BY DEF Members
<1>2. /\ LedgerOf(ledger, Events(shelf)) /\ ledger \in Seq(Entry)
      /\ D = 1..Len(ledger) /\ Len(ledger) \in Nat
  <2>1. LedgerOf(Ledger, Events(shelf))
    BY LedgerOfShelf
  <2>2. ledger \in Seq(Entry)
    BY <2>1 DEF LedgerOf
  <2> HIDE DEF ledger
  <2> QED BY <2>1, <2>2 DEF ledger
<1> HIDE DEF ledger
<1>3. entries = {ledger[i] : i \in D}
  BY DEF Range
<1>4. IsFiniteSet(D)
  <2>1. 1 \in Int /\ Len(ledger) \in Int
    BY <1>2
  <2> HIDE DEF D
  <2> QED BY <1>2, <2>1, FS_Interval
<1>5. IsFiniteSet(entries)
  BY <1>3, <1>4, ImageIsFinite
<1>6. ASSUME NEW l \in entries
      PROVE  /\ l.event.a \in Character /\ l.event.b \in Character
             /\ l.event.ladder = "mirror" => Class[l.event.a] = Class[l.event.b]
  <2>1. PICK i \in D : l = ledger[i]
    BY <1>3
  <2>2. l.event \in Range(Events(shelf))
    BY <1>2, <2>1 DEF LedgerOf
  <2>3. PICK j \in DOMAIN Events(shelf) : l.event = Events(shelf)[j]
    BY <2>2 DEF Range
  <2>4. l \in Entry
    BY <1>2, <2>1
  <2>5. l.event \in Event
    BY <2>4 DEF Entry
  <2>6. l.event.ladder = "mirror" => Class[l.event.a] = Class[l.event.b]
    BY <2>3 DEF Replayable
  <2> QED BY <2>5, <2>6, EventFields
<1>7. ASSUME NEW x \in places
      PROVE  /\ x[2] \in Character
             /\ x[1] = <<x[1][1], IF x[1][1] = "mirror" THEN Class[x[2]] ELSE 0>>
             /\ x = <<x[1], x[2]>>
  <2>1. PICK l \in entries : x = <<LadderKey(l.event), l.event.a>> \/ x = <<LadderKey(l.event), l.event.b>>
    OBVIOUS
  <2>2. /\ l.event.a \in Character /\ l.event.b \in Character
        /\ l.event.ladder = "mirror" => Class[l.event.a] = Class[l.event.b]
    BY <1>6
  <2>3. x[1] = LadderKey(l.event) /\ x[2] \in {l.event.a, l.event.b} /\ x = <<x[1], x[2]>>
    BY <2>1
  <2>4. x[1] = <<l.event.ladder, IF l.event.ladder = "mirror" THEN Class[l.event.a] ELSE 0>>
    BY <2>3 DEF LadderKey
  <2> QED BY <2>2, <2>3, <2>4
<1>8. IsFiniteSet(places)
  <2> DEFINE f == [l \in entries |-> <<LadderKey(l.event), l.event.a>>]
             g == [l \in entries |-> <<LadderKey(l.event), l.event.b>>]
             A == {f[l] : l \in entries}
             B == {g[l] : l \in entries}
  <2>1. places = A \cup B
    <3> HIDE DEF entries
    <3> QED OBVIOUS
  <2>2. DOMAIN f = entries /\ DOMAIN g = entries
    OBVIOUS
  <2> HIDE DEF f, g, entries
  <2>3. IsFiniteSet(A) /\ IsFiniteSet(B)
    BY <1>5, <2>2, ImageIsFinite
  <2> HIDE DEF A, B, places
  <2>4. IsFiniteSet(A \cup B)
    BY <2>3, FS_Union
  <2> QED BY <2>1, <2>4
<1>9. ASSUME NEW key, NEW c
      PROVE  /\ Cardinality(Positive(key, c)) \in Nat
             /\ Cardinality({Opponent(l, c) : l \in Positive(key, c)}) \in Nat
  <2> DEFINE P == Positive(key, c)
             f == [l \in P |-> Opponent(l, c)]
  <2>1. P \subseteq entries
    OBVIOUS
  <2>2. {Opponent(l, c) : l \in P} = {f[l] : l \in P} /\ DOMAIN f = P
    OBVIOUS
  <2> HIDE DEF P, f, entries, Opponent
  <2>3. IsFiniteSet(P)
    BY <1>5, <2>1, FS_Subset
  <2>4. IsFiniteSet({f[l] : l \in P})
    BY <2>2, <2>3, ImageIsFinite
  <2>5. Cardinality(P) \in Nat /\ Cardinality({Opponent(l, c) : l \in P}) \in Nat
    BY <2>2, <2>3, <2>4, FS_CardinalityType
  <2> QED BY <2>5 DEF P
<1>10. \A x \in places : /\ Row(x).key = x[1] /\ Row(x).character = x[2]
                         /\ Row(x).rating \in Int /\ Row(x).series \in Nat
                         /\ Row(x).opponents \in Nat
  <2> HIDE DEF places, Positive, Opponent
  <2> QED BY <1>2, <1>9, RatingIsInt
<1> HIDE DEF Row, places
<1>11. IsFiniteSet({Row(x) : x \in places})
  <2> DEFINE f == [x \in places |-> Row(x)]
  <2>1. {Row(x) : x \in places} = {f[x] : x \in places} /\ DOMAIN f = places
    OBVIOUS
  <2> HIDE DEF f
  <2> QED BY <1>8, <2>1, ImageIsFinite
<1>12. ASSUME NEW r \in Members(ledger)
       PROVE  /\ r.character \in Character /\ r.rating \in Int
              /\ r.series \in Nat /\ r.opponents \in Nat
              /\ r.key = <<r.key[1], IF r.key[1] = "mirror" THEN Class[r.character] ELSE 0>>
  <2>1. PICK x \in places : r = Row(x)
    BY <1>1
  <2> QED BY <1>7, <1>10, <2>1
<1>13. ASSUME NEW r \in Members(ledger), NEW s \in Members(ledger),
              r.key = s.key, r.character = s.character
       PROVE  r = s
  <2>1. PICK x \in places : r = Row(x)
    BY <1>1
  <2>2. PICK y \in places : s = Row(y)
    BY <1>1
  <2>3. x[1] = y[1] /\ x[2] = y[2]
    BY <1>10, <1>13, <2>1, <2>2
  <2>4. x = y
    BY <1>7, <2>3
  <2> QED BY <2>1, <2>2, <2>4
<1>14. IsFiniteSet(Members(ledger))
  BY <1>1, <1>11
<1> QED BY <1>12, <1>13, <1>14 DEF MembersOk, ledger

\* What a row is ranked by.
Rank1(r, ladder) == IF Placing(r, ladder) THEN 0 ELSE 1
Rank2(r, ladder) == IF Placing(r, ladder) THEN r.series ELSE r.rating
Rank3(store, r, ladder) ==
  IF Placing(r, ladder) THEN r.opponents ELSE BoardRecord(store, r.character, ladder).wins

LEMMA RanksByParts ==
  ASSUME NEW store, NEW ladder, NEW r, NEW s
  PROVE  LET r1 == Rank1(r, ladder)
             r2 == Rank2(r, ladder)
             r3 == Rank3(store, r, ladder)
             s1 == Rank1(s, ladder)
             s2 == Rank2(s, ladder)
             s3 == Rank3(store, s, ladder)
         IN RanksAbove(store, ladder, r, s)
              <=> \/ r1 # s1 /\ r1 > s1
                  \/ r1 = s1 /\ r2 # s2 /\ r2 > s2
                  \/ r1 = s1 /\ r2 = s2 /\ r3 # s3 /\ r3 > s3
                  \/ r1 = s1 /\ r2 = s2 /\ r3 = s3 /\ r.character < s.character
<1> DEFINE Wins(x) == BoardRecord(store, x.character, ladder).wins
           u == IF Placing(r, ladder) THEN <<0, r.series, r.opponents>> ELSE <<1, r.rating, Wins(r)>>
           v == IF Placing(s, ladder) THEN <<0, s.series, s.opponents>> ELSE <<1, s.rating, Wins(s)>>
           i == {k \in 1..3 : u[k] # v[k]}
           k1 == CHOOSE k \in i : \A j \in i : k <= j
<1>1. RanksAbove(store, ladder, r, s)
        <=> IF i = {} THEN r.character < s.character ELSE u[k1] > v[k1]
  BY DEF RanksAbove
<1>2. /\ u[1] = Rank1(r, ladder) /\ u[2] = Rank2(r, ladder) /\ u[3] = Rank3(store, r, ladder)
      /\ v[1] = Rank1(s, ladder) /\ v[2] = Rank2(s, ladder) /\ v[3] = Rank3(store, s, ladder)
  BY DEF Rank1, Rank2, Rank3
<1> HIDE DEF u, v
<1>3. i \subseteq 1..3 /\ (1 \in i <=> u[1] # v[1]) /\ (2 \in i <=> u[2] # v[2])
      /\ (3 \in i <=> u[3] # v[3])
  OBVIOUS
<1> HIDE DEF i
<1>4. ASSUME NEW k \in i, \A j \in i : k <= j PROVE k1 = k
  <2>1. ASSUME NEW l \in i, \A j \in i : l <= j PROVE l = k
    <3>1. l \in Int /\ k \in Int /\ l <= k /\ k <= l
      BY <1>3, <1>4, <2>1
    <3> QED BY <3>1
  <2> HIDE DEF i
  <2> QED BY <1>4, <2>1
<1>5. /\ 1 \in i => \A j \in i : 1 <= j
      /\ 1 \notin i => \A j \in i : 2 <= j
      /\ 1 \notin i /\ 2 \notin i => \A j \in i : 3 <= j
  <2>1. \A j \in i : j = 1 \/ j = 2 \/ j = 3
    BY <1>3
  <2>2. ASSUME NEW j \in i
        PROVE  1 <= j /\ (1 \notin i => 2 <= j) /\ (1 \notin i /\ 2 \notin i => 3 <= j)
    BY <2>1
  <2> QED BY <2>2
<1>6. /\ 1 \in i => k1 = 1
      /\ 1 \notin i /\ 2 \in i => k1 = 2
      /\ 1 \notin i /\ 2 \notin i /\ 3 \in i => k1 = 3
  <2> HIDE DEF k1
  <2> QED BY <1>4, <1>5
<1>7. i = {} <=> 1 \notin i /\ 2 \notin i /\ 3 \notin i
  BY <1>3
<1> HIDE DEF k1
<1>8. \/ 1 \in i /\ i # {} /\ k1 = 1
      \/ 1 \notin i /\ 2 \in i /\ i # {} /\ k1 = 2
      \/ 1 \notin i /\ 2 \notin i /\ 3 \in i /\ i # {} /\ k1 = 3
      \/ 1 \notin i /\ 2 \notin i /\ 3 \notin i /\ i = {}
  BY <1>6, <1>7
<1> QED BY <1>1, <1>2, <1>3, <1>8

LEMMA WinsAreCounted ==
  ASSUME ShelfInv, NEW store, NEW p, NEW ladder
  PROVE  BoardRecord(store, p, ladder).wins \in Nat
<1> DEFINE won == {m \in OnBoard(p, ladder) : GamesWon(m, p) > AgainstIn(store, m, p)}
           lost == {m \in OnBoard(p, ladder) : GamesWon(m, p) < AgainstIn(store, m, p)}
<1>1. BoardRecord(store, p, ladder) = WinLoss(won, lost)
  BY DEF BoardRecord, AgainstIn
<1>2. won \subseteq Range(shelf)
  BY DEF OnBoard
<1> HIDE DEF won, lost
<1>3. IsFiniteSet(won)
  BY <1>2, PageOfShelf, FS_Subset
<1> QED BY <1>1, <1>3, FS_CardinalityType DEF WinLoss

\* The rows of a ladder, and their order.
RowsOf(members, ladder) == {row \in members : row.key[1] = ladder}
Ranking(store, rows, ladder) == {z \in rows \X rows : RanksAbove(store, ladder, z[1], z[2])}

LEMMA RowsAreRanked ==
  ASSUME ShelfInv, NEW members, MembersOk(members), NEW store, NEW ladder
  PROVE  LET rows == RowsOf(members, ladder)
         IN IsFiniteSet(rows) /\ StrictOrder(rows, Ranking(store, rows, ladder))
<1> DEFINE rows == RowsOf(members, ladder)
           R == Ranking(store, rows, ladder)
<1>1. rows \subseteq members /\ \A r \in rows : r.key[1] = ladder
  BY DEF RowsOf
<1> HIDE DEF rows
<1>2. IsFiniteSet(rows)
  BY <1>1, FS_Subset DEF MembersOk
<1>3. \A x, y \in rows : <<x, y>> \in R <=> RanksAbove(store, ladder, x, y)
  BY DEF Ranking
<1> HIDE DEF R
<1>4. ASSUME NEW r \in rows
      PROVE  /\ Rank1(r, ladder) \in Int /\ Rank2(r, ladder) \in Int
             /\ Rank3(store, r, ladder) \in Int /\ r.character \in Nat
  <2>1. /\ r.character \in Character /\ r.rating \in Int
        /\ r.series \in Nat /\ r.opponents \in Nat
    BY <1>1 DEF MembersOk
  <2>2. BoardRecord(store, r.character, ladder).wins \in Nat
    BY WinsAreCounted
  <2>3. Rank1(r, ladder) \in Int /\ Rank2(r, ladder) \in Int
    BY <2>1 DEF Rank1, Rank2
  <2>4. Rank3(store, r, ladder) \in Int
    BY <2>1, <2>2 DEF Rank3
  <2>5. r.character \in Nat
    BY <2>1, Settings
  <2> QED BY <2>3, <2>4, <2>5
<1>5. ASSUME NEW x \in rows PROVE <<x, x>> \notin R
  <2>1. PICK c \in Nat : c = x.character
    BY <1>4
  <2>2. ~(c < c)
    OBVIOUS
  <2>3. ~RanksAbove(store, ladder, x, x)
    BY <2>1, <2>2, RanksByParts
  <2> QED BY <1>3, <2>3
<1>6. ASSUME NEW x \in rows, NEW y \in rows, x # y
      PROVE  <<x, y>> \in R \/ <<y, x>> \in R
  <2>1. PICK x1 \in Int, x2 \in Int, x3 \in Int, c \in Nat :
          /\ x1 = Rank1(x, ladder) /\ x2 = Rank2(x, ladder)
          /\ x3 = Rank3(store, x, ladder) /\ c = x.character
    BY <1>4
  <2>2. PICK y1 \in Int, y2 \in Int, y3 \in Int, d \in Nat :
          /\ y1 = Rank1(y, ladder) /\ y2 = Rank2(y, ladder)
          /\ y3 = Rank3(store, y, ladder) /\ d = y.character
    BY <1>4
  <2>3. c # d
    <3> SUFFICES ASSUME c = d PROVE FALSE
      OBVIOUS
    <3>1. x.character = y.character
      BY <2>1, <2>2
    <3>2. x \in members /\ y \in members /\ x.key[1] = y.key[1]
      BY <1>1
    <3>3. x.key = y.key
      BY <3>1, <3>2 DEF MembersOk
    <3> QED BY <1>6, <3>1, <3>2, <3>3 DEF MembersOk
  <2>4. RanksAbove(store, ladder, x, y)
          <=> \/ x1 # y1 /\ x1 > y1
              \/ x1 = y1 /\ x2 # y2 /\ x2 > y2
              \/ x1 = y1 /\ x2 = y2 /\ x3 # y3 /\ x3 > y3
              \/ x1 = y1 /\ x2 = y2 /\ x3 = y3 /\ c < d
    BY <2>1, <2>2, RanksByParts
  <2>5. RanksAbove(store, ladder, y, x)
          <=> \/ y1 # x1 /\ y1 > x1
              \/ y1 = x1 /\ y2 # x2 /\ y2 > x2
              \/ y1 = x1 /\ y2 = x2 /\ y3 # x3 /\ y3 > x3
              \/ y1 = x1 /\ y2 = x2 /\ y3 = x3 /\ d < c
    BY <2>1, <2>2, RanksByParts
  <2>6. RanksAbove(store, ladder, x, y) \/ RanksAbove(store, ladder, y, x)
    BY <2>3, <2>4, <2>5
  <2> QED BY <1>3, <2>6
<1>7. ASSUME NEW x \in rows, NEW y \in rows, NEW z \in rows, <<x, y>> \in R, <<y, z>> \in R
      PROVE  <<x, z>> \in R
  <2>1. PICK x1 \in Int, x2 \in Int, x3 \in Int, c \in Nat :
          /\ x1 = Rank1(x, ladder) /\ x2 = Rank2(x, ladder)
          /\ x3 = Rank3(store, x, ladder) /\ c = x.character
    BY <1>4
  <2>2. PICK y1 \in Int, y2 \in Int, y3 \in Int, d \in Nat :
          /\ y1 = Rank1(y, ladder) /\ y2 = Rank2(y, ladder)
          /\ y3 = Rank3(store, y, ladder) /\ d = y.character
    BY <1>4
  <2>3. PICK z1 \in Int, z2 \in Int, z3 \in Int, e \in Nat :
          /\ z1 = Rank1(z, ladder) /\ z2 = Rank2(z, ladder)
          /\ z3 = Rank3(store, z, ladder) /\ e = z.character
    BY <1>4
  <2>4. \/ x1 # y1 /\ x1 > y1
        \/ x1 = y1 /\ x2 # y2 /\ x2 > y2
        \/ x1 = y1 /\ x2 = y2 /\ x3 # y3 /\ x3 > y3
        \/ x1 = y1 /\ x2 = y2 /\ x3 = y3 /\ c < d
    <3>1. RanksAbove(store, ladder, x, y)
      BY <1>3, <1>7
    <3> QED BY <2>1, <2>2, <3>1, RanksByParts
  <2>5. \/ y1 # z1 /\ y1 > z1
        \/ y1 = z1 /\ y2 # z2 /\ y2 > z2
        \/ y1 = z1 /\ y2 = z2 /\ y3 # z3 /\ y3 > z3
        \/ y1 = z1 /\ y2 = z2 /\ y3 = z3 /\ d < e
    <3>1. RanksAbove(store, ladder, y, z)
      BY <1>3, <1>7
    <3> QED BY <2>2, <2>3, <3>1, RanksByParts
  <2>6. \/ x1 # z1 /\ x1 > z1
        \/ x1 = z1 /\ x2 # z2 /\ x2 > z2
        \/ x1 = z1 /\ x2 = z2 /\ x3 # z3 /\ x3 > z3
        \/ x1 = z1 /\ x2 = z2 /\ x3 = z3 /\ c < e
    BY <2>4, <2>5
  <2>7. RanksAbove(store, ladder, x, z)
    BY <2>1, <2>3, <2>6, RanksByParts
  <2> QED BY <1>3, <2>7
<1> QED BY <1>2, <1>5, <1>6, <1>7 DEF StrictOrder, PartialOrder, rows, R

\* A leaderboard lists the rows of its ladder by their rank.
LEMMA LeaderboardLists ==
  ASSUME ShelfInv, NEW members, MembersOk(members), NEW store, NEW ladder
  PROVE  LET rows == RowsOf(members, ladder)
             R == Ranking(store, rows, ladder)
             board == Leaderboard(store, members, ladder)
         IN /\ DOMAIN board = 1..Cardinality(rows) /\ Cardinality(rows) \in Nat
            /\ \A k \in DOMAIN board : board[k] \in rows /\ Cardinality(Below(rows, R, board[k])) = k - 1
            /\ Range(board) = rows
<1> DEFINE rows == RowsOf(members, ladder)
           R == Ranking(store, rows, ladder)
           board == Leaderboard(store, members, ladder)
           n == Cardinality(rows)
           Rank(r) == Cardinality(Below(rows, R, r))
           Above(r) == {s \in rows : RanksAbove(store, ladder, s, r)}
<1>1. IsFiniteSet(rows) /\ StrictOrder(rows, R)
  BY RowsAreRanked
<1>2. board = [rank \in 1..n |-> CHOOSE r \in rows : Cardinality(Above(r)) = rank - 1]
  BY DEF Leaderboard, RowsOf
<1>3. \A r \in rows : Above(r) = Below(rows, R, r)
  <2> HIDE DEF rows
  <2> QED BY DEF Below, Ranking
<1> HIDE DEF rows, R, Above, board
<1>4. /\ n \in Nat
      /\ \A x \in rows : Rank(x) \in 0..n - 1
      /\ \A x, y \in rows : Rank(x) = Rank(y) => x = y
      /\ \A k \in 1..n : \E x \in rows : Rank(x) = k - 1
  BY <1>1, OneOfEachRank
<1>5. DOMAIN board = 1..n
  BY <1>2
<1> HIDE DEF n
<1>6. ASSUME NEW k \in 1..n PROVE board[k] \in rows /\ Rank(board[k]) = k - 1
  <2>1. board[k] = CHOOSE r \in rows : Cardinality(Above(r)) = k - 1
    BY <1>2
  <2>2. PICK x \in rows : Rank(x) = k - 1
    BY <1>4
  <2>3. Cardinality(Above(x)) = k - 1
    BY <1>3, <2>2
  <2>4. board[k] \in rows /\ Cardinality(Above(board[k])) = k - 1
    BY <2>1, <2>2, <2>3
  <2> QED BY <1>3, <2>4
<1>7. ASSUME NEW x \in rows PROVE x \in Range(board)
  <2>1. PICK j \in Nat : j = Rank(x) /\ j <= n - 1
    BY <1>4
  <2>2. j + 1 \in 1..n /\ (j + 1) - 1 = j
    BY <1>4, <2>1
  <2>3. board[j + 1] \in rows /\ Rank(board[j + 1]) = Rank(x)
    BY <1>6, <2>1, <2>2
  <2>4. board[j + 1] = x
    BY <1>4, <2>3
  <2> QED BY <1>5, <2>2, <2>4 DEF Range
<1>8. Range(board) \subseteq rows
  BY <1>5, <1>6 DEF Range
<1>9. Range(board) = rows
  BY <1>7, <1>8
<1> QED BY <1>4, <1>5, <1>6, <1>9 DEF n, rows, R, board

LEMMA ShelfSortsBoard ==
  ASSUME ShelfInv, Replayable(Events(shelf))
  PROVE  BoardSorted
<1> DEFINE members == Members(Ledger)
<1>1. MembersOk(members)
  BY MembersAre
<1> HIDE DEF members
<1>2. ASSUME NEW ladder,
             NEW i \in DOMAIN Leaderboard("pg", members, ladder),
             NEW j \in DOMAIN Leaderboard("pg", members, ladder),
             i < j, ~Placing(Leaderboard("pg", members, ladder)[j], ladder)
      PROVE  /\ ~Placing(Leaderboard("pg", members, ladder)[i], ladder)
             /\ Leaderboard("pg", members, ladder)[i].rating
                  >= Leaderboard("pg", members, ladder)[j].rating
  <2> DEFINE rows == RowsOf(members, ladder)
             R == Ranking("pg", rows, ladder)
             board == Leaderboard("pg", members, ladder)
  <2>1. /\ DOMAIN board = 1..Cardinality(rows) /\ Cardinality(rows) \in Nat
        /\ \A k \in DOMAIN board : board[k] \in rows /\ Cardinality(Below(rows, R, board[k])) = k - 1
    BY <1>1, LeaderboardLists
  <2>2. IsFiniteSet(rows) /\ StrictOrder(rows, R)
    BY <1>1, RowsAreRanked
  <2>3. i \in Nat /\ j \in Nat
    <3>1. i \in DOMAIN board /\ j \in DOMAIN board
      OBVIOUS
    <3> HIDE DEF board, rows
    <3> QED BY <2>1, <3>1
  <2>4. PICK r, s : r = board[i] /\ s = board[j]
    OBVIOUS
  <2>5. /\ r \in rows /\ s \in rows
        /\ Cardinality(Below(rows, R, r)) = i - 1 /\ Cardinality(Below(rows, R, s)) = j - 1
    BY <2>1, <2>4
  <2>6. \A x, y : <<x, y>> \in R => RanksAbove("pg", ladder, x, y)
    BY DEF Ranking
  <2>7. rows \subseteq members
    BY DEF RowsOf
  <2> HIDE DEF rows, R, board
  <2>8. r # s
    BY <1>2, <2>3, <2>5
  <2>9. <<s, r>> \notin R
    <3> SUFFICES ASSUME <<s, r>> \in R PROVE FALSE
      OBVIOUS
    <3>1. Cardinality(Below(rows, R, s)) < Cardinality(Below(rows, R, r))
      BY <2>2, <2>5, FewerBelow DEF StrictOrder
    <3> QED BY <1>2, <2>3, <2>5, <3>1
  <2>10. RanksAbove("pg", ladder, r, s)
    BY <2>2, <2>5, <2>6, <2>8, <2>9 DEF StrictOrder
  <2>11. r.rating \in Int /\ s.rating \in Int
    BY <1>1, <2>5, <2>7 DEF MembersOk
  <2>12. ~Placing(s, ladder)
    BY <1>2, <2>4 DEF board
  <2>13. Rank1(s, ladder) = 1 /\ Rank2(s, ladder) = s.rating
    BY <2>12 DEF Rank1, Rank2
  <2>14. ~Placing(r, ladder)
    <3> SUFFICES ASSUME Placing(r, ladder) PROVE FALSE
      OBVIOUS
    <3>1. Rank1(r, ladder) = 0
      BY DEF Rank1
    <3> QED BY <2>10, <2>13, <3>1, RanksByParts
  <2>15. Rank1(r, ladder) = 1 /\ Rank2(r, ladder) = r.rating
    BY <2>14 DEF Rank1, Rank2
  <2>16. r.rating = s.rating \/ r.rating > s.rating
    BY <2>10, <2>13, <2>15, RanksByParts
  <2>17. PICK x \in Int, y \in Int : x = r.rating /\ y = s.rating
    BY <2>11
  <2>18. x >= y
    BY <2>16, <2>17
  <2> QED BY <2>4, <2>14, <2>17, <2>18 DEF board
<1> QED BY <1>2 DEF BoardSorted, members

LEMMA ShelfTellsBlocks ==
  ASSUME ShelfInv, Replayable(Events(shelf))
  PROVE  BlocksAgree
<1> DEFINE members == Members(Ledger)
<1>1. MembersOk(members)
  BY MembersAre
<1> HIDE DEF members
<1>2. ASSUME NEW ladder \in {"open", "mirror"}, NEW p \in Character
      PROVE  {Shown(row, ladder) :
                row \in {r \in Range(Leaderboard("pg", members, ladder)) : r.character = p}}
               = {LadderBlock(members, p, ladder)} \ {<<"unrated">>}
  <2> DEFINE own == {row \in members : /\ row.character = p /\ row.key[1] = ladder
                                       /\ ladder = "mirror" => row.key[2] = Class[p]}
             board == Range(Leaderboard("pg", members, ladder))
  <2>1. LadderBlock(members, p, ladder)
          = IF own = {} THEN <<"unrated">> ELSE Shown(CHOOSE row \in own : TRUE, ladder)
    BY DEF LadderBlock
  <2>2. board = {row \in members : row.key[1] = ladder}
    <3>1. board = RowsOf(members, ladder)
      BY <1>1, LeaderboardLists
    <3> QED BY <3>1 DEF RowsOf
  <2>3. own = {r \in board : r.character = p}
    <3>1. ASSUME NEW r \in members, r.character = p, r.key[1] = ladder, ladder = "mirror"
          PROVE  r.key[2] = Class[p]
      <4>1. r.key = <<r.key[1], Class[p]>>
        BY <1>1, <3>1 DEF MembersOk
      <4> QED BY <4>1
    <3> HIDE DEF board
    <3> QED BY <2>2, <3>1
  <2>4. \A r, s \in own : r = s
    <3>1. ASSUME NEW r \in own, NEW s \in own PROVE r = s
      <4>1. /\ r \in members /\ s \in members /\ r.character = p /\ s.character = p
            /\ r.key[1] = s.key[1]
        OBVIOUS
      <4>2. r.key = s.key
        BY <1>1, <4>1 DEF MembersOk
      <4> QED BY <1>1, <4>1, <4>2 DEF MembersOk
    <3> QED BY <3>1
  <2>5. \A r : Shown(r, ladder) # <<"unrated">>
    BY DEF Shown
  <2> HIDE DEF own, board
  <2>6. CASE own = {}
    <3>1. {Shown(row, ladder) : row \in own} = {}
      BY <2>6
    <3> QED BY <2>1, <2>3, <2>6, <3>1 DEF board
  <2>7. CASE own # {}
    <3>1. PICK r \in own : TRUE
      BY <2>7
    <3>2. own = {r} /\ (CHOOSE row \in own : TRUE) = r
      BY <2>4, <3>1
    <3>3. {Shown(row, ladder) : row \in own} = {Shown(r, ladder)}
      BY <3>2
    <3>4. LadderBlock(members, p, ladder) = Shown(r, ladder)
      BY <2>1, <2>7, <3>2
    <3> QED BY <2>3, <2>5, <3>3, <3>4 DEF board
  <2> QED BY <2>6, <2>7
<1> QED BY <1>2 DEF BlocksAgree, members

\* The site tells one story: the records of the leaderboard, the page and the
\* rivals, the cards of rated series, the order of the leaderboard and the
\* rating blocks of the pages agree, whatever matches are settled (reads.ts and
\* PgReadModel of pg.ts over buildGeneration of replay.ts).
THEOREM PagesTold == BoardsSpec => []PagesAgree
<1>1. ShelfInv => PagesAgree
  BY ShelfTellsRecords, ShelfTellsRated, ShelfSortsBoard, ShelfTellsBlocks DEF PagesAgree
<1> QED BY <1>1, ShelfInvariant, PTL
=============================================================================
