------------------------------- MODULE Boards -------------------------------
(***************************************************************************)
(* What the site shows: the leaderboard, a player's page, their rivals and *)
(* the cards of their matches, as the two stores compute them (reads.ts    *)
(* and PgReadModel in pg.ts), over the matches that are settled and the    *)
(* generation rated from them (Rating.tla).                                *)
(*                                                                         *)
(* `shelf` lists the matches in the order the database returns them.       *)
(***************************************************************************)
EXTENDS Rating

CONSTANTS
  Pool,          \* the match rows that may be settled
  MaxShelf,      \* bound on how many of them are
  NoOne,         \* a game nobody won, a series nobody leads
  Need,          \* the placement a ladder asks for: series and opponents
  PageLimit,     \* limit of matchIndexRows for a player's page
  RivalCap       \* cap of computeRivals

\* A row of matches, match_contracts and match_games; `ladder` is "none" for
\* a null ladder, `filed` says that a report is on file, `first` is what the
\* first report on file says of the games.
Match == [id: Nat, seq: Nat, seen: Nat, ladder: {"open", "mirror", "none"},
          a: Character, b: Character, bestOf: {1, 3, 5}, games: Seq(Character \cup {NoOne}),
          finished: BOOLEAN, filed: BOOLEAN, first: Seq(Character \cup {NoOne}),
          evidence: {"awaiting", "peer_supported", "corroborated", "disputed"},
          rating: {"ineligible", "pending", "applied", "held"}]

ASSUME BoardsAssumption ==
  /\ NoOne \notin Character
  /\ Pool \subseteq Match
  /\ \A m \in Pool : m.a < m.b
  /\ \A m, n \in Pool : m # n => m.id # n.id /\ m.seq # n.seq
  /\ {MaxShelf, PageLimit, RivalCap} \subseteq Nat
  /\ Need \in [{"open", "mirror"} -> [series: Nat, opponents: Nat]]

VARIABLE shelf

BoardsInit == shelf = <<>>

\* A match is settled: its row, its games and its verdict are there to be read.
Shelve(m) ==
  /\ Len(shelf) < MaxShelf
  /\ m \in Pool \ Range(shelf)
  /\ shelf' = Append(shelf, m)

BoardsNext == \E m \in Pool : Shelve(m)

BoardsSpec == BoardsInit /\ [][BoardsNext]_shelf

-----------------------------------------------------------------------------
(* The rating of the settled matches. *)

Tally(games, c) == Cardinality({i \in DOMAIN games : games[i] = c})
GamesWon(m, c) == Tally(m.games, c)
WinsNeeded(m) == (m.bestOf + 1) \div 2

\* Whoever won the games a series needs; of several, who won a first game last.
WinnerIn(m, games) ==
  LET reached == {c \in Character : Tally(games, c) >= WinsNeeded(m)}
      First(c) == Min({i \in DOMAIN games : games[i] = c})
  IN IF reached = {} THEN NoOne ELSE CHOOSE c \in reached : \A d \in reached : First(d) <= First(c)

\* deriveEvent: when the agreed games have no winner, that of the first report
\* on file, whoever sent it.
SeriesWinner(m) ==
  LET agreed == WinnerIn(m, m.games) IN
  IF agreed = NoOne /\ m.filed THEN WinnerIn(m, m.first) ELSE agreed

\* deriveEvent: a winner other than A counts as B, nobody as a half.
EventOf(m) ==
  LET winner == SeriesWinner(m) IN
  [id |-> m.id, seq |-> m.seq, seen |-> m.seen, a |-> m.a, b |-> m.b,
   ladder |-> IF m.ladder = "none" THEN "open" ELSE m.ladder,
   score |-> IF winner = NoOne THEN 1 ELSE IF winner = m.a THEN 2 ELSE 0,
   eligible |-> /\ m.finished /\ m.evidence = "corroborated"
                /\ m.rating \in {"pending", "applied"} /\ m.ladder # "none"]

Events(matches) == [i \in DOMAIN matches |-> EventOf(matches[i])]
Ledger == Replay(Events(shelf))

-----------------------------------------------------------------------------
(* Cards and pages. *)

\* summarize, matchIndexRows: the leader in games won.
CardWinner(m) ==
  IF GamesWon(m, m.a) > GamesWon(m, m.b) THEN m.a
  ELSE IF GamesWon(m, m.b) > GamesWon(m, m.a) THEN m.b ELSE NoOne

Status(m) ==
  IF m.evidence = "corroborated"
  THEN IF m.rating \in {"applied", "pending"} THEN "rated" ELSE "received"
  ELSE IF m.evidence = "disputed" THEN "under_review"
  ELSE IF m.filed THEN "awaiting_opponent" ELSE "recorded_locally"

PlayedBy(m, p) == p \in {m.a, m.b}
OtherOf(m, p) == IF m.a = p THEN m.b ELSE m.a
LadderOf(m) == IF m.ladder = "mirror" THEN "mirror" ELSE "open"

\* Only Postgres cuts a player's page off, at the matches seen last.
OnPage(store, p) ==
  LET mine == {m \in Range(shelf) : PlayedBy(m, p)}
      Newer(m) == {n \in mine : n.seen > m.seen \/ (n.seen = m.seen /\ n.seq > m.seq)}
  IN IF store = "memory" THEN mine ELSE {m \in mine : Cardinality(Newer(m)) < PageLimit}

WinLoss(won, lost) == [wins |-> Cardinality(won), losses |-> Cardinality(lost)]

\* playerDetail: decided and not disputed.
PageRecord(store, p, ladder) ==
  LET decided == {m \in OnPage(store, p) : /\ LadderOf(m) = ladder
                                           /\ CardWinner(m) # NoOne
                                           /\ m.evidence # "disputed"}
  IN WinLoss({m \in decided : CardWinner(m) = p}, {m \in decided : CardWinner(m) # p})

\* computeRivals, before its cap.
RivalRow(store, p, q) ==
  LET met == {m \in OnPage(store, p) : OtherOf(m, p) = q}
      decided == {m \in met : CardWinner(m) # NoOne /\ m.evidence # "disputed"}
  IN [player |-> q, meetings |-> Cardinality(met),
      last |-> CHOOSE t \in {m.seen : m \in met} : \A m \in met : m.seen <= t,
      record |-> WinLoss({m \in decided : CardWinner(m) = p}, {m \in decided : CardWinner(m) # p})]

Series(r) == r.record.wins + r.record.losses
Rivals(store, p) ==
  LET all == {RivalRow(store, p, q) : q \in {OtherOf(m, p) : m \in OnPage(store, p)}}
      Above(r) == {s \in all : Series(s) > Series(r) \/ (Series(s) = Series(r) /\ s.last > r.last)}
  IN {r \in all : Cardinality(Above(r)) < RivalCap}

-----------------------------------------------------------------------------
(* The leaderboard. *)

\* Mutant of OnBoard: disputed series still count.
OnBoardDisputed(p, ladder) ==
  {m \in Range(shelf) : PlayedBy(m, p) /\ m.finished /\ LadderOf(m) = ladder}
OnBoard(p, ladder) ==
  {m \in Range(shelf) : /\ PlayedBy(m, p) /\ m.finished
                        /\ m.evidence # "disputed" /\ LadderOf(m) = ladder}

\* decidedWinLoss in memory; the lateral join of PgReadModel.leaderboard,
\* where a game that anyone else has won counts against the player.
BoardRecord(store, p, ladder) ==
  LET Against(m) == IF store = "memory" THEN GamesWon(m, OtherOf(m, p))
                    ELSE Cardinality({i \in DOMAIN m.games : m.games[i] \notin {p, NoOne}})
      For(m) == GamesWon(m, p)
      all == OnBoard(p, ladder)
  IN WinLoss({m \in all : For(m) > Against(m)}, {m \in all : For(m) < Against(m)})

Placing(row, ladder) ==
  row.series < Need[ladder].series \/ row.opponents < Need[ladder].opponents

\* Rated players first, by rating and then wins; the others by their progress.
\* Names break the ties that are left.
RanksAbove(store, ladder, r, s) ==
  LET Wins(x) == BoardRecord(store, x.character, ladder).wins
      r1 == IF Placing(r, ladder) THEN <<0, r.series, r.opponents>> ELSE <<1, r.rating, Wins(r)>>
      s1 == IF Placing(s, ladder) THEN <<0, s.series, s.opponents>> ELSE <<1, s.rating, Wins(s)>>
      i == {k \in 1..3 : r1[k] # s1[k]}
  IN IF i = {} THEN r.character < s.character
     ELSE LET k == CHOOSE k \in i : \A j \in i : k <= j IN r1[k] > s1[k]

Leaderboard(store, members, ladder) ==
  LET rows == {row \in members : row.key[1] = ladder}
      Above(r) == {s \in rows : RanksAbove(store, ladder, s, r)}
  IN [rank \in 1..Cardinality(rows) |-> CHOOSE r \in rows : Cardinality(Above(r)) = rank - 1]

\* What a row of the leaderboard shows, and the rating block of a page.
Shown(row, ladder) ==
  IF Placing(row, ladder) THEN <<"placing", row.series, row.opponents>>
  ELSE <<"rated", row.rating>>

\* ladderBlock: the first member row of the character, on the mirror ladder the
\* one of their class.
LadderBlock(members, p, ladder) ==
  LET rows == {row \in members : /\ row.character = p /\ row.key[1] = ladder
                                 /\ ladder = "mirror" => row.key[2] = Class[p]}
  IN IF rows = {} THEN <<"unrated">> ELSE Shown(CHOOSE row \in rows : TRUE, ladder)

-----------------------------------------------------------------------------
(***************************************************************************)
(* Properties                                                              *)
(***************************************************************************)

\* However characters and ladders are mixed, two accounts give each other at
\* most three series with weight in seven days (rating.ts, PAIR_WEIGHTS).
PairCap ==
  LET ledger == Ledger IN
  \A i \in DOMAIN ledger :
    Cardinality({j \in DOMAIN ledger :
        /\ {Owner[ledger[j].event.a], Owner[ledger[j].event.b]}
             = {Owner[ledger[i].event.a], Owner[ledger[i].event.b]}
        /\ ledger[j].weight > 0
        /\ ledger[j].event.seen >= ledger[i].event.seen
        /\ ledger[j].event.seen < ledger[i].event.seen + Week}) <= 3

\* The ledger does not depend on the order the matches are listed in
\* (rating.ts: "Order-independent").
ReplayOrderFree ==
  LET ledger == Ledger IN
  Replayable(Events(shelf)) =>
    \A p \in Bijection(DOMAIN shelf, DOMAIN shelf) :
      ledger = Replay(Events([i \in DOMAIN shelf |-> shelf[p[i]]]))

\* The site tells one story.  A player has the same record on the leaderboard
\* and on their page, from either store, as long as the page shows all their
\* matches, their decided series are finished and the games were won by the
\* players; the record is what their rivals add up to; a rated series that was
\* won in its agreed games was rated as the win of the player its card shows,
\* unless a third character won it (one that its games leave open is rated by
\* the first report on file, an onlooker's too, and its card shows who leads);
\* no rated player stands below one with a lower rating, or below one who is
\* still placing; and a page shows the rating or the progress its player has on
\* the leaderboard.
OwnGames(m) == \A i \in DOMAIN m.games : m.games[i] \in {m.a, m.b, NoOne}

Plain(p) == \A m \in Range(shelf) : PlayedBy(m, p) =>
  (m.finished \/ CardWinner(m) = NoOne) /\ OwnGames(m)

WholePage(store, p) == OnPage(store, p) = OnPage("memory", p)

RecordsAgree ==
  \A store \in {"memory", "pg"}, p \in Character :
    LET rivals == Rivals(store, p)
        open == PageRecord(store, p, "open")
        mirror == PageRecord(store, p, "mirror") IN
    /\ WholePage(store, p) /\ Plain(p) =>
         \A ladder \in {"open", "mirror"} :
           BoardRecord(store, p, ladder) = PageRecord(store, p, ladder)
    /\ Cardinality(rivals) < RivalCap =>
         /\ FoldFunction(+, 0, [r \in rivals |-> r.record.wins]) = open.wins + mirror.wins
         /\ FoldFunction(+, 0, [r \in rivals |-> r.record.losses]) = open.losses + mirror.losses

RatedAsShown ==
  \A l \in Range(Ledger), m \in Range(shelf) :
    LET e == l.event IN
    m.id = e.id /\ Len(m.games) <= m.bestOf /\ OwnGames(m) =>
      /\ Status(m) = "rated"
      /\ WinnerIn(m, m.games) # NoOne =>
           e.score # 1 /\ CardWinner(m) = (IF e.score = 2 THEN e.a ELSE e.b)

BoardSorted ==
  LET members == Members(Ledger) IN
  \A ladder \in {"open", "mirror"} :
    LET rows == Leaderboard("pg", members, ladder) IN
    \A i, j \in DOMAIN rows : i < j /\ ~Placing(rows[j], ladder) =>
      ~Placing(rows[i], ladder) /\ rows[i].rating >= rows[j].rating

BlocksAgree ==
  LET members == Members(Ledger) IN
  \A ladder \in {"open", "mirror"} :
    LET board == Range(Leaderboard("pg", members, ladder)) IN
    \A p \in Character :
      {Shown(row, ladder) : row \in {r \in board : r.character = p}}
        = {LadderBlock(members, p, ladder)} \ {<<"unrated">>}

\* (A replay that throws builds no generation to compare.)
PagesAgree ==
  /\ RecordsAgree
  /\ RatedAsShown
  /\ Replayable(Events(shelf)) => BoardSorted /\ BlocksAgree
=============================================================================
