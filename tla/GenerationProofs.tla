-------------------------- MODULE GenerationProofs --------------------------
(***************************************************************************)
(* Theorems about Generation: what a rating build publishes while batch    *)
(* handlers, crashes and other builds run between any two of its reads.    *)
(***************************************************************************)
EXTENDS Generation, IngestProofs, WellFoundedInduction

-----------------------------------------------------------------------------
(***************************************************************************)
(* A build leaves the tables alone, or marks a match it counted.           *)
(***************************************************************************)

\* The step leaves the tables alone but for the ratings of matches that the
\* reports support, which it marks as applied.
Marks ==
  /\ UNCHANGED <<tier, contract, games, log, receipts, rev, req>>
  /\ matches' \in [Match -> MatchRow]
  /\ \A m \in Match :
       /\ matches'[m].lifecycle = matches[m].lifecycle
       /\ matches'[m].evidence = matches[m].evidence
       /\ matches'[m].receipt = matches[m].receipt
       /\ \/ matches'[m] = matches[m]
          \/ matches'[m].rating = "applied" /\ Supported(m)

\* Ingestion's invariant does not depend on the timer, and a mark keeps it.
LEMMA MarksKeep ==
  ASSUME IngestInv, Marks, timer' \in BOOLEAN
  PROVE  IngestInv' /\ Grows
<1>1. TypeOK' /\ TypeOK
  BY DEF IngestInv, TypeOK, Marks
<1>2. Grows
  BY <1>1 DEF TypeOK, Grows, Marks
<1>3. \A r \in Request : HandlerInv(r)'
  BY <1>1, <1>2, HandlerKept DEF Marks
<1>4. ASSUME NEW m \in Match
      PROVE  /\ contract'[m] = NoDoc => matches'[m] = NewMatchRow
             /\ contract'[m] # NoDoc => contract'[m].session = m
             /\ matches'[m].receipt <= receipts'
             /\ matches'[m].rating \in {"pending", "applied"} => Supported(m)'
             /\ matches'[m].rating = "held" => Conflicted(m)'
             /\ games'[m] # NoClaim => AgreedOn(m, games[m])'
  <2>1. contract[m] = NoDoc => matches[m] = NewMatchRow /\ ~Supported(m)
    BY DEF IngestInv, UnboundIsNew, Supported
  <2>2. contract'[m] = NoDoc => matches'[m] = NewMatchRow
    BY <2>1 DEF Marks
  <2>3. contract'[m] # NoDoc => contract'[m].session = m
    BY DEF IngestInv, Marks
  <2>4. matches'[m].receipt <= receipts'
    BY DEF IngestInv, Marks
  <2>5. /\ Supported(m) => Supported(m)'
        /\ Conflicted(m) => Conflicted(m)'
        /\ \A w : AgreedOn(m, w) => AgreedOn(m, w)'
    BY <1>1, <1>2, BackingKept
  <2>6. matches'[m].rating \in {"pending", "applied"} => Supported(m)'
    BY <2>5 DEF IngestInv, RatedOnlyWhenAgreed, Marks
  <2>7. matches'[m].rating = "held" => Conflicted(m)'
    BY <2>5 DEF IngestInv, HeldOnlyWhenContested, Marks
  <2>8. games'[m] # NoClaim => AgreedOn(m, games[m])'
    <3>1. games' = games
      BY DEF Marks
    <3>2. games[m] # NoClaim => AgreedOn(m, games[m])
      BY DEF IngestInv, GamesAreAgreed
    <3>3. \A w : w = games[m] /\ games[m] # NoClaim => AgreedOn(m, w)'
      BY <2>5, <3>2
    <3>4. \A w : AgreedOn(m, w)' /\ games'[m] = w => AgreedOn(m, games[m])'
      BY DEF AgreedOn
    <3> QED BY <3>1, <3>3, <3>4
  <2> QED BY <2>2, <2>3, <2>4, <2>6, <2>7, <2>8
<1>5. (UnboundIsNew /\ RatedOnlyWhenAgreed /\ HeldOnlyWhenContested)'
  BY <1>4 DEF UnboundIsNew, RatedOnlyWhenAgreed, HeldOnlyWhenContested
<1>6. GamesAreAgreed'
  BY <1>4 DEF GamesAreAgreed
<1>7. ReceiptsUnique' /\ OneRowPerNonce'
  BY DEF IngestInv, ReceiptsUnique, OneRowPerNonce, Marks
<1>8. \A m \in Match : /\ contract'[m] # NoDoc => contract'[m].session = m
                       /\ matches'[m].receipt <= receipts'
  BY <1>4
<1> QED BY <1>1, <1>2, <1>3, <1>5, <1>6, <1>7, <1>8 DEF IngestInv

\* An expired timer and a build that reads mark nothing.
LEMMA QuietMarks ==
  ASSUME IngestInv, UNCHANGED <<store, req>>
  PROVE  Marks
BY DEF Marks, store, IngestInv, TypeOK

\* A match the build counted is supported when it is marked.
LEMMA MarkMarks ==
  ASSUME GenInv, NEW k \in Match, Mark(k)
  PROVE  Marks /\ Supported(k) /\ k \in Counted
<1>1. /\ build.pc = "mark" /\ k \in build.todo
      /\ matches' = [matches EXCEPT ![k] = [matches[k] EXCEPT !.rating = "applied"]]
      /\ UNCHANGED <<tier, contract, games, log, receipts, rev, req>>
  BY DEF Mark, SetMatch
<1>2. k \in Counted /\ build.events = head.events
  BY <1>1 DEF GenInv, BuildInv
<1>3. Supported(k)
  BY <1>2 DEF GenInv, Counted, EventBacked
<1>4. matches \in [Match -> MatchRow] /\ matches[k] \in MatchRow
  BY DEF GenInv, IngestInv, TypeOK
<1>5. /\ matches' \in [Match -> MatchRow]
      /\ \A m \in Match : m # k => matches'[m] = matches[m]
      /\ matches'[k] = [matches[k] EXCEPT !.rating = "applied"]
  BY <1>1, <1>4 DEF MatchRow, Rating
<1>6. /\ matches'[k].lifecycle = matches[k].lifecycle
      /\ matches'[k].evidence = matches[k].evidence
      /\ matches'[k].receipt = matches[k].receipt
      /\ matches'[k].rating = "applied"
  BY <1>4, <1>5 DEF MatchRow
<1>7. Marks
  BY <1>1, <1>3, <1>5, <1>6 DEF Marks
<1> QED BY <1>2, <1>3, <1>7

\* A step of the server is a step of ingestion, or one that marks.
LEMMA StepKind ==
  ASSUME GenInv, [GenNext]_genVars
  PROVE  [Next]_vars \/ (Marks /\ timer' \in BOOLEAN)
<1>1. CASE UNCHANGED genVars
  BY <1>1 DEF genVars
<1>2. ASSUME NEW r \in Request, Accept(r) \/ Handle(r) \/ Answer(r) PROVE Next
  BY <1>2 DEF Accept, Handle, Answer, Next
<1>3. ASSUME NEW c \in Character, SignUp(c) \/ CheckIn(c) PROVE Next
  BY <1>3 DEF SignUp, CheckIn, Next
<1>4. CASE Restart
  BY <1>4 DEF Restart, Next
<1>5. CASE Fire
  BY <1>5, QuietMarks DEF Fire, GenInv
<1>6. ASSUME NEW k \in Match, Mark(k) PROVE Marks /\ timer' \in BOOLEAN
  <2>1. timer' = timer /\ timer \in BOOLEAN
    BY <1>6 DEF Mark, GenInv, IngestInv, TypeOK
  <2> QED BY <1>6, <2>1, MarkMarks
<1>7. UNCHANGED vars => [Next]_vars
  OBVIOUS
<1> QED BY <1>1, <1>2, <1>3, <1>4, <1>5, <1>6, <1>7
        DEF GenNext, Regenerate, Rebuild, ReadRevision, ListMatches, ReadGames, ReadReports,
            Reject, Commit, Finish, ReadRow

\* So ingestion's invariant survives the builds, and nothing on file is undone.
LEMMA IngestKept ==
  ASSUME GenInv, [GenNext]_genVars
  PROVE  IngestInv' /\ TypeOK' /\ Grows
<1>1. IngestInv
  BY DEF GenInv
<1>2. CASE [Next]_vars
  BY <1>1, <1>2, InvariantStep, GrowsStep DEF IngestInv
<1>3. CASE Marks /\ timer' \in BOOLEAN
  BY <1>1, <1>3, MarksKeep DEF IngestInv
<1> QED BY <1>2, <1>3, StepKind

-----------------------------------------------------------------------------
(***************************************************************************)
(* How the rows of a match change.                                         *)
(***************************************************************************)

\* setMatchGames writes a claim, and the games of that match only.
LEMMA WrittenIsClaim ==
  ASSUME IngestInv, NEW r \in Request, WriteGames(r)
  PROVE  /\ Session(r) \in Match
         /\ games'[Session(r)] \in Claim
         /\ \A k \in Match : k # Session(r) => games'[k] = games[k]
<1> DEFINE m == Session(r)
           n == req[r].seen
           i == Earliest(m, n)
<1>1. TypeOK /\ HandlerInv(r) /\ req[r].pc = "games"
  BY DEF IngestInv, WriteGames, At
<1>2. EvidenceOf(m, n) = "corroborated"
  BY <1>1 DEF HandlerInv, Session
<1>3. /\ m \in Match /\ contract[m] \in Doc
      /\ n \in Nat /\ Len(log) \in Nat /\ n <= Len(log) /\ Agreed(m, n)
  BY <1>1, <1>2, ReadStillTrue
<1>4. i \in FirstOfAccount(m, n)
  BY <1>3, EarliestIsClaimed
<1>5. i \in 1..Len(log)
  BY <1>3, <1>4 DEF FirstOfAccount, Independent, FiledFor
<1>6. \A k \in 1..Len(log) : log[k].body.claim \in Claim
  BY <1>1, LogEntry, IngestAssumption DEF ReportBody
<1>7. games' = [games EXCEPT ![m] = log[i].body.claim] /\ games \in [Match -> Claim \union {NoClaim}]
  BY <1>1 DEF WriteGames, TypeOK
<1> HIDE DEF i, m, n
<1>8. games'[m] \in Claim /\ \A k \in Match : k # m => games'[k] = games[k]
  BY <1>3, <1>5, <1>6, <1>7
<1> QED BY <1>3, <1>8 DEF m

\* Materialised games are never taken back.
LEMMA GamesStay ==
  ASSUME IngestInv, [Next]_vars, NEW m \in Match, games[m] # NoClaim
  PROVE  games'[m] # NoClaim
<1>1. ASSUME NEW r \in Request, WriteGames(r) PROVE games'[m] # NoClaim
  BY <1>1, WrittenIsClaim, IngestAssumption
<1> QED BY <1>1 DEF Next, Step, vars, store, Begin, Take, Resolve, OpenMatch, Quarantine,
      File, AssignReceipt, ReadMatch, ReadTiers, WriteState, Bump, End, InsertRaces,
      GamesRace, Exit, Crash, Register, Witness

\* The handler that writes the state of match m, and what it writes.
Writes(r, m) ==
  /\ WriteState(r) /\ Session(r) = m
  /\ matches'[m].evidence = EvidenceOf(m, req[r].seen)
  /\ matches'[m].rating = RatingOf(EvidenceOf(m, req[r].seen), req[r].ok)

\* setMatchState replaces the evidence and the rating of the handler's match.
LEMMA WriteStateWrites ==
  ASSUME IngestInv, NEW r \in Request, WriteState(r), NEW m \in Match
  PROVE  \/ matches'[m] = matches[m]
         \/ Writes(r, m)
<1>0. matches \in [Match -> MatchRow] /\ matches[m] \in MatchRow
  BY DEF IngestInv, TypeOK
<1>1. \A e, a, l :
        /\ [matches[m] EXCEPT !.evidence = e, !.rating = a, !.lifecycle = l].rating = a
        /\ [matches[m] EXCEPT !.evidence = e, !.rating = a, !.lifecycle = l].evidence = e
  BY <1>0 DEF MatchRow
<1>2. CASE Session(r) # m
  BY <1>0, <1>2 DEF WriteState, SetMatch
<1>3. CASE Session(r) = m
  <2> DEFINE e == EvidenceOf(m, req[r].seen)
             a == RatingOf(e, req[r].ok)
  <2>1. PICK l : SetMatch(m, [matches[m] EXCEPT !.evidence = e, !.rating = a, !.lifecycle = l])
    BY <1>3 DEF WriteState
  <2> HIDE DEF e, a
  <2>2. matches'[m] = [matches[m] EXCEPT !.evidence = e, !.rating = a, !.lifecycle = l]
    BY <1>0, <2>1 DEF SetMatch
  <2>3. matches'[m].rating = a /\ matches'[m].evidence = e
    BY <1>1, <2>2
  <2> QED BY <1>3, <2>3 DEF Writes, e, a
<1> QED BY <1>2, <1>3

\* A row keeps its verdict, is new, is disputed, or was just reconciled.
LEMMA RowSource ==
  ASSUME IngestInv, [Next]_vars, NEW m \in Match
  PROVE  \/ /\ matches'[m].lifecycle = matches[m].lifecycle
            /\ matches'[m].evidence = matches[m].evidence
            /\ matches'[m].rating = matches[m].rating
         \/ matches'[m] = NewMatchRow
         \/ matches'[m].evidence = "disputed"
         \/ \E r \in Request : Writes(r, m)
<1> DEFINE Same == /\ matches'[m].lifecycle = matches[m].lifecycle
                   /\ matches'[m].evidence = matches[m].evidence
                   /\ matches'[m].rating = matches[m].rating
           Goal == \/ Same
                   \/ matches'[m] = NewMatchRow
                   \/ matches'[m].evidence = "disputed"
                   \/ \E r \in Request : Writes(r, m)
<1>0. matches \in [Match -> MatchRow] /\ matches[m] \in MatchRow
  BY DEF IngestInv, TypeOK
<1>1. ASSUME NEW k, NEW row, SetMatch(k, row), k # m PROVE matches'[m] = matches[m]
  BY <1>0, <1>1 DEF SetMatch
<1>2. ASSUME NEW row, SetMatch(m, row) PROVE matches'[m] = row
  BY <1>0, <1>2 DEF SetMatch
<1>3. ASSUME NEW r \in Request, OpenMatch(r) PROVE Goal
  BY <1>1, <1>2, <1>3 DEF OpenMatch, store
<1>4. ASSUME NEW r \in Request, Quarantine(r) PROVE Goal
  <2>1. [matches[m] EXCEPT !.evidence = "disputed"].evidence = "disputed"
    BY <1>0 DEF MatchRow
  <2> QED BY <1>1, <1>2, <1>4, <2>1 DEF Quarantine
<1>5. ASSUME NEW r \in Request, AssignReceipt(r) PROVE Goal
  <2> DEFINE row == [matches[m] EXCEPT !.receipt = receipts + 1]
  <2>1. /\ row.rating = matches[m].rating /\ row.evidence = matches[m].evidence
        /\ row.lifecycle = matches[m].lifecycle
    BY <1>0 DEF MatchRow
  <2> QED BY <1>1, <1>2, <1>5, <2>1 DEF AssignReceipt
<1>6. ASSUME NEW r \in Request, WriteState(r) PROVE Goal
  BY <1>6, WriteStateWrites
<1>7. matches' = matches => Goal
  OBVIOUS
<1> HIDE DEF Goal
<1>8. Goal
  BY <1>3, <1>4, <1>5, <1>6, <1>7 DEF Next, Step, vars, store, Begin, Take, Resolve, File,
     ReadMatch, ReadTiers, WriteGames, Bump, End, InsertRaces, GamesRace,
     Exit, Crash, Register, Witness
<1> QED BY <1>8 DEF Goal

\* A match begins to count only in the hands of a handler that goes on to bump
\* the revision, and then as pending.
LEMMA CountableSource ==
  ASSUME IngestInv, [Next]_vars, NEW m \in Match, Countable(matches'[m])
  PROVE  \/ Countable(matches[m]) /\ matches[m].rating = matches'[m].rating
         \/ /\ matches'[m].rating = "pending"
            /\ \E r \in Request : At(r, "bump")' /\ Session(r)' = m
<1>1. CASE /\ matches'[m].lifecycle = matches[m].lifecycle
           /\ matches'[m].evidence = matches[m].evidence
           /\ matches'[m].rating = matches[m].rating
  BY <1>1 DEF Countable
<1>2. CASE matches'[m] = NewMatchRow \/ matches'[m].evidence = "disputed"
  BY <1>2 DEF Countable, NewMatchRow
<1>3. ASSUME NEW r \in Request, Writes(r, m)
      PROVE  matches'[m].rating = "pending" /\ At(r, "bump")' /\ Session(r)' = m
  <2> DEFINE rating == RatingOf(EvidenceOf(m, req[r].seen), req[r].ok)
  <2>1. rating = "pending" /\ matches'[m].rating = "pending"
    BY <1>3 DEF Writes, RatingOf, Countable
  <2>2. Goto(r, "bump")
    BY <1>3, <2>1 DEF Writes, WriteState
  <2>3. req'[r].pc = "bump" /\ req'[r].item = req[r].item
    BY <2>2, GotoFields DEF IngestInv, PC
  <2> QED BY <1>3, <2>1, <2>3 DEF Writes, At, Session
<1> QED BY <1>1, <1>2, <1>3, RowSource

\* A counting match is a ranked duel that two participants agree on.
LEMMA CountableMeans ==
  ASSUME IngestInv, NEW m \in Match, Countable(matches[m])
  PROVE  Supported(m) /\ RankedDuel(m) /\ Eligible(m)
<1>1. Supported(m)
  BY DEF IngestInv, RatedOnlyWhenAgreed, Countable
<1>2. contract[m] \in Doc /\ Len(log) \in Nat
  BY <1>1 DEF IngestInv, TypeOK, Supported
<1>3. DistinctAccounts(m)
  <2>1. PICK c, d \in Character : contract[m].players = {c, d}
    BY <1>2, IngestAssumption DEF ContractDoc
  <2>2. PICK i, j \in FirstOfAccount(m, Len(log)) : log[i].by # log[j].by
    BY <1>1 DEF Supported, Agreed
  <2>3. log[i].by \in {Owner[c], Owner[d]} /\ log[j].by \in {Owner[c], Owner[d]}
    BY <2>1, <2>2 DEF FirstOfAccount, Independent, ParticipantAccounts
  <2>4. Owner[c] # Owner[d]
    BY <2>2, <2>3
  <2> QED BY <2>1, <2>4 DEF DistinctAccounts
<1> QED BY <1>1, <1>3 DEF Supported, RankedDuel, Eligible

-----------------------------------------------------------------------------
(***************************************************************************)
(* Corroborated matches have games.                                        *)
(***************************************************************************)

\* What GamesWritten says of one handler.
GamesKnown(r) ==
  At(r, "write") /\ EvidenceOf(Session(r), req[r].seen) = "corroborated" =>
    games[Session(r)] # NoClaim

\* A handler that does not move keeps it.
LEMMA GamesKnownKept ==
  ASSUME IngestInv, Grows, NEW r \in Request, GamesKnown(r), req'[r] = req[r],
         \A m \in Match : games[m] # NoClaim => games'[m] # NoClaim
  PROVE  GamesKnown(r)'
<1> SUFFICES ASSUME req[r].pc = "write",
                    (EvidenceOf(Session(r), req[r].seen) = "corroborated")'
             PROVE  games'[Session(r)] # NoClaim
  BY DEF GamesKnown, At, Session
<1> DEFINE m == Session(r)
           n == req[r].seen
<1>1. /\ m \in Match /\ contract[m] # NoDoc
      /\ n \in 0..Len(log) /\ TypeOK
  BY ReadStillTrue DEF IngestInv
<1>2. EvidenceOf(m, n)' = EvidenceOf(m, n)
  <2>1. \A k \in Match : \A l \in 0..Len(log) : contract[k] # NoDoc =>
          EvidenceOf(k, l)' = EvidenceOf(k, l)
    BY <1>1, EvidenceStable
  <2>2. m' = m /\ n' = n
    BY DEF Session
  <2> QED BY <1>1, <2>1, <2>2
<1>3. games[m] # NoClaim
  BY <1>2 DEF GamesKnown, At
<1> QED BY <1>1, <1>3

\* The handler that moves to "write" read no agreement, or wrote the games.
LEMMA GamesKnownOwn ==
  ASSUME IngestInv, Grows, NEW r \in Request, Begin(r) \/ Step(r) \/ End(r)
  PROVE  GamesKnown(r)'
<1> SUFFICES ASSUME req'[r].pc = "write", NEW m, m = Session(r)', NEW n, n = req'[r].seen,
                    EvidenceOf(m, n)' = "corroborated"
             PROVE  games'[m] # NoClaim
  BY DEF GamesKnown, At
<1>0. TypeOK /\ HandlerInv(r)
  BY DEF IngestInv
<1>1. \A g : Become(r, g) => req'[r] = g
  BY <1>0 DEF Become, TypeOK
<1>2. \A pc \in PC : Goto(r, pc) => req'[r].pc = pc
  BY <1>0, GotoFields
<1>3. ~NextItem(r) /\ \A c, d : ~Become(r, BetweenItems(c, d))
  BY <1>1 DEF NextItem, BetweenItems
<1>4. ~Take(r) /\ ~ReadTiers(r)
  <2>1. \A body, d : [req[r] EXCEPT !.pc = "resolve", !.item = body, !.doc = d].pc = "resolve"
    BY <1>0, HandlerType DEF Handler
  <2>2. \A ok : [req[r] EXCEPT !.pc = "games", !.ok = ok].pc = "games"
    BY <1>0, HandlerType DEF Handler
  <2>3. CASE Take(r)
    <3>1. PICK body, d : Become(r, [req[r] EXCEPT !.pc = "resolve", !.item = body, !.doc = d])
      BY <2>3 DEF Take
    <3>2. req'[r] = [req[r] EXCEPT !.pc = "resolve", !.item = body, !.doc = d]
      BY <1>1, <3>1
    <3> QED BY <2>1, <3>2
  <2>4. CASE ReadTiers(r)
    <3>1. req'[r] = [req[r] EXCEPT !.pc = "games", !.ok = PlayersVerified(Session(r))]
      BY <1>1, <2>4 DEF ReadTiers
    <3> QED BY <2>2, <3>1
  <2> QED BY <2>3, <2>4
<1>5. CASE ReadMatch(r)
  <2>0. req[r].pc = "read" /\ UNCHANGED store /\ Session(r) \in Match /\ contract[Session(r)] # NoDoc
    BY <1>0, <1>5, ItemKnown, IngestAssumption DEF ReadMatch, At, HandlerInv, Session
  <2>1. PICK next \in {"write", "tiers", "games"} :
          /\ Become(r, [req[r] EXCEPT !.pc = next, !.seen = Len(log),
                                      !.life = matches[Session(r)].lifecycle])
          /\ next = "write" => EvidenceOf(Session(r), Len(log)) # "corroborated"
    BY <1>5 DEF ReadMatch
  <2>2. req'[r].pc = next /\ req'[r].seen = Len(log) /\ req'[r].item = req[r].item
    BY <1>0, <1>1, <2>1, HandlerType DEF Handler
  <2>3. m = Session(r) /\ n = Len(log)
    BY <2>2 DEF Session
  <2>4. EvidenceOf(m, n)' = EvidenceOf(m, n)
    <3>1. Len(log) \in 0..Len(log)
      BY <1>0 DEF TypeOK
    <3> QED BY <1>0, <2>0, <2>3, <3>1, EvidenceStable
  <2> QED BY <2>1, <2>2, <2>3, <2>4
<1>6. CASE WriteGames(r)
  <2>1. req'[r].item = req[r].item
    BY <1>0, <1>6, GotoFields DEF WriteGames, PC
  <2> QED BY <1>6, <2>1, WrittenIsClaim, IngestAssumption DEF Session
<1>7. ~Begin(r) /\ ~End(r)
  <2>1. IdleHandler.pc = "idle"
    BY DEF IdleHandler
  <2> QED BY <1>1, <1>3, <2>1 DEF Begin, End
<1> QED
  BY <1>2, <1>3, <1>4, <1>5, <1>6, <1>7
     DEF Step, Resolve, OpenMatch, Quarantine, File, AssignReceipt, WriteState, Bump, PC

\* Every step keeps corroborated matches with their games.
LEMMA GamesWrittenStep ==
  ASSUME GenInv, [GenNext]_genVars
  PROVE  GamesWritten'
<1>0. /\ IngestInv /\ IngestInv' /\ TypeOK /\ TypeOK' /\ Grows
      /\ \A r \in Request : GamesKnown(r)
      /\ \A m \in Match : matches[m].evidence = "corroborated" => games[m] # NoClaim
  BY IngestKept DEF GenInv, IngestInv, GamesWritten, GamesKnown
<1>1. CASE Marks
  <2>1. \A m \in Match : matches'[m].evidence = "corroborated" => games'[m] # NoClaim
    BY <1>0, <1>1 DEF Marks
  <2>2. \A r \in Request : GamesKnown(r)'
    BY <1>0, <1>1, GamesKnownKept DEF Marks
  <2> QED BY <2>1, <2>2 DEF GamesWritten, GamesKnown
<1>2. CASE [Next]_vars
  <2>1. \A m \in Match : games[m] # NoClaim => games'[m] # NoClaim
    BY <1>0, <1>2, GamesStay
  <2>2. ASSUME NEW m \in Match, matches'[m].evidence = "corroborated"
        PROVE  games'[m] # NoClaim
    <3>1. CASE matches'[m].evidence = matches[m].evidence
      BY <1>0, <2>1, <2>2, <3>1
    <3>2. CASE matches'[m] = NewMatchRow
      BY <2>2, <3>2 DEF NewMatchRow
    <3>3. ASSUME NEW r \in Request, Writes(r, m) PROVE games'[m] # NoClaim
      <4>1. At(r, "write") /\ Session(r) = m /\ EvidenceOf(m, req[r].seen) = "corroborated"
        BY <2>2, <3>3 DEF Writes, WriteState
      <4> QED BY <1>0, <2>1, <4>1 DEF GamesKnown
    <3> QED BY <1>0, <1>2, <2>2, <3>1, <3>2, <3>3, RowSource
  <2>3. ASSUME NEW q \in Request, Begin(q) \/ Step(q) \/ End(q), NEW r \in Request
        PROVE  GamesKnown(r)'
    <3>1. CASE r = q
      BY <1>0, <2>3, <3>1, GamesKnownOwn
    <3>2. CASE r # q
      <4>1. \E g : req' = [req EXCEPT ![q] = g]
        BY <2>3 DEF Begin, Step, End, Take, Resolve, OpenMatch, Quarantine, File,
             AssignReceipt, ReadMatch, ReadTiers, WriteGames, WriteState, Bump,
             NextItem, Goto, Become
      <4>2. req'[r] = req[r]
        BY <1>0, <3>2, <4>1 DEF TypeOK
      <4> QED BY <1>0, <2>1, <4>2, GamesKnownKept
    <3> QED BY <3>1, <3>2
  <2>4. ASSUME Exit, NEW r \in Request PROVE GamesKnown(r)'
    BY <2>4 DEF Exit, GamesKnown, At, IdleHandler
  <2>5. ASSUME req' = req, NEW r \in Request PROVE GamesKnown(r)'
    BY <1>0, <2>1, <2>5, GamesKnownKept
  <2>6. \A r \in Request : GamesKnown(r)'
    BY <1>2, <2>3, <2>4, <2>5 DEF Next, InsertRaces, GamesRace, Crash, Register, Witness, vars
  <2> QED BY <2>2, <2>6 DEF GamesWritten, GamesKnown
<1> QED BY <1>1, <1>2, StepKind

-----------------------------------------------------------------------------
(***************************************************************************)
(* Types.                                                                  *)
(***************************************************************************)

\* A set of naturals that is not empty has a least element.
LEMMA LeastExists ==
  ASSUME NEW T, T \subseteq Nat, T # {}
  PROVE  \E x \in T : \A y \in T : x <= y
<1>1. \E x \in T : \A y \in T : <<y, x>> \notin OpToRel(<, Nat)
  BY WFMin, NatLessThanWellFounded, Zenon
<1>2. PICK x \in T : \A y \in T : <<y, x>> \notin OpToRel(<, Nat)
  BY <1>1
<1>3. \A y \in T : ~(y < x)
  BY <1>2 DEF OpToRel
<1> QED BY <1>3

\* Builds that have not read anything yet.
LEMMA FreshType ==
  /\ \A boot, retry \in BOOLEAN : Fresh(boot, retry) \in Build
  /\ NoBuild \in Build
<1>1. \A boot, retry \in BOOLEAN : Fresh(boot, retry) \in Build
  BY DEF Fresh, Build
<1>2. \A b \in Build : [b EXCEPT !.pc = "idle"] \in Build
  BY DEF Build
<1> QED BY <1>1, <1>2 DEF NoBuild

\* Their fields.
LEMMA FreshFields ==
  /\ \A boot, retry :
       /\ Fresh(boot, retry).pc = "revision" /\ Fresh(boot, retry).rev = 0
       /\ Fresh(boot, retry).events = {} /\ Fresh(boot, retry).match = NoMatch
  /\ NoBuild.pc = "idle" /\ NoBuild.rev = 0 /\ NoBuild.events = {} /\ NoBuild.match = NoMatch
<1>1. \A boot, retry :
        /\ Fresh(boot, retry).pc = "revision" /\ Fresh(boot, retry).rev = 0
        /\ Fresh(boot, retry).events = {} /\ Fresh(boot, retry).match = NoMatch
  BY DEF Fresh
<1>2. Fresh(FALSE, FALSE) \in Build
  BY FreshType
<1>3. \A b \in Build : /\ [b EXCEPT !.pc = "idle"].pc = "idle"
                       /\ [b EXCEPT !.pc = "idle"].rev = b.rev
                       /\ [b EXCEPT !.pc = "idle"].events = b.events
                       /\ [b EXCEPT !.pc = "idle"].match = b.match
  BY DEF Build
<1>4. PICK b : b = Fresh(FALSE, FALSE)
  OBVIOUS
<1>5. NoBuild = [b EXCEPT !.pc = "idle"] /\ b \in Build /\ b.rev = 0 /\ b.events = {} /\ b.match = NoMatch
  BY <1>1, <1>2, <1>4 DEF NoBuild
<1> QED BY <1>1, <1>3, <1>5

\* The next build has read nothing.
Restarted ==
  /\ build' \in Build /\ again' \in BOOLEAN /\ head' = head
  /\ build'.pc \in {"idle", "revision"} /\ build'.rev = 0 /\ build'.events = {}
  /\ build'.match = NoMatch

\* A build that settles is followed by one that has read nothing, or none.
LEMMA SettleRestarts == Settle /\ UNCHANGED head => Restarted
BY FreshType, FreshFields DEF Settle, Restarted

\* The match of a build is one, while it derives it.
LEMMA BuildFields ==
  ASSUME GenInv
  PROVE  /\ build \in Build /\ again \in BOOLEAN /\ head \in Published
         /\ build.todo \subseteq Match /\ build.events \subseteq Event
         /\ head.events \subseteq Event /\ build.rev \in Nat /\ rev \in Nat
         /\ build.match \in Match \union {NoMatch}
         /\ \A e \in head.events \union build.events : e.match \in Match
BY DEF GenInv, GenTypeOK, TypeOK, Build, Published, Event

\* The claim of the first report of a match.
LEMMA FirstReportClaims ==
  ASSUME TypeOK, NEW m \in Match, FiledFor(m, Len(log)) # {}
  PROVE  FirstReport(m).body.claim \in Claim
<1> DEFINE F == FiledFor(m, Len(log))
           i == CHOOSE k \in F : \A j \in F : k <= j
<1>1. Len(log) \in Nat /\ F \subseteq 1..Len(log)
  BY DEF TypeOK, FiledFor
<1>2. F \subseteq Nat /\ F # {}
  BY <1>1
<1> HIDE DEF F
<1>3. \E k \in F : \A j \in F : k <= j
  BY <1>2, LeastExists
<1>4. i \in F
  BY <1>3
<1> HIDE DEF i
<1>5. log[i].body.claim \in Claim
  BY <1>1, <1>4, LogEntry, IngestAssumption DEF ReportBody
<1> QED BY <1>5 DEF FirstReport, i, F

\* One step of the server keeps the types of the build and of the generation.
LEMMA GenTypeStep ==
  ASSUME GenInv, [GenNext]_genVars
  PROVE  GenTypeOK'
<1>0. /\ TypeOK' /\ build \in Build /\ again \in BOOLEAN /\ head \in Published
      /\ rev \in Nat /\ build.todo \subseteq Match /\ build.events \subseteq Event
  BY IngestKept, BuildFields
<1> SUFFICES build' \in Build /\ again' \in BOOLEAN /\ head' \in Published
  BY <1>0 DEF GenTypeOK
<1>1. ASSUME Restarted PROVE build' \in Build /\ again' \in BOOLEAN /\ head' \in Published
  BY <1>0, <1>1 DEF Restarted
<1>2. CASE UNCHANGED <<build, again, head>>
  BY <1>0, <1>2
<1>3. CASE Restart
  BY <1>0, <1>3, FreshType DEF Restart
<1>4. CASE Fire \/ Regenerate
  BY <1>0, <1>4, FreshType DEF Fire, Regenerate, RunNow
<1>5. CASE ReadRevision
  <2>1. [build EXCEPT !.pc = "list", !.rev = rev] \in Build
    BY <1>0 DEF Build
  <2> QED BY <1>0, <1>5, <2>1 DEF ReadRevision
<1>6. CASE ListMatches
  <2>1. \A T \in SUBSET Match : [build EXCEPT !.pc = "derive", !.todo = T] \in Build
    BY <1>0 DEF Build
  <2> QED BY <1>0, <1>6, <2>1 DEF ListMatches
<1>7. ASSUME NEW m \in Match, ReadRow(m)
      PROVE build' \in Build /\ again' \in BOOLEAN /\ head' \in Published
  <2>1. \A T \in SUBSET Match, bad \in BOOLEAN :
          [build EXCEPT !.todo = T, !.bad = bad] \in Build
    BY <1>0 DEF Build
  <2>2. \A b \in Build, seq \in Nat : [b EXCEPT !.pc = "games", !.match = m, !.seq = seq] \in Build
    BY DEF Build
  <2>3. build.todo \ {m} \in SUBSET Match /\ build.bad \in BOOLEAN /\ matches[m].receipt \in Nat
    BY <1>0 DEF Build, GenInv, IngestInv, TypeOK, MatchRow
  <2>4. PICK bad : bad = (contract[m] \in Mismatched /\ matches[m].receipt # 0)
    OBVIOUS
  <2>8. PICK b : b = [build EXCEPT !.todo = @ \ {m}, !.bad = @ \/ bad]
    OBVIOUS
  <2>9. \/ build' = [b EXCEPT !.pc = "games", !.match = m, !.seq = matches[m].receipt]
        \/ build' = b
    BY <1>7, <2>4, <2>8 DEF ReadRow
  <2>5. (build.bad \/ bad) \in BOOLEAN
    OBVIOUS
  <2>6. b \in Build
    <3>1. PICK T, c : T = build.todo \ {m} /\ c = (build.bad \/ bad)
      OBVIOUS
    <3>2. b = [build EXCEPT !.todo = T, !.bad = c]
      BY <2>8, <3>1
    <3>3. T \in SUBSET Match /\ c \in BOOLEAN
      BY <2>3, <2>5, <3>1
    <3> QED BY <2>1, <3>2, <3>3
  <2>7. build' \in Build
    <3>1. CASE build' = b
      BY <2>6, <3>1
    <3>2. CASE build' = [b EXCEPT !.pc = "games", !.match = m, !.seq = matches[m].receipt]
      BY <2>2, <2>3, <2>6, <3>2
    <3> QED BY <2>9, <3>1, <3>2
  <2> QED BY <1>0, <1>7, <2>7 DEF ReadRow
<1>8. CASE ReadGames
  <2>1. \A w \in Character \union {NoWinner} :
          [build EXCEPT !.pc = "reports", !.winner = w] \in Build
    BY <1>0 DEF Build
  <2>2. games[build.match] \in Claim \/ games[build.match] = NoClaim
    BY <1>8 DEF ReadGames, GenInv, BuildInv, IngestInv, TypeOK
  <2>3. (IF games[build.match] = NoClaim THEN NoWinner ELSE WinnerOf[games[build.match]])
          \in Character \union {NoWinner}
    BY <2>2, GenerationAssumption
  <2> QED BY <1>0, <1>8, <2>1, <2>3 DEF ReadGames
<1>9. CASE ReadReports
  <2>1. \A E \in SUBSET Event :
          [build EXCEPT !.pc = "derive", !.match = NoMatch, !.seq = 0,
                        !.winner = NoWinner, !.events = E] \in Build
    BY <1>0 DEF Build
  <2> DEFINE m == build.match
             winner == IF build.winner # NoWinner THEN build.winner
                       ELSE IF FiledFor(m, Len(log)) = {} THEN NoWinner
                       ELSE WinnerOf[FirstReport(m).body.claim]
             event == [match |-> m, seq |-> build.seq, winner |-> winner]
  <2>2. m \in Match /\ build.seq \in Nat /\ build.winner \in Character \union {NoWinner}
    BY <1>0, <1>9 DEF ReadReports, GenInv, BuildInv, Build
  <2>3. winner \in Character \union {NoWinner}
    BY <2>2, FirstReportClaims, GenerationAssumption DEF GenInv, IngestInv
  <2>4. event \in Event
    BY <2>2, <2>3 DEF Event
  <2> HIDE DEF event
  <2>5. PICK E \in {build.events \union {event}, build.events} :
          build' = [build EXCEPT !.pc = "derive", !.match = NoMatch, !.seq = 0,
                                 !.winner = NoWinner, !.events = E]
    BY <1>9 DEF ReadReports, event
  <2>6. E \in SUBSET Event
    BY <1>0, <2>4, <2>5
  <2>7. build' \in Build
    BY <2>1, <2>5, <2>6
  <2>8. again' = again /\ head' = head
    BY <1>9 DEF ReadReports
  <2> QED BY <1>0, <2>7, <2>8
<1>10. CASE Reject \/ Finish
  BY <1>1, <1>10, SettleRestarts DEF Reject, Finish
<1>11. CASE Commit
  <2>1. CASE /\ head' = [rev |-> rev, events |-> build.events] /\ UNCHANGED again
             /\ build' = [build EXCEPT !.pc = "mark", !.todo = {e.match : e \in build.events}]
    <3>1. \A T \in SUBSET Match : [build EXCEPT !.pc = "mark", !.todo = T] \in Build
      BY <1>0 DEF Build
    <3>2. {e.match : e \in build.events} \in SUBSET Match
      BY <1>0 DEF Event
    <3> QED BY <1>0, <2>1, <3>1, <3>2 DEF Published
  <2>2. CASE build' = Fresh(build.boot, TRUE) /\ UNCHANGED <<again, head>>
    <3>1. build.boot \in BOOLEAN
      BY <1>0 DEF Build
    <3> QED BY <1>0, <2>2, <3>1, FreshType
  <2>3. CASE Settle /\ UNCHANGED head
    BY <1>1, <2>3, SettleRestarts
  <2> QED BY <1>11, <2>1, <2>2, <2>3 DEF Commit
<1>12. ASSUME NEW m \in Match, Mark(m)
       PROVE build' \in Build /\ again' \in BOOLEAN /\ head' \in Published
  <2>1. [build EXCEPT !.todo = @ \ {m}] \in Build
    BY <1>0 DEF Build
  <2> QED BY <1>0, <1>12, <2>1 DEF Mark
<1> QED BY <1>2, <1>3, <1>4, <1>5, <1>6, <1>7, <1>8, <1>9, <1>10, <1>11, <1>12
        DEF GenNext, genVars, Accept, Handle, Answer, SignUp, CheckIn, Rebuild

-----------------------------------------------------------------------------
(***************************************************************************)
(* Handlers at work while a build reads.                                   *)
(***************************************************************************)

\* Events stay backed by the reports, whoever acts.
LEMMA BackedKept ==
  ASSUME GenInv, IngestInv', Grows
  PROVE  \A e \in head.events \union build.events : EventBacked(e)'
<1> SUFFICES ASSUME NEW e \in head.events \union build.events PROVE EventBacked(e)'
  OBVIOUS
<1>1. e.match \in Match /\ EventBacked(e) /\ IngestInv /\ TypeOK'
  BY BuildFields DEF GenInv, IngestInv
<1>2. Supported(e.match) => Supported(e.match)'
  BY <1>1, BackingKept
<1>3. \A w : AgreedOn(e.match, w) => AgreedOn(e.match, w)'
  BY <1>1, BackingKept
<1>4. matches'[e.match].receipt = matches[e.match].receipt
  BY <1>1 DEF EventBacked, Supported, Grows
<1> QED BY <1>1, <1>2, <1>3, <1>4 DEF EventBacked

\* A handler moves, a character changes tier, or the tables do not change.
Ingests ==
  \/ \E r \in Request : Begin(r) \/ Step(r) \/ End(r)
  \/ \E c \in Character : Register(c) \/ Witness(c)
  \/ UNCHANGED <<store, req>>

\* The revision only grows, and has grown when a handler leaves "bump".
LEMMA RevisionGrows ==
  ASSUME IngestInv, Ingests
  PROVE  /\ rev \in Nat /\ rev' \in Nat /\ rev <= rev'
         /\ \A r \in Request : At(r, "bump") => req'[r] = req[r] \/ rev < rev'
<1>0. TypeOK /\ rev \in Nat
  BY DEF IngestInv, TypeOK
<1>1. ASSUME NEW q \in Request, Begin(q) \/ Step(q) \/ End(q)
      PROVE  /\ rev' \in Nat /\ rev <= rev'
             /\ \A r \in Request : At(r, "bump") => req'[r] = req[r] \/ rev < rev'
  <2>1. CASE Bump(q)
    BY <1>0, <2>1 DEF Bump
  <2>2. CASE ~Bump(q)
    <3>1. ~At(q, "bump") /\ rev' = rev /\ \E g : req' = [req EXCEPT ![q] = g]
      BY <1>1, <2>2 DEF Begin, Step, End, Take, Resolve, OpenMatch, Quarantine, File,
         AssignReceipt, ReadMatch, ReadTiers, WriteGames, WriteState,
         NextItem, Goto, Become, At, store
    <3> QED BY <1>0, <3>1 DEF TypeOK
  <2> QED BY <2>1, <2>2
<1>2. ASSUME NEW c \in Character, Register(c) \/ Witness(c)
      PROVE  rev' = rev /\ req' = req
  BY <1>2 DEF Register, Witness
<1> QED BY <1>0, <1>1, <1>2 DEF Ingests, store

\* Where a counting match comes from, for these steps.
LEMMA IngestsCountable ==
  ASSUME IngestInv, Ingests, NEW m \in Match, Countable(matches'[m])
  PROVE  \/ Countable(matches[m]) /\ matches[m].rating = matches'[m].rating
         \/ /\ matches'[m].rating = "pending"
            /\ \E r \in Request : At(r, "bump")' /\ Session(r)' = m
<1>1. CASE matches' = matches
  BY <1>1
<1>2. CASE [Next]_vars
  BY <1>2, CountableSource
<1> QED BY <1>1, <1>2 DEF Ingests, Next, store

\* The generation stays complete for what it marked while it stays published.
LEMMA AppliedStep ==
  ASSUME GenInv, head' = head, [Next]_vars \/ matches' = matches
  PROVE  AppliedIsCounted'
<1> SUFFICES ASSUME NEW m \in Match, matches'[m].rating = "applied", Countable(matches'[m])
             PROVE  m \in Counted'
  BY DEF AppliedIsCounted
<1>1. matches[m].rating = "applied" /\ Countable(matches[m])
  BY CountableSource DEF GenInv
<1> QED BY <1>1 DEF GenInv, AppliedIsCounted, Counted

\* What holds of the match a build derives holds of it under its name.
LEMMA NamedAfter ==
  ASSUME NEW k, k = build'.match
  PROVE  /\ Supported(k)' => Supported(build.match)'
         /\ \A w : AgreedOn(k, w)' => AgreedOn(build.match, w)'
<1>1. FirstOfAccount(k, Len(log))' = FirstOfAccount(build.match, Len(log))'
  BY SMTT(30) DEF FirstOfAccount, Independent, FiledFor, ParticipantAccounts
<1>2. /\ Agreed(k, Len(log))' => Agreed(build.match, Len(log))'
      /\ Contested(build.match, Len(log))' => Contested(k, Len(log))'
  BY <1>1 DEF Agreed, Contested
<1>3. Supported(k)' => Supported(build.match)'
  BY <1>2 DEF Supported, PlayersVerified
<1>4. ASSUME NEW w, AgreedOn(k, w)' PROVE AgreedOn(build.match, w)'
  BY <1>1, <1>2, <1>4 DEF AgreedOn
<1> QED BY <1>3, <1>4

\* What a build has read stays true while handlers act.
LEMMA BuildKept ==
  ASSUME GenInv, IngestInv', Grows, Ingests, UNCHANGED <<build, head>>
  PROVE  BuildInv'
<1> DEFINE m == build.match
<1>0. IngestInv /\ TypeOK' /\ BuildInv
  BY DEF GenInv, IngestInv
<1>1. build.rev \in Nat /\ rev \in Nat /\ rev' \in Nat /\ rev <= rev'
  BY <1>0, BuildFields, RevisionGrows
<1>2. build'.rev <= rev'
  BY <1>0, <1>1 DEF BuildInv
<1>3. ASSUME NEW k \in Match, k = build.match, build.pc \in {"games", "reports"}
      PROVE  /\ Supported(k)' /\ build.seq = matches'[k].receipt /\ games'[k] # NoClaim
             /\ build.pc = "reports" => \E w \in Claim : AgreedOn(k, w)' /\ build.winner = WinnerOf[w]
  <2>1. Supported(k) /\ build.seq = matches[k].receipt /\ games[k] # NoClaim
    BY <1>0, <1>3 DEF BuildInv
  <2>2. Supported(k)' /\ \A w : AgreedOn(k, w) => AgreedOn(k, w)'
    BY <1>0, <2>1, BackingKept
  <2>3. matches'[k].receipt = matches[k].receipt
    BY <2>1 DEF Supported, Grows
  <2>4. games'[k] # NoClaim
    <3>1. CASE games' = games
      BY <2>1, <3>1
    <3>2. CASE [Next]_vars
      BY <1>0, <2>1, <3>2, GamesStay
    <3> QED BY <3>1, <3>2 DEF Ingests, Next, store
  <2>5. build.pc = "reports" => \E w \in Claim : AgreedOn(k, w)' /\ build.winner = WinnerOf[w]
    BY <1>0, <1>3, <2>2 DEF BuildInv
  <2> QED BY <2>1, <2>2, <2>3, <2>4, <2>5
<1>4. build.pc \in {"games", "reports"} => m \in Match
  BY <1>0 DEF BuildInv
<1>5. build'.pc \in {"games", "reports"} =>
        /\ build'.match \in Match /\ Supported(build.match)'
        /\ build'.seq = matches'[build'.match].receipt /\ games'[build'.match] # NoClaim
  BY <1>3, <1>4, NamedAfter
<1>6. build'.pc = "reports" => \E w \in Claim : AgreedOn(build.match, w)' /\ build'.winner = WinnerOf[w]
  BY <1>3, <1>4, NamedAfter
<1>7. /\ build'.pc \notin {"games", "reports"} => build'.match = NoMatch
      /\ build'.pc = "mark" => build'.events = head'.events /\ build'.todo \subseteq Counted'
  BY <1>0 DEF BuildInv, Counted
<1> QED BY <1>2, <1>5, <1>6, <1>7 DEF BuildInv

\* A match that begins to count while a build derives makes the build late.
LEMMA MissingKept ==
  ASSUME GenInv, Ingests, UNCHANGED <<build, head>>
  PROVE  NothingMissed'
<1> SUFFICES ASSUME build.pc \in {"derive", "games", "reports"},
                    NEW m \in Match, Countable(matches'[m]), m \notin Covered
             PROVE  /\ matches'[m].rating = "pending"
                    /\ \/ build.rev < rev'
                       \/ \E r \in Request : At(r, "bump")' /\ Session(r)' = m
  BY DEF NothingMissed, Covered
<1>0. IngestInv /\ build.rev <= rev /\ build.rev \in Nat
  BY BuildFields DEF GenInv, BuildInv
<1>1. /\ rev \in Nat /\ rev' \in Nat /\ rev <= rev'
      /\ \A r \in Request : At(r, "bump") => req'[r] = req[r] \/ rev < rev'
  BY <1>0, RevisionGrows
<1>2. CASE /\ matches'[m].rating = "pending"
           /\ \E r \in Request : At(r, "bump")' /\ Session(r)' = m
  BY <1>2
<1>3. CASE Countable(matches[m]) /\ matches[m].rating = matches'[m].rating
  <2>1. /\ matches[m].rating = "pending"
        /\ build.rev < rev \/ \E r \in Request : At(r, "bump") /\ Session(r) = m
    BY <1>3 DEF GenInv, NothingMissed
  <2>2. CASE build.rev < rev
    BY <1>0, <1>1, <1>3, <2>1, <2>2
  <2>3. ASSUME NEW r \in Request, At(r, "bump"), Session(r) = m
        PROVE  build.rev < rev' \/ (At(r, "bump")' /\ Session(r)' = m)
    BY <1>0, <1>1, <2>3 DEF At, Session
  <2> QED BY <1>3, <2>1, <2>2, <2>3
<1> QED BY <1>0, <1>2, <1>3, IngestsCountable

-----------------------------------------------------------------------------
(***************************************************************************)
(* The steps of a build.                                                   *)
(***************************************************************************)

\* The three parts of GenInv that speak of the build and of what it published.
BuildPart ==
  /\ \A e \in head.events \union build.events : EventBacked(e)
  /\ BuildInv
  /\ NothingMissed
  /\ AppliedIsCounted

\* A build that has read nothing knows nothing.
LEMMA RestartedBuild ==
  ASSUME GenInv, IngestInv', Grows, Restarted, [Next]_vars \/ matches' = matches
  PROVE  BuildPart'
<1>1. \A e \in (head.events \union build.events)' : EventBacked(e)'
  BY BackedKept DEF Restarted
<1>2. BuildInv'
  BY DEF Restarted, BuildInv, IngestInv, TypeOK
<1>3. NothingMissed'
  BY DEF Restarted, NothingMissed
<1>4. AppliedIsCounted'
  BY AppliedStep DEF Restarted
<1> QED BY <1>1, <1>2, <1>3, <1>4 DEF BuildPart

\* A build that does not move while handlers do.
LEMMA WaitingBuild ==
  ASSUME GenInv, IngestInv', Grows, Ingests, UNCHANGED <<build, head>>
  PROVE  BuildPart'
<1>1. \A e \in (head.events \union build.events)' : EventBacked(e)'
  BY BackedKept
<1>2. BuildInv' /\ NothingMissed'
  BY BuildKept, MissingKept
<1>3. AppliedIsCounted'
  <2>1. [Next]_vars \/ matches' = matches
    BY DEF Ingests, Next, store
  <2> QED BY <2>1, AppliedStep
<1> QED BY <1>1, <1>2, <1>3 DEF BuildPart

\* The tables a build reads are as they were.
LEMMA StillSupported ==
  ASSUME GenInv, IngestInv', Grows, NEW m \in Match
  PROVE  /\ Supported(m) => Supported(m)'
         /\ \A w : AgreedOn(m, w) => AgreedOn(m, w)'
BY BackingKept DEF GenInv, IngestInv

\* A build that moves on without publishing: what it must know then.
LEMMA ReadingBuild ==
  ASSUME GenInv, IngestInv', Grows, UNCHANGED <<vars, head>>,
         \A e \in build'.events : EventBacked(e)',
         build'.rev <= rev,
         build'.pc \in {"list", "derive", "games", "reports"},
         build'.pc \notin {"games", "reports"} => build'.match = NoMatch,
         NEW k, k = build'.match,
         build'.pc \in {"games", "reports"} =>
           /\ k \in Match /\ Supported(k)
           /\ build'.seq = matches[k].receipt /\ games[k] # NoClaim,
         build'.pc = "reports" => \E w \in Claim : AgreedOn(k, w) /\ build'.winner = WinnerOf[w],
         build'.pc = "list" \/ \A m \in Match :
           Countable(matches[m]) /\ m \notin Covered' =>
             /\ matches[m].rating = "pending"
             /\ build'.rev < rev \/ \E r \in Request : At(r, "bump") /\ Session(r) = m
  PROVE  BuildPart'
<1>1. \A e \in (head.events \union build.events)' : EventBacked(e)'
  BY BackedKept
<1>2. build'.pc \in {"games", "reports"} =>
        /\ k \in Match /\ Supported(build.match)'
        /\ build'.seq = matches'[k].receipt /\ games'[k] # NoClaim
        /\ build'.pc = "reports" => \E w \in Claim : AgreedOn(build.match, w)' /\ build'.winner = WinnerOf[w]
  <2>0. /\ Supported(k)' => Supported(build.match)'
        /\ \A w : AgreedOn(k, w)' => AgreedOn(build.match, w)'
    BY NamedAfter
  <2>1. k \in Match => /\ Supported(k) => Supported(k)'
                       /\ \A w : AgreedOn(k, w) => AgreedOn(k, w)'
    BY StillSupported
  <2> QED BY <2>0, <2>1 DEF vars, store
<1>3. BuildInv'
  BY <1>2 DEF BuildInv, vars, store
<1>4. NothingMissed'
  BY DEF NothingMissed, vars, store, At, Session
<1>5. AppliedIsCounted'
  BY AppliedStep DEF vars, store
<1> QED BY <1>1, <1>3, <1>4, <1>5 DEF BuildPart

\* The revision is read before anything else.
LEMMA ReadRevisionStep ==
  ASSUME GenInv, IngestInv', Grows, ReadRevision
  PROVE  BuildPart'
<1>0. build \in Build /\ rev \in Nat
  BY BuildFields
<1>1. build'.pc = "list" /\ build'.rev = rev /\ build'.events = build.events
      /\ build'.match = NoMatch
  BY <1>0 DEF ReadRevision, Build, GenInv, BuildInv
<1>2. \A e \in build'.events : EventBacked(e)'
  BY <1>1, BackedKept
<1>3. UNCHANGED <<vars, head>>
  BY DEF ReadRevision
<1> QED BY <1>0, <1>1, <1>2, <1>3, ReadingBuild

\* The listing has every match that counts at that moment.
LEMMA ListMatchesStep ==
  ASSUME GenInv, IngestInv', Grows, ListMatches
  PROVE  BuildPart'
<1>0. build \in Build /\ build.rev <= rev
  BY BuildFields DEF GenInv, BuildInv
<1>1. /\ build'.pc = "derive" /\ build'.rev = build.rev /\ build'.events = build.events
      /\ build'.match = build.match /\ build'.todo = {m \in Match : contract[m] # NoDoc}
  BY <1>0 DEF ListMatches, Build
<1>2. \A e \in build'.events : EventBacked(e)'
  BY <1>1, BackedKept
<1>3. UNCHANGED <<vars, head>>
  BY DEF ListMatches
<1>4. \A m \in Match : Countable(matches[m]) => m \in build'.todo
  BY <1>1, CountableMeans DEF GenInv, Eligible
<1>5. build'.match = NoMatch
  BY <1>1 DEF ListMatches, GenInv, BuildInv
<1> QED BY <1>0, <1>1, <1>2, <1>3, <1>4, <1>5, ReadingBuild DEF Covered

\* A row that counts is derived, one that does not is passed over.
LEMMA ReadRowStep ==
  ASSUME GenInv, IngestInv', Grows, NEW m \in Match, ReadRow(m)
  PROVE  BuildPart'
<1>0. /\ build \in Build /\ build.rev <= rev /\ build.pc = "derive" /\ build.match = NoMatch
      /\ m \in build.todo /\ UNCHANGED <<vars, head>>
  BY BuildFields DEF GenInv, BuildInv, ReadRow
<1>1. PICK bad, b :
        /\ b = [build EXCEPT !.todo = @ \ {m}, !.bad = @ \/ bad]
        /\ \/ /\ Countable(matches[m]) /\ matches[m].receipt # 0
              /\ build' = [b EXCEPT !.pc = "games", !.match = m, !.seq = matches[m].receipt]
           \/ /\ ~Countable(matches[m]) \/ matches[m].receipt = 0
              /\ build' = b
  BY DEF ReadRow
<1>2. /\ b.pc = "derive" /\ b.rev = build.rev /\ b.events = build.events
      /\ b.match = NoMatch /\ b.todo = build.todo \ {m}
      /\ DOMAIN b = DOMAIN build
  BY <1>0, <1>1 DEF Build
<1>3. /\ DOMAIN build = {"pc", "boot", "retry", "rev", "todo", "bad", "match", "seq", "winner", "events"}
      /\ Countable(matches[m]) => Supported(m) /\ matches[m].receipt # 0 /\ games[m] # NoClaim
  <2>1. DOMAIN build = {"pc", "boot", "retry", "rev", "todo", "bad", "match", "seq", "winner", "events"}
    BY <1>0 DEF Build
  <2>2. Countable(matches[m]) => games[m] # NoClaim
    BY DEF GenInv, GamesWritten, Countable
  <2> QED BY <2>1, <2>2, CountableMeans DEF GenInv, Supported
<1>4. /\ build'.rev = build.rev /\ build'.events = build.events /\ build'.todo = build.todo \ {m}
      /\ \/ /\ build'.pc = "games" /\ build'.match = m /\ build'.seq = matches[m].receipt
            /\ Countable(matches[m])
         \/ /\ build'.pc = "derive" /\ build'.match = NoMatch
            /\ ~Countable(matches[m])
  <2>1. CASE build' = [b EXCEPT !.pc = "games", !.match = m, !.seq = matches[m].receipt]
    <3>1. /\ build'.rev = b.rev /\ build'.events = b.events /\ build'.todo = b.todo
          /\ build'.pc = "games" /\ build'.match = m /\ build'.seq = matches[m].receipt
      BY <1>2, <1>3, <2>1
    <3>2. Countable(matches[m]) \/ build' = b
      BY <1>1
    <3> QED BY <1>2, <3>1, <3>2
  <2>2. CASE build' = b /\ (~Countable(matches[m]) \/ matches[m].receipt = 0)
    BY <1>2, <1>3, <2>2
  <2> QED BY <1>1, <2>1, <2>2
<1>5. \A e \in build'.events : EventBacked(e)'
  BY <1>4, BackedKept
<1>6. ASSUME NEW k \in Match, Countable(matches[k]), k \notin Covered'
      PROVE  /\ matches[k].rating = "pending"
             /\ build'.rev < rev \/ \E r \in Request : At(r, "bump") /\ Session(r) = k
  <2>1. k \notin Covered
    BY <1>0, <1>4, <1>6, GenerationAssumption DEF Covered
  <2> QED BY <1>0, <1>4, <1>6, <2>1 DEF GenInv, NothingMissed
<1>7. build'.rev <= rev /\ build'.pc \in {"games", "derive"}
  BY <1>0, <1>4
<1>8. build'.pc = "games" => /\ build'.match \in Match /\ Supported(m) /\ build'.match = m
                             /\ build'.seq = matches[m].receipt /\ games[m] # NoClaim
  BY <1>3, <1>4
<1>9. build'.pc \notin {"games", "reports"} => build'.match = NoMatch
  BY <1>4
<1>10. ASSUME NEW k, k = build'.match PROVE BuildPart'
  <2>1. build'.pc \in {"games", "reports"} =>
           /\ k \in Match /\ Supported(k)
           /\ build'.seq = matches[k].receipt /\ games[k] # NoClaim
    BY <1>7, <1>8, <1>10
  <2>2. UNCHANGED <<vars, head>> /\ build'.pc # "reports"
        /\ build'.pc \in {"list", "derive", "games", "reports"}
    BY <1>0, <1>7
  <2> QED BY <1>5, <1>6, <1>7, <1>9, <1>10, <2>1, <2>2, ReadingBuild
<1> QED BY <1>10

\* The winner of the games is the one the reports agree on.
LEMMA ReadGamesStep ==
  ASSUME GenInv, IngestInv', Grows, ReadGames
  PROVE  BuildPart'
<1>0. /\ build \in Build /\ build.rev <= rev /\ build.pc = "games" /\ UNCHANGED <<vars, head>>
      /\ build.match \in Match /\ Supported(build.match)
      /\ build.seq = matches[build.match].receipt /\ games[build.match] # NoClaim
  BY BuildFields DEF GenInv, BuildInv, ReadGames
<1>1. PICK w : w = games[build.match]
  OBVIOUS
<1>2. build' = [build EXCEPT !.pc = "reports", !.winner = WinnerOf[w]]
  BY <1>0, <1>1 DEF ReadGames
<1>3. /\ build'.rev = build.rev /\ build'.events = build.events /\ build'.todo = build.todo
      /\ build'.pc = "reports" /\ build'.match = build.match /\ build'.seq = build.seq
      /\ build'.winner = WinnerOf[w]
  BY <1>0, <1>2 DEF Build
<1>4. ASSUME NEW k, k = build.match PROVE BuildPart'
  <2>1. w \in Claim /\ AgreedOn(k, w)
    <3>1. games[k] \in Claim /\ games[k] # NoClaim /\ k \in Match
      BY <1>0, <1>4 DEF GenInv, IngestInv, TypeOK
    <3>2. AgreedOn(k, games[k])
      BY <3>1 DEF GenInv, IngestInv, GamesAreAgreed
    <3>3. w = games[k]
      BY <1>1, <1>4
    <3> QED BY <3>1, <3>2, <3>3
  <2>2. Supported(k)
    <3>1. Supported(build.match)
      BY <1>0
    <3> QED BY <1>4, <3>1
  <2>3. \A e \in build'.events : EventBacked(e)'
    BY <1>3, BackedKept
  <2>4. \A m \in Match : Countable(matches[m]) /\ m \notin Covered' =>
          /\ matches[m].rating = "pending"
          /\ build'.rev < rev \/ \E r \in Request : At(r, "bump") /\ Session(r) = m
    BY <1>0, <1>3 DEF GenInv, NothingMissed, Covered
  <2>5. k = build'.match /\ k \in Match /\ build'.seq = matches[k].receipt /\ games[k] # NoClaim
    BY <1>0, <1>3, <1>4
  <2>6. \E v \in Claim : AgreedOn(k, v) /\ build'.winner = WinnerOf[v]
    BY <1>3, <2>1
  <2>7. build'.rev <= rev /\ UNCHANGED <<vars, head>>
    BY <1>0, <1>3
  <2> QED BY <1>3, <2>2, <2>3, <2>4, <2>5, <2>6, <2>7, ReadingBuild
<1> QED BY <1>4

\* The event is of a supported match, under its receipt, for the agreed winner.
LEMMA ReadReportsStep ==
  ASSUME GenInv, IngestInv', Grows, ReadReports
  PROVE  BuildPart'
<1>0. /\ build \in Build /\ build.rev <= rev /\ build.pc = "reports" /\ UNCHANGED <<vars, head>>
      /\ build.match \in Match /\ Supported(build.match)
      /\ build.seq = matches[build.match].receipt
      /\ \E w \in Claim : AgreedOn(build.match, w) /\ build.winner = WinnerOf[w]
  BY BuildFields DEF GenInv, BuildInv, ReadReports
<1>1. PICK m, winner, event :
        /\ m = build.match
        /\ build.winner # NoWinner => winner = build.winner
        /\ event = [match |-> m, seq |-> build.seq, winner |-> winner]
        /\ build' = [build EXCEPT !.pc = "derive",
                       !.match = NoMatch, !.seq = 0, !.winner = NoWinner,
                       !.events = IF RankedDuel(m) THEN @ \union {event} ELSE @]
  <2> DEFINE m == build.match
             winner == IF build.winner # NoWinner THEN build.winner
                       ELSE IF FiledFor(m, Len(log)) = {} THEN NoWinner
                       ELSE WinnerOf[FirstReport(m).body.claim]
             event == [match |-> m, seq |-> build.seq, winner |-> winner]
  <2>1. build' = [build EXCEPT !.pc = "derive",
                       !.match = NoMatch, !.seq = 0, !.winner = NoWinner,
                       !.events = IF RankedDuel(m) THEN @ \union {event} ELSE @]
    BY DEF ReadReports
  <2>2. build.winner # NoWinner => winner = build.winner
    OBVIOUS
  <2> QED BY <2>1, <2>2
<1>2. PICK E : E = IF RankedDuel(m) THEN build.events \union {event} ELSE build.events
  OBVIOUS
<1>3. build' = [build EXCEPT !.pc = "derive", !.match = NoMatch, !.seq = 0,
                             !.winner = NoWinner, !.events = E]
  BY <1>1, <1>2
<1>4. /\ build'.rev = build.rev /\ build'.events = E /\ build'.todo = build.todo
      /\ build'.pc = "derive" /\ build'.match = NoMatch
  BY <1>0, <1>3 DEF Build
<1>5. /\ m \in Match /\ Supported(m) /\ build.seq = matches[m].receipt
      /\ \E w \in Claim : AgreedOn(m, w) /\ build.winner = WinnerOf[w]
  <2>1. Supported(build.match) /\ \E w \in Claim : AgreedOn(build.match, w) /\ build.winner = WinnerOf[w]
    BY <1>0
  <2> QED BY <1>0, <1>1, <2>1
<1>6. EventBacked(event)'
  <2>1. event.match = m /\ event.seq = build.seq /\ event.winner = winner
    BY <1>1
  <2>2. Supported(m)' /\ \A w : AgreedOn(m, w) => AgreedOn(m, w)'
    BY <1>5, StillSupported
  <2>3. PICK w \in Claim : AgreedOn(m, w)' /\ (WinnerOf[w] # NoWinner => winner = WinnerOf[w])
    BY <1>1, <1>5, <2>2
  <2>4. matches' = matches
    BY <1>0 DEF vars, store
  <2> HIDE <1>1
  <2>5. Supported(event.match)' /\ event.seq = matches'[event.match].receipt
    BY <1>5, <2>1, <2>2, <2>4
  <2>6. AgreedOn(event.match, w)' /\ (WinnerOf[w] # NoWinner => event.winner = WinnerOf[w])
    BY <2>1, <2>3
  <2> QED BY <2>5, <2>6 DEF EventBacked
<1>7. \A e \in build'.events : EventBacked(e)'
  <2>1. E \subseteq build.events \union {event}
    BY <1>2
  <2> QED BY <1>4, <1>6, <2>1, BackedKept
<1>8. ASSUME NEW k \in Match, Countable(matches[k]), k \notin Covered'
      PROVE  /\ matches[k].rating = "pending"
             /\ build'.rev < rev \/ \E r \in Request : At(r, "bump") /\ Session(r) = k
  <2>1. k \notin Covered
    <3>1. CASE k = m
      <4>1. RankedDuel(m)
        BY <1>8, <3>1, CountableMeans DEF GenInv
      <4>2. event \in build'.events /\ event.match = m
        BY <1>1, <1>2, <1>4, <4>1
      <4> QED BY <1>8, <3>1, <4>2 DEF Covered
    <3>2. CASE k # m
      <4>1. build.events \subseteq build'.events /\ build'.todo = build.todo
        BY <1>2, <1>4
      <4> QED BY <1>1, <1>8, <3>2, <4>1 DEF Covered
    <3> QED BY <3>1, <3>2
  <2> QED BY <1>0, <1>4, <1>8, <2>1 DEF GenInv, NothingMissed
<1>9. build'.rev <= rev
  BY <1>0, <1>4
<1>10. ASSUME NEW k, k = build'.match PROVE BuildPart'
  BY <1>0, <1>4, <1>7, <1>8, <1>9, <1>10, ReadingBuild
<1> QED BY <1>10

\* What a build that is not late publishes has every match that counts, but
\* one whose handler has yet to bump the revision.
LEMMA CompleteWhenInTime ==
  ASSUME GenInv, build.pc = "derive", build.todo = {}, build.rev = rev,
         NEW m \in Match, Countable(matches[m])
  PROVE  /\ \/ \E e \in build.events : e.match = m
            \/ \E r \in Request : At(r, "bump") /\ Session(r) = m
         /\ matches[m].rating = "applied" => \E e \in build.events : e.match = m
<1>1. build.match = NoMatch /\ ~(build.rev < rev)
  BY BuildFields DEF GenInv, BuildInv
<1>2. m \in Covered \/ (/\ matches[m].rating = "pending"
                        /\ \E r \in Request : At(r, "bump") /\ Session(r) = m)
  BY <1>1 DEF GenInv, NothingMissed
<1>3. m \in Covered => \E e \in build.events : e.match = m
  BY <1>1, GenerationAssumption DEF Covered
<1> QED BY <1>2, <1>3

\* Publishing: the events are those of the build, all of them backed.
LEMMA PublishStep ==
  ASSUME GenInv, IngestInv', Grows, build.pc = "derive", build.todo = {}, build.rev = rev,
         head' = [rev |-> rev, events |-> build.events], UNCHANGED vars,
         build' = [build EXCEPT !.pc = "mark", !.todo = {e.match : e \in build.events}]
  PROVE  BuildPart'
<1>0. build \in Build /\ build.rev <= rev /\ build.match = NoMatch /\ rev' = rev /\ matches' = matches
  BY BuildFields DEF GenInv, BuildInv, vars, store
<1>1. /\ build'.pc = "mark" /\ build'.todo = {e.match : e \in build.events}
      /\ build'.events = build.events /\ build'.rev = build.rev /\ build'.match = build.match
      /\ head'.events = build.events
  BY <1>0 DEF Build
<1>2. \A e \in (head.events \union build.events)' : EventBacked(e)'
  BY <1>1, BackedKept
<1>3. BuildInv'
  BY <1>0, <1>1 DEF BuildInv, Counted
<1>4. NothingMissed'
  BY <1>1 DEF NothingMissed
<1>5. AppliedIsCounted'
  BY <1>0, <1>1, CompleteWhenInTime DEF AppliedIsCounted, Counted, Countable
<1> QED BY <1>2, <1>3, <1>4, <1>5 DEF BuildPart

\* commit_rating_generation publishes, starts over or gives up.
LEMMA CommitStep ==
  ASSUME GenInv, IngestInv', Grows, Commit
  PROVE  BuildPart'
<1>1. build.pc = "derive" /\ build.todo = {} /\ UNCHANGED vars /\ matches' = matches
  BY DEF Commit, vars, store
<1>2. CASE /\ build.rev = rev
           /\ head' = [rev |-> rev, events |-> build.events]
           /\ build' = [build EXCEPT !.pc = "mark", !.todo = {e.match : e \in build.events}]
  BY <1>1, <1>2, PublishStep
<1>3. CASE build' = Fresh(build.boot, TRUE) /\ UNCHANGED <<again, head>>
  <2>1. build.boot \in BOOLEAN /\ again \in BOOLEAN
    BY BuildFields DEF Build
  <2>2. Restarted
    BY <1>3, <2>1, FreshType, FreshFields DEF Restarted
  <2> QED BY <1>1, <2>2, RestartedBuild
<1>4. CASE Settle /\ UNCHANGED head
  BY <1>1, <1>4, SettleRestarts, RestartedBuild
<1> QED BY <1>2, <1>3, <1>4 DEF Commit

\* Marking keeps to the matches of the published generation.
LEMMA MarkStep ==
  ASSUME GenInv, IngestInv', Grows, NEW k \in Match, Mark(k)
  PROVE  BuildPart'
<1>0. /\ build \in Build /\ build.pc = "mark" /\ build.rev <= rev /\ build.match = NoMatch
      /\ build.events = head.events /\ build.todo \subseteq Counted
      /\ rev' = rev /\ head' = head /\ build' = [build EXCEPT !.todo = @ \ {k}]
  BY BuildFields DEF GenInv, BuildInv, Mark
<1>1. /\ build'.pc = "mark" /\ build'.todo = build.todo \ {k} /\ build'.match = NoMatch
      /\ build'.events = build.events /\ build'.rev = build.rev
  BY <1>0 DEF Build
<1>2. \A e \in (head.events \union build.events)' : EventBacked(e)'
  BY <1>0, <1>1, BackedKept
<1>3. BuildInv'
  BY <1>0, <1>1 DEF BuildInv, Counted
<1>4. NothingMissed'
  BY <1>1 DEF NothingMissed
<1>5. AppliedIsCounted'
  <2>1. k \in Counted /\ Marks
    BY MarkMarks
  <2>2. \A m \in Match : m # k => matches'[m] = matches[m]
    BY DEF Mark, SetMatch, GenInv, IngestInv, TypeOK
  <2>3. \A m \in Match : m # k /\ matches'[m].rating = "applied" /\ Countable(matches'[m]) => m \in Counted
    BY <2>2 DEF GenInv, AppliedIsCounted
  <2> QED BY <1>0, <2>1, <2>3 DEF AppliedIsCounted, Counted
<1> QED BY <1>2, <1>3, <1>4, <1>5 DEF BuildPart

\* A build is started, or has another one follow.
LEMMA RunNowStep ==
  ASSUME GenInv, IngestInv', Grows, RunNow, UNCHANGED <<store, req, head>>
  PROVE  BuildPart'
<1>1. CASE build' = Fresh(FALSE, FALSE) /\ UNCHANGED again
  <2>1. Restarted
    BY <1>1, BuildFields, FreshType, FreshFields DEF Restarted
  <2> QED BY <2>1, RestartedBuild DEF store
<1>2. CASE UNCHANGED build
  BY <1>2, WaitingBuild DEF Ingests
<1> QED BY <1>1, <1>2 DEF RunNow

-----------------------------------------------------------------------------
(***************************************************************************)
(* The inductive invariant.                                                *)
(***************************************************************************)

\* It holds when the boot build starts over an empty database.
LEMMA GenInvariantInit == GenInit => GenInv
<1> SUFFICES ASSUME GenInit PROVE GenInv
  OBVIOUS
<1>1. IngestInv
  BY InvariantInit DEF GenInit
<1>2. build \in Build /\ build.pc = "revision" /\ build.rev = 0 /\ build.events = {} /\ build.match = NoMatch
  BY FreshType, FreshFields DEF GenInit
<1>3. GenTypeOK
  BY <1>1, <1>2 DEF GenInit, GenTypeOK, IngestInv, Published
<1>4. GamesWritten
  BY DEF GenInit, Init, GamesWritten, NewMatchRow, IdleHandler, At
<1>5. \A e \in head.events \union build.events : EventBacked(e)
  <2>1. head.events = {}
    BY DEF GenInit
  <2> QED BY <1>2, <2>1
<1>6. BuildInv /\ NothingMissed
  <2>1. rev = 0
    BY DEF GenInit, Init
  <2> QED BY <1>2, <2>1 DEF BuildInv, NothingMissed
<1>7. AppliedIsCounted
  BY DEF GenInit, Init, AppliedIsCounted, NewMatchRow
<1> QED BY <1>1, <1>3, <1>4, <1>5, <1>6, <1>7 DEF GenInv

\* Handlers, timers, builds and restarts keep it.
LEMMA GenInvariantStep == GenInv /\ [GenNext]_genVars => GenInv'
<1> SUFFICES ASSUME GenInv, [GenNext]_genVars PROVE GenInv'
  OBVIOUS
<1>0. IngestInv' /\ Grows /\ GenTypeOK' /\ GamesWritten'
  BY IngestKept, GenTypeStep, GamesWrittenStep
<1> SUFFICES BuildPart'
  BY <1>0 DEF GenInv, BuildPart
<1>1. CASE Ingests /\ UNCHANGED <<build, head>>
  BY <1>0, <1>1, WaitingBuild
<1>2. CASE Restart
  <2>1. Restarted
    BY <1>2, BuildFields, FreshType, FreshFields DEF Restart, Restarted
  <2>2. [Next]_vars
    BY <1>2 DEF Restart, Next
  <2> QED BY <1>0, <2>1, <2>2, RestartedBuild
<1>3. CASE Fire \/ Regenerate
  BY <1>0, <1>3, RunNowStep DEF Fire, Regenerate, vars
<1>4. CASE ReadRevision
  BY <1>0, <1>4, ReadRevisionStep
<1>5. CASE ListMatches
  BY <1>0, <1>5, ListMatchesStep
<1>6. ASSUME NEW m \in Match, ReadRow(m) PROVE BuildPart'
  BY <1>0, <1>6, ReadRowStep
<1>7. CASE ReadGames
  BY <1>0, <1>7, ReadGamesStep
<1>8. CASE ReadReports
  BY <1>0, <1>8, ReadReportsStep
<1>9. CASE Reject \/ Finish
  <2>1. Restarted /\ matches' = matches
    BY <1>9, SettleRestarts DEF Reject, Finish, vars, store
  <2> QED BY <1>0, <2>1, RestartedBuild
<1>10. CASE Commit
  BY <1>0, <1>10, CommitStep
<1>11. ASSUME NEW m \in Match, Mark(m) PROVE BuildPart'
  BY <1>0, <1>11, MarkStep
<1>12. ASSUME NEW r \in Request, Accept(r) \/ Handle(r) \/ Answer(r)
       PROVE  Ingests /\ UNCHANGED <<build, head>>
  BY <1>12 DEF Accept, Handle, Answer, Ingests
<1>13. ASSUME NEW c \in Character, SignUp(c) \/ CheckIn(c)
       PROVE  Ingests /\ UNCHANGED <<build, head>>
  BY <1>13 DEF SignUp, CheckIn, Ingests
<1>14. UNCHANGED genVars => Ingests /\ UNCHANGED <<build, head>>
  BY DEF genVars, vars, Ingests
<1> QED BY <1>1, <1>2, <1>3, <1>4, <1>5, <1>6, <1>7, <1>8, <1>9, <1>10, <1>11,
           <1>12, <1>13, <1>14 DEF GenNext, Rebuild

-----------------------------------------------------------------------------
(***************************************************************************)
(* Theorems.                                                               *)
(***************************************************************************)

\* The invariant of the whole server holds for any number of handlers, with
\* builds, timers and restarts between any two of their steps.
THEOREM GenInvariant == GenSpec => []GenInv
BY GenInvariantInit, GenInvariantStep, PTL DEF GenSpec

\* Tables, handlers, the build and the generation keep their types.
THEOREM GenTypeCorrect == GenSpec => []GenTypeOK
<1>1. GenInv => GenTypeOK
  BY DEF GenInv
<1> QED BY <1>1, GenInvariant, PTL

\* Rating builds do not disturb ingestion: its invariant holds of the server.
THEOREM IngestInvariantServed == GenSpec => []IngestInv
<1>1. GenInv => IngestInv
  BY DEF GenInv
<1> QED BY <1>1, GenInvariant, PTL

\* Every event on the ladder is of a ranked match that two participants agree
\* on, under its own receipt.
THEOREM LadderIsBacked == GenSpec => []PublishedBacked
<1>1. GenInv => PublishedBacked
  BY DEF GenInv, PublishedBacked, EventBacked
<1> QED BY <1>1, GenInvariant, PTL

\* The ladder credits the winner that both participants named.
THEOREM LadderCreditsTheWinner == GenSpec => []PublishedWinner
<1>1. GenInv => PublishedWinner
  BY DEF GenInv, PublishedWinner, EventBacked
<1> QED BY <1>1, GenInvariant, PTL

\* What is marked as applied, and counts, is on the ladder.
THEOREM AppliedIsPublished == GenSpec => []AppliedIsCounted
<1>1. GenInv => AppliedIsCounted
  BY DEF GenInv
<1> QED BY <1>1, GenInvariant, PTL

\* A generation misses no match that counts when it is published, but one
\* whose handler has yet to make it late.
THEOREM LadderIsComplete == GenSpec => PublishedComplete
<1> DEFINE Complete == head' # head =>
       \A m \in Match :
         Eligible(m) /\ ~(\E r \in Request : At(r, "bump") /\ Session(r) = m) =>
           \E e \in head'.events : e.match = m
<1>1. ASSUME GenInv, [GenNext]_genVars PROVE Complete
  <2>1. head' # head => /\ build.pc = "derive" /\ build.todo = {} /\ build.rev = rev
                        /\ head' = [rev |-> rev, events |-> build.events]
    BY <1>1 DEF GenNext, genVars, Accept, Handle, Answer, SignUp, CheckIn, Fire, Regenerate,
         Restart, Rebuild, ReadRevision, ListMatches, ReadRow, ReadGames, ReadReports,
         Reject, Commit, Mark, Finish
  <2>2. ASSUME head' # head, NEW m \in Match, Eligible(m),
               ~(\E r \in Request : At(r, "bump") /\ Session(r) = m)
        PROVE  \E e \in head'.events : e.match = m
    <3>1. Countable(matches[m]) /\ head'.events = build.events
      BY <2>1, <2>2 DEF Eligible
    <3> QED BY <1>1, <2>1, <2>2, <3>1, CompleteWhenInTime
  <2> QED BY <2>2
<1>2. GenInv /\ [GenNext]_genVars => [Complete]_genVars
  BY <1>1
<1> QED BY <1>2, GenInvariant, PTL DEF GenSpec, PublishedComplete

\* A rating build leaves the evidence log alone: the whole server implements it.
THEOREM ServerRefinesEvidenceLog == GenSpec => ImplementsEvidenceLog
<1>1. GenInit => Evidences!EvidenceInit
  BY DEF GenInit, Init, NewMatchRow, Evidences!EvidenceInit
<1>2. GenInv /\ [GenNext]_genVars => [Evidences!EvidenceNext]_(Evidences!evidenceVars)
  <2> SUFFICES ASSUME GenInv, [GenNext]_genVars
               PROVE  [Evidences!EvidenceNext]_(Evidences!evidenceVars)
    OBVIOUS
  <2>1. CASE [Next]_vars
    BY <2>1, EvidenceStep DEF GenInv
  <2>2. CASE Marks
    BY <2>2 DEF Marks, Evidences!evidenceVars
  <2> QED BY <2>1, <2>2, StepKind
<1> QED BY <1>1, <1>2, GenInvariant, PTL
        DEF GenSpec, ImplementsEvidenceLog, Evidences!EvidenceSpec

\* Nor does a build turn a verdict: what counts is never held afterwards.
THEOREM VerdictsPermanentServed == GenSpec => VerdictNeverFlips
<1> DEFINE NoFlip == \A m \in Match :
       /\ matches[m].rating \in {"pending", "applied"} => matches'[m].rating # "held"
       /\ matches[m].rating = "held" => matches'[m].rating \notin {"pending", "applied"}
<1>1. ASSUME GenInv, [GenNext]_genVars PROVE NoFlip
  <2>1. IngestInv /\ IngestInv' /\ TypeOK' /\ Grows
    BY <1>1, IngestKept DEF GenInv
  <2>2. ASSUME NEW m \in Match
        PROVE  /\ matches[m].rating \in {"pending", "applied"} => Supported(m)'
               /\ matches[m].rating = "held" => Conflicted(m)'
               /\ matches'[m].rating \in {"pending", "applied"} => Supported(m)'
               /\ matches'[m].rating = "held" => Conflicted(m)'
    <3>1. (Supported(m) => Supported(m)') /\ (Conflicted(m) => Conflicted(m)')
      BY <2>1, BackingKept
    <3> QED BY <2>1, <3>1 DEF IngestInv, RatedOnlyWhenAgreed, HeldOnlyWhenContested
  <2>3. \A m \in Match : ~(Supported(m)' /\ Conflicted(m)')
    BY DEF Supported, Conflicted
  <2> QED BY <2>2, <2>3
<1>2. GenInv /\ [GenNext]_genVars => [NoFlip]_vars
  BY <1>1
<1> QED BY <1>2, GenInvariant, PTL DEF GenSpec, VerdictNeverFlips

=============================================================================
