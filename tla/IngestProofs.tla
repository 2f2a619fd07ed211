---------------------------- MODULE IngestProofs ----------------------------
(***************************************************************************)
(* Theorems about Ingest, for every set of accounts, sessions, documents,  *)
(* reports, credentials and concurrent handlers.                           *)
(***************************************************************************)
EXTENDS Ingest, TLAPS

-----------------------------------------------------------------------------
(***************************************************************************)
(* What the reports on file say, as more of them arrive.  A match has two  *)
(* participant accounts at most, so two first reports at most: once they   *)
(* agree or conflict nothing filed later can change it.                    *)
(***************************************************************************)

\* Later reports add first reports and never remove one.
LEMMA FirstsGrow ==
  \A m \in Match : \A n, k \in Nat :
    n <= k => FirstOfAccount(m, n) \subseteq FirstOfAccount(m, k)
BY DEF FirstOfAccount, Independent, FiledFor

\* Agreement and conflict, once on file, stay on file.
LEMMA AgreementGrows ==
  \A m \in Match : \A n, k \in Nat : n <= k =>
    /\ Agreed(m, n) => Agreed(m, k)
    /\ Contested(m, n) => Contested(m, k)
BY FirstsGrow DEF Agreed, Contested

\* A participant account has one first report.
LEMMA OneFirst ==
  \A m \in Match : \A n \in Nat : \A i, j \in FirstOfAccount(m, n) :
    log[i].by = log[j].by => i = j
BY DEF FirstOfAccount, Independent, FiledFor

\* There are at most two participant accounts, so at most two first reports.
LEMMA TwoFirsts ==
  \A m \in Match : \A n \in Nat : \A i, j, k \in FirstOfAccount(m, n) :
    contract[m] \in Doc /\ log[i].by # log[j].by => k \in {i, j}
<1> SUFFICES ASSUME NEW m \in Match, NEW n \in Nat, contract[m] \in Doc,
                    NEW i \in FirstOfAccount(m, n), NEW j \in FirstOfAccount(m, n),
                    NEW k \in FirstOfAccount(m, n), log[i].by # log[j].by
             PROVE  k \in {i, j}
  OBVIOUS
<1>1. PICK c, d \in Character : contract[m].players = {c, d}
  BY IngestAssumption DEF ContractDoc
<1>2. ParticipantAccounts(m) = {Owner[c], Owner[d]}
  BY <1>1 DEF ParticipantAccounts
<1>3. \A p \in FirstOfAccount(m, n) : log[p].by \in {Owner[c], Owner[d]}
  BY <1>2 DEF FirstOfAccount, Independent
<1>4. log[k].by \in {log[i].by, log[j].by}
  BY <1>3
<1> QED BY <1>4, OneFirst

\* The first reports of the two sides agree or conflict, never both.
LEMMA Exclusive ==
  \A m \in Match : \A n \in Nat : contract[m] \in Doc => ~(Agreed(m, n) /\ Contested(m, n))
<1> SUFFICES ASSUME NEW m \in Match, NEW n \in Nat, contract[m] \in Doc,
                    Agreed(m, n), Contested(m, n)
             PROVE  FALSE
  OBVIOUS
<1>1. PICK i, j \in FirstOfAccount(m, n) :
        log[i].by # log[j].by /\ log[i].body.claim = log[j].body.claim
  BY DEF Agreed
<1>2. PICK k, l \in FirstOfAccount(m, n) :
        log[k].by # log[l].by /\ log[k].body.claim # log[l].body.claim
  BY DEF Contested
<1>3. k \in {i, j} /\ l \in {i, j}
  BY <1>1, TwoFirsts
<1> QED BY <1>1, <1>2, <1>3

\* Once the two sides agree, no later report is a first report.
LEMMA FirstsFixed ==
  \A m \in Match : \A n, k \in Nat :
    contract[m] \in Doc /\ n <= k /\ Agreed(m, n) => FirstOfAccount(m, k) = FirstOfAccount(m, n)
<1> SUFFICES ASSUME NEW m \in Match, NEW n \in Nat, NEW k \in Nat,
                    contract[m] \in Doc, n <= k, Agreed(m, n)
             PROVE  FirstOfAccount(m, k) = FirstOfAccount(m, n)
  OBVIOUS
<1>1. PICK i, j \in FirstOfAccount(m, n) : log[i].by # log[j].by
  BY DEF Agreed
<1>2. FirstOfAccount(m, n) \subseteq FirstOfAccount(m, k)
  BY FirstsGrow
<1>3. \A p \in FirstOfAccount(m, k) : p \in {i, j}
  BY <1>1, <1>2, TwoFirsts
<1> QED BY <1>1, <1>2, <1>3

\* The earliest independent report speaks for both sides once they agree.
LEMMA EarliestIsClaimed ==
  \A m \in Match : \A n \in Nat :
    contract[m] \in Doc /\ Agreed(m, n) =>
      /\ Earliest(m, n) \in FirstOfAccount(m, n)
      /\ \A p \in FirstOfAccount(m, n) :
           log[p].body.claim = log[Earliest(m, n)].body.claim
<1> SUFFICES ASSUME NEW m \in Match, NEW n \in Nat, contract[m] \in Doc, Agreed(m, n)
             PROVE  /\ Earliest(m, n) \in FirstOfAccount(m, n)
                    /\ \A p \in FirstOfAccount(m, n) :
                         log[p].body.claim = log[Earliest(m, n)].body.claim
  OBVIOUS
<1>1. PICK i, j \in FirstOfAccount(m, n) :
        log[i].by # log[j].by /\ log[i].body.claim = log[j].body.claim
  BY DEF Agreed
<1>2. /\ FirstOfAccount(m, n) \subseteq Independent(m, n)
      /\ Independent(m, n) \subseteq 1..n
  BY DEF FirstOfAccount, Independent, FiledFor
<1>3. \A k \in Independent(m, n) : i <= k \/ j <= k
  <2>1. PICK c, d \in Character : contract[m].players = {c, d}
    BY IngestAssumption DEF ContractDoc
  <2>2. ParticipantAccounts(m) = {Owner[c], Owner[d]}
    BY <2>1 DEF ParticipantAccounts
  <2>3. \A k \in Independent(m, n) : log[k].by \in {Owner[c], Owner[d]}
    BY <2>2 DEF Independent
  <2>4. \A k \in Independent(m, n) : log[k].by \in {log[i].by, log[j].by}
    BY <1>1, <1>2, <2>3
  <2> QED BY <2>4 DEF FirstOfAccount
<1>4. \E k \in {i, j} : k \in Independent(m, n) /\ \A l \in Independent(m, n) : k <= l
  <2>1. i \in Nat /\ j \in Nat /\ \A l \in Independent(m, n) : l \in Nat
    BY <1>2
  <2>2. CASE i <= j
    BY <1>2, <1>3, <2>1, <2>2
  <2>3. CASE j <= i
    BY <1>2, <1>3, <2>1, <2>3
  <2> QED BY <2>1, <2>2, <2>3
<1>5. /\ Earliest(m, n) \in Independent(m, n)
      /\ \A l \in Independent(m, n) : Earliest(m, n) <= l
  BY <1>4 DEF Earliest
<1>6. Earliest(m, n) \in {i, j}
  BY <1>2, <1>4, <1>5
<1>7. \A p \in FirstOfAccount(m, n) : p \in {i, j}
  BY <1>1, TwoFirsts
<1> QED BY <1>1, <1>6, <1>7

\* What EvidenceOf says of the first reports.
LEMMA EvidenceMeans ==
  \A m \in Match : \A n \in Nat :
    /\ EvidenceOf(m, n) = "corroborated" => Agreed(m, n) /\ ~Contested(m, n)
    /\ EvidenceOf(m, n) = "disputed" <=> Contested(m, n)
BY DEF EvidenceOf
-----------------------------------------------------------------------------
(***************************************************************************)
(* Type correctness.                                                       *)
(***************************************************************************)

\* The values handlers take are handler records.
LEMMA IdleHandlerType == IdleHandler \in Handler
BY DEF IdleHandler, Handler, PC, Lifecycle

\* The state of a handler between two reports is a handler state.
LEMMA BetweenItemsType ==
  ASSUME NEW c \in Credential \union {NoCred}, NEW d \in BOOLEAN
  PROVE  BetweenItems(c, d) \in Handler
BY DEF BetweenItems, Handler, PC, Lifecycle

\* The fields of a handler have the types of Handler.
LEMMA HandlerType ==
  ASSUME TypeOK, NEW r \in Request
  PROVE  /\ req[r] \in Handler
         /\ BetweenItems(req[r].cred, req[r].dirty) \in Handler
         /\ BetweenItems(req[r].cred, TRUE) \in Handler
<1>1. req[r] \in Handler /\ req[r].cred \in Credential \union {NoCred}
  BY DEF TypeOK, Handler
<1>2. req[r].dirty \in BOOLEAN
  BY <1>1 DEF Handler
<1> QED BY <1>1, <1>2, BetweenItemsType

\* Replacing one handler by a handler keeps req well typed.
LEMMA BecomeType ==
  ASSUME TypeOK, NEW r \in Request, NEW h \in Handler, Become(r, h)
  PROVE  req' \in [Request -> Handler]
BY DEF TypeOK, Become

\* Moving a handler to another program point keeps req well typed.
LEMMA GotoType ==
  ASSUME TypeOK, NEW r \in Request, NEW pc \in PC, Goto(r, pc)
  PROVE  req' \in [Request -> Handler]
<1>1. [req[r] EXCEPT !.pc = pc] \in Handler
  BY HandlerType DEF Handler
<1> QED BY <1>1, BecomeType DEF Goto

\* Going on with the next report keeps req well typed.
LEMMA NextItemType ==
  ASSUME TypeOK, NEW r \in Request, NextItem(r)
  PROVE  req' \in [Request -> Handler]
BY HandlerType, BecomeType DEF NextItem

\* Replacing one match row by a match row keeps matches well typed.
LEMMA SetMatchType ==
  ASSUME TypeOK, NEW m, NEW row \in MatchRow, SetMatch(m, row)
  PROVE  matches' \in [Match -> MatchRow]
BY DEF TypeOK, SetMatch

\* Past "next" a handler holds a report, so a session and a contract hash.
LEMMA ItemKnown ==
  ASSUME TypeOK, NEW r \in Request, HandlerInv(r), req[r].pc \notin {"idle", "next"}
  PROVE  /\ req[r].item \in Report
         /\ Session(r) \in Match
         /\ req[r].item.hash \in Doc
         /\ req[r].cred \in Credential
         /\ req[r].cred.account \in Account
<1>1. req[r].item \in Report /\ (req[r].pc # "idle" => req[r].cred \in Credential)
  BY DEF HandlerInv
<1> QED BY <1>1, IngestAssumption DEF Session, ReportBody, AuthContext

\* Every row of the log is a report and the account that filed it.
LEMMA LogEntry == TypeOK => \A k \in 1..Len(log) : log[k] \in [body : Report, by : Account]
<1>1. \A S : \A s \in Seq(S) : \A k \in 1..Len(s) : s[k] \in S
  OBVIOUS
<1> QED BY <1>1 DEF TypeOK

\* One step keeps the types of the tables and of the handlers.
LEMMA TypeStep == IngestInv /\ [Next]_vars => TypeOK'
<1> SUFFICES ASSUME IngestInv, [Next]_vars PROVE TypeOK'
  OBVIOUS
<1> USE DEF store
<1>0. TypeOK /\ \A r \in Request : HandlerInv(r)
  BY DEF IngestInv
<1>1. ASSUME NEW r \in Request, Begin(r) PROVE TypeOK'
  <2>1. PICK c \in Credential : Become(r, BetweenItems(c, FALSE))
    BY <1>1 DEF Begin
  <2>2. req' \in [Request -> Handler]
    BY <1>0, <2>1, BetweenItemsType, BecomeType
  <2> QED BY <1>0, <1>1, <2>2 DEF Begin, TypeOK
<1>2. ASSUME NEW r \in Request, Take(r) PROVE TypeOK'
  <2>1. PICK body \in Report, d \in Doc \union {NoDoc} :
          Become(r, [req[r] EXCEPT !.pc = "resolve", !.item = body, !.doc = d])
    BY <1>2 DEF Take
  <2>2. [req[r] EXCEPT !.pc = "resolve", !.item = body, !.doc = d] \in Handler
    BY <1>0, HandlerType DEF Handler, PC
  <2>3. req' \in [Request -> Handler]
    BY <1>0, <2>1, <2>2, BecomeType
  <2> QED BY <1>0, <1>2, <2>3 DEF Take, TypeOK
<1>3. ASSUME NEW r \in Request, Resolve(r) PROVE TypeOK'
  <2>1. req' \in [Request -> Handler]
    BY <1>0, <1>3, GotoType, NextItemType DEF Resolve, PC
  <2> QED BY <1>0, <1>3, <2>1 DEF Resolve, TypeOK
<1>4. ASSUME NEW r \in Request, OpenMatch(r) PROVE TypeOK'
  <2>1. req' \in [Request -> Handler]
    BY <1>0, <1>4, GotoType, NextItemType DEF OpenMatch, PC
  <2>2. NewMatchRow \in MatchRow
    BY DEF NewMatchRow, MatchRow, Lifecycle, Evidence, Rating
  <2>3. req[r].doc \in Doc \union {NoDoc}
    BY <1>0, HandlerType DEF Handler
  <2>4. matches' \in [Match -> MatchRow] /\ contract' \in [Match -> Doc \union {NoDoc}]
    BY <1>0, <1>4, <2>2, <2>3, SetMatchType DEF OpenMatch, TypeOK
  <2> QED BY <1>0, <1>4, <2>1, <2>4 DEF OpenMatch, TypeOK
<1>5. ASSUME NEW r \in Request, Quarantine(r) PROVE TypeOK'
  <2>1. req' \in [Request -> Handler]
    BY <1>0, <1>5, NextItemType DEF Quarantine
  <2>2. Session(r) \in Match
    BY <1>0, <1>5, ItemKnown DEF Quarantine, At
  <2>3. [matches[Session(r)] EXCEPT !.evidence = "disputed"] \in MatchRow
    BY <1>0, <2>2 DEF TypeOK, MatchRow, Evidence
  <2>4. matches' \in [Match -> MatchRow]
    BY <1>0, <1>5, <2>3, SetMatchType DEF Quarantine
  <2> QED BY <1>0, <1>5, <2>1, <2>4 DEF Quarantine, TypeOK
<1>6. ASSUME NEW r \in Request, File(r) PROVE TypeOK'
  <2>1. req' \in [Request -> Handler]
    BY <1>0, <1>6, GotoType, NextItemType DEF File, PC
  <2>2. req[r].item \in Report /\ req[r].cred.account \in Account
    BY <1>0, <1>6, ItemKnown DEF File, At
  <2>3. [body |-> req[r].item, by |-> req[r].cred.account] \in [body : Report, by : Account]
    BY <2>2
  <2>4. \A e \in [body : Report, by : Account] :
          Append(log, e) \in Seq([body : Report, by : Account])
    BY <1>0 DEF TypeOK
  <2>5. log' \in Seq([body : Report, by : Account])
    BY <1>0, <1>6, <2>3, <2>4 DEF File, TypeOK
  <2> QED BY <1>0, <1>6, <2>1, <2>5 DEF File, TypeOK
<1>7. ASSUME NEW r \in Request, AssignReceipt(r) PROVE TypeOK'
  <2>1. req' \in [Request -> Handler]
    BY <1>0, <1>7, GotoType DEF AssignReceipt, PC
  <2>2. receipts' \in Nat
    BY <1>0, <1>7 DEF AssignReceipt, TypeOK
  <2>3. Session(r) \in Match
    BY <1>0, <1>7, ItemKnown DEF AssignReceipt, At
  <2>4. [matches[Session(r)] EXCEPT !.receipt = receipts + 1] \in MatchRow
    <3>1. matches[Session(r)] \in MatchRow /\ receipts + 1 \in Nat
      BY <1>0, <2>3 DEF TypeOK
    <3> QED BY <3>1 DEF MatchRow
  <2>5. matches' \in [Match -> MatchRow]
    BY <1>0, <1>7, <2>4, SetMatchType DEF AssignReceipt, TypeOK
  <2> QED BY <1>0, <1>7, <2>1, <2>2, <2>5 DEF AssignReceipt, TypeOK
<1>8. ASSUME NEW r \in Request, ReadMatch(r) PROVE TypeOK'
  <2>1. PICK next \in {"write", "tiers", "games"} :
          Become(r, [req[r] EXCEPT !.pc = next, !.seen = Len(log),
                                   !.life = matches[Session(r)].lifecycle])
    BY <1>8 DEF ReadMatch
  <2>2. Session(r) \in Match
    BY <1>0, <1>8, ItemKnown DEF ReadMatch, At
  <2>3. matches[Session(r)].lifecycle \in Lifecycle /\ Len(log) \in Nat
    BY <1>0, <2>2 DEF TypeOK, MatchRow
  <2>4. [req[r] EXCEPT !.pc = next, !.seen = Len(log),
                       !.life = matches[Session(r)].lifecycle] \in Handler
    BY <1>0, <2>3, HandlerType DEF Handler, PC
  <2>5. req' \in [Request -> Handler]
    BY <1>0, <2>1, <2>4, BecomeType
  <2> QED BY <1>0, <1>8, <2>5 DEF ReadMatch, TypeOK
<1>9. ASSUME NEW r \in Request, ReadTiers(r) PROVE TypeOK'
  <2>1. PlayersVerified(Session(r)) \in BOOLEAN
    BY DEF PlayersVerified
  <2>2. [req[r] EXCEPT !.pc = "games", !.ok = PlayersVerified(Session(r))] \in Handler
    BY <1>0, <2>1, HandlerType DEF Handler, PC
  <2>3. req' \in [Request -> Handler]
    BY <1>0, <1>9, <2>2, BecomeType DEF ReadTiers
  <2> QED BY <1>0, <1>9, <2>3 DEF ReadTiers, TypeOK
<1>10. ASSUME NEW r \in Request, Bump(r) PROVE TypeOK'
  <2>1. req' \in [Request -> Handler]
    BY <1>0, <1>10, HandlerType, BecomeType DEF Bump
  <2> QED BY <1>0, <1>10, <2>1 DEF Bump, TypeOK
<1>11. ASSUME NEW r \in Request, End(r) PROVE TypeOK'
  <2>1. req' \in [Request -> Handler]
    BY <1>0, <1>11, IdleHandlerType, BecomeType DEF End
  <2>2. timer' \in BOOLEAN
    BY <1>11 DEF End
  <2> QED BY <1>0, <1>11, <2>1, <2>2 DEF End, TypeOK
<1>12. ASSUME NEW r \in Request, InsertRaces(r) PROVE TypeOK'
  BY <1>0, <1>12, IdleHandlerType DEF InsertRaces, Exit, TypeOK
<1>19. ASSUME NEW r \in Request, GamesRace(r) PROVE TypeOK'
  BY <1>0, <1>19, IdleHandlerType DEF GamesRace, Exit, TypeOK
<1>13. CASE Crash
  BY <1>0, <1>13, IdleHandlerType DEF Crash, Exit, TypeOK
<1>14. ASSUME NEW c \in Character, Register(c) PROVE TypeOK'
  BY <1>0, <1>14 DEF Register, TypeOK, Tier
<1>15. ASSUME NEW c \in Character, Witness(c) PROVE TypeOK'
  BY <1>0, <1>15 DEF Witness, TypeOK, Tier, Verified
<1>16. ASSUME NEW r \in Request, WriteGames(r) PROVE TypeOK'
  <2> DEFINE m == Session(r)
             i == Earliest(m, req[r].seen)
  <2>1. m \in Match /\ contract[m] \in Doc /\ req[r].seen \in Nat /\ req[r].seen <= Len(log)
    <3>1. m \in Match /\ req[r].item.hash \in Doc
      BY <1>0, <1>16, ItemKnown DEF WriteGames, At
    <3>2. contract[m] = req[r].item.hash /\ req[r].seen <= Len(log)
      BY <1>0, <1>16 DEF WriteGames, At, HandlerInv, Session
    <3> QED BY <1>0, <3>1, <3>2, HandlerType DEF Handler
  <2>2. Agreed(m, req[r].seen)
    <3>1. EvidenceOf(m, req[r].seen) = "corroborated"
      BY <1>0, <1>16 DEF WriteGames, At, HandlerInv, Session
    <3> QED BY <2>1, <3>1, EvidenceMeans
  <2>3. i \in FirstOfAccount(m, req[r].seen)
    BY <2>1, <2>2, EarliestIsClaimed
  <2>4. i \in 1..Len(log)
    BY <1>0, <2>1, <2>3 DEF FirstOfAccount, Independent, FiledFor, TypeOK
  <2>5. log[i] \in [body : Report, by : Account]
    <3>1. \A k \in 1..Len(log) : log[k] \in [body : Report, by : Account]
      BY <1>0, LogEntry
    <3> HIDE DEF i
    <3> QED BY <2>4, <3>1
  <2>6. log[i].body.claim \in Claim
    BY <2>5, IngestAssumption DEF ReportBody
  <2>7. games' \in [Match -> Claim \union {NoClaim}]
    BY <1>0, <1>16, <2>6 DEF WriteGames, TypeOK
  <2>8. req' \in [Request -> Handler]
    BY <1>0, <1>16, GotoType DEF WriteGames, PC
  <2> QED BY <1>0, <1>16, <2>7, <2>8 DEF WriteGames, TypeOK
<1>17. ASSUME NEW r \in Request, WriteState(r) PROVE TypeOK'
  <2>1. req' \in [Request -> Handler]
    BY <1>0, <1>17, GotoType, NextItemType DEF WriteState, PC
  <2> DEFINE m == Session(r)
             e == EvidenceOf(m, req[r].seen)
             rating == RatingOf(e, req[r].ok)
             life == IF Finished(m, req[r].seen) THEN "finished" ELSE req[r].life
  <2>2. e \in Evidence
    BY DEF EvidenceOf, Evidence
  <2>3. rating \in Rating
    BY DEF RatingOf, Rating
  <2>4. life \in Lifecycle
    BY <1>0, HandlerType DEF Handler, Lifecycle
  <2>5. m \in Match
    BY <1>0, <1>17, ItemKnown DEF WriteState, At
  <2>6. [matches[m] EXCEPT !.evidence = e, !.rating = rating, !.lifecycle = life] \in MatchRow
    <3> HIDE DEF e, rating, life, m
    <3> QED BY <1>0, <2>2, <2>3, <2>4, <2>5 DEF TypeOK, MatchRow
  <2>7. matches' \in [Match -> MatchRow]
    BY <1>0, <1>17, <2>6, SetMatchType DEF WriteState
  <2> QED BY <1>0, <1>17, <2>1, <2>7 DEF WriteState, TypeOK
<1>18. CASE UNCHANGED vars
  BY <1>0, <1>18 DEF vars, TypeOK
<1> QED BY <1>1, <1>2, <1>3, <1>4, <1>5, <1>6, <1>7, <1>8, <1>9, <1>10, <1>11, <1>12,
           <1>13, <1>14, <1>15, <1>16, <1>17, <1>18, <1>19 DEF Next, Step
-----------------------------------------------------------------------------
(***************************************************************************)
(* What no step undoes.                                                    *)
(***************************************************************************)

\* Contracts, reports, receipts and verification are write-once.
Grows ==
  /\ \A m \in Match : contract[m] # NoDoc => contract'[m] = contract[m]
  /\ Len(log) <= Len(log') /\ \A i \in 1..Len(log) : log'[i] = log[i]
  /\ \A m \in Match : matches[m].receipt # 0 => matches'[m].receipt = matches[m].receipt
  /\ \A c \in Character : tier[c] \in Verified => tier'[c] \in Verified

\* So what was read from the first n reports stays true of them.
LEMMA EvidenceStable ==
  ASSUME TypeOK, Grows, NEW m \in Match, contract[m] # NoDoc, NEW n \in 0..Len(log)
  PROVE  /\ FirstOfAccount(m, n)' = FirstOfAccount(m, n)
         /\ Agreed(m, n)' = Agreed(m, n)
         /\ Contested(m, n)' = Contested(m, n)
         /\ EvidenceOf(m, n)' = EvidenceOf(m, n)
         /\ PlayersVerified(m) => PlayersVerified(m)'
<1>1. contract'[m] = contract[m] /\ n \in Nat /\ \A i \in 1..n : i \in 1..Len(log)
  BY DEF Grows, TypeOK
<1>2. \A i \in 1..n : log'[i] = log[i]
  BY <1>1 DEF Grows
<1>3. ParticipantAccounts(m)' = ParticipantAccounts(m)
  BY <1>1 DEF ParticipantAccounts
<1>4. FiledFor(m, n)' = FiledFor(m, n) /\ FiledFor(m, n) \subseteq 1..n
  BY <1>2 DEF FiledFor
<1>5. Independent(m, n)' = Independent(m, n) /\ Independent(m, n) \subseteq 1..n
  BY <1>2, <1>3, <1>4 DEF Independent
<1>6. FirstOfAccount(m, n)' = FirstOfAccount(m, n) /\ FirstOfAccount(m, n) \subseteq 1..n
  BY <1>2, <1>5 DEF FirstOfAccount
<1>7. Agreed(m, n)' = Agreed(m, n) /\ Contested(m, n)' = Contested(m, n)
  BY <1>2, <1>6 DEF Agreed, Contested
<1>8. PeerSupported(m, n)' = PeerSupported(m, n)
  BY <1>2, <1>5 DEF PeerSupported
<1>9. EvidenceOf(m, n)' = EvidenceOf(m, n)
  BY <1>7, <1>8 DEF EvidenceOf
<1>10. PlayersVerified(m) => PlayersVerified(m)'
  <2>1. contract[m].players \subseteq Character
    BY IngestAssumption DEF TypeOK, ContractDoc
  <2> QED BY <1>1, <2>1 DEF PlayersVerified, Grows
<1> QED BY <1>6, <1>7, <1>9, <1>10

\* Every step of every handler, crash or referee respects it.
LEMMA GrowsStep == IngestInv /\ [Next]_vars => Grows
<1> SUFFICES ASSUME IngestInv, [Next]_vars PROVE Grows
  OBVIOUS
<1>0. TypeOK /\ \A r \in Request : HandlerInv(r)
  BY DEF IngestInv
<1>1. \A m \in Match : contract[m] # NoDoc => contract'[m] = contract[m]
  <2>1. ASSUME NEW r \in Request, OpenMatch(r)
        PROVE  \A m \in Match : contract[m] # NoDoc => contract'[m] = contract[m]
    BY <1>0, <2>1 DEF OpenMatch, TypeOK, store
  <2> QED
    BY <2>1 DEF Next, Step, vars, store, Begin, Take, Resolve, Quarantine, File,
         AssignReceipt, ReadMatch, ReadTiers, WriteGames, WriteState, Bump, End,
         InsertRaces, GamesRace, Exit, Crash, Register, Witness
<1>2. Len(log) <= Len(log') /\ \A i \in 1..Len(log) : log'[i] = log[i]
  <2>1. ASSUME NEW e \in [body : Report, by : Account], log' = Append(log, e)
        PROVE  Len(log) <= Len(log') /\ \A i \in 1..Len(log) : log'[i] = log[i]
    BY <1>0, <2>1 DEF TypeOK
  <2>2. ASSUME NEW r \in Request, File(r)
        PROVE  log' = log \/ \E e \in [body : Report, by : Account] : log' = Append(log, e)
    BY <1>0, <2>2, ItemKnown DEF File, At
  <2>3. log' = log \/ \E e \in [body : Report, by : Account] : log' = Append(log, e)
    BY <2>2 DEF Next, Step, vars, store, Begin, Take, Resolve, OpenMatch, Quarantine,
         AssignReceipt, ReadMatch, ReadTiers, WriteGames, WriteState, Bump, End,
         InsertRaces, GamesRace, Exit, Crash, Register, Witness
  <2>4. Len(log) \in Nat
    BY <1>0 DEF TypeOK
  <2> QED BY <2>1, <2>3, <2>4
<1>3. \A m \in Match : matches[m].receipt # 0 => matches'[m].receipt = matches[m].receipt
  <2> DEFINE Kept == \A m \in Match :
        matches[m].receipt # 0 => matches'[m].receipt = matches[m].receipt
  <2>0. matches \in [Match -> MatchRow]
    BY <1>0 DEF TypeOK
  <2>1. ASSUME NEW r \in Request, OpenMatch(r) PROVE Kept
    <3>1. \A m \in Match : contract[m] = NoDoc => matches[m].receipt = 0
      BY DEF IngestInv, UnboundIsNew, NewMatchRow
    <3> QED BY <2>0, <2>1, <3>1 DEF OpenMatch, SetMatch, store
  <2>2. ASSUME NEW r \in Request, Quarantine(r) PROVE Kept
    BY <2>0, <2>2 DEF Quarantine, SetMatch, MatchRow
  <2>3. ASSUME NEW r \in Request, AssignReceipt(r) PROVE Kept
    BY <2>0, <2>3 DEF AssignReceipt, SetMatch, MatchRow
  <2>4. ASSUME NEW r \in Request, WriteState(r) PROVE Kept
    <3>1. \A m \in Match : \A e, a, l :
            [matches[m] EXCEPT !.evidence = e, !.rating = a, !.lifecycle = l].receipt
              = matches[m].receipt
      BY <2>0 DEF MatchRow
    <3> QED BY <2>0, <2>4, <3>1 DEF WriteState, SetMatch
  <2> HIDE DEF Kept
  <2>5. matches' = matches => Kept
    BY DEF Kept
  <2> QED
    <3>1. Kept
      BY <2>1, <2>2, <2>3, <2>4, <2>5 DEF Next, Step, vars, store, Begin, Take, Resolve,
           File, ReadMatch, ReadTiers, WriteGames, Bump, End, InsertRaces, GamesRace,
           Exit, Crash,
           Register, Witness
    <3> QED BY <3>1 DEF Kept
<1>4. \A c \in Character : tier[c] \in Verified => tier'[c] \in Verified
  <2>1. ASSUME NEW c \in Character, Register(c) \/ Witness(c)
        PROVE  \A d \in Character : tier[d] \in Verified => tier'[d] \in Verified
    BY <1>0, <2>1 DEF Register, Witness, Verified, TypeOK
  <2> QED
    BY <2>1 DEF Next, Step, vars, store, Begin, Take, Resolve, OpenMatch, Quarantine, File,
         AssignReceipt, ReadMatch, ReadTiers, WriteGames, WriteState, Bump, End,
         InsertRaces, GamesRace, Exit, Crash
<1> QED BY <1>1, <1>2, <1>3, <1>4 DEF Grows

-----------------------------------------------------------------------------
(***************************************************************************)
(* The inductive invariant.                                                *)
(***************************************************************************)

\* The lemmas on first reports, about the state after a step.
LEMMA FirstsNext ==
  /\ (\A m \in Match : \A n, k \in Nat : n <= k =>
        /\ Agreed(m, n) => Agreed(m, k)
        /\ Contested(m, n) => Contested(m, k))'
  /\ (\A m \in Match : \A n \in Nat :
        contract[m] \in Doc => ~(Agreed(m, n) /\ Contested(m, n)))'
  /\ (\A m \in Match : \A n, k \in Nat :
        contract[m] \in Doc /\ n <= k /\ Agreed(m, n)
          => FirstOfAccount(m, k) = FirstOfAccount(m, n))'
<1>1. (\A m \in Match : \A n, k \in Nat : n <= k =>
         /\ Agreed(m, n) => Agreed(m, k)
         /\ Contested(m, n) => Contested(m, k))'
  BY AgreementGrows, PTL
<1>2. (\A m \in Match : \A n \in Nat :
         contract[m] \in Doc => ~(Agreed(m, n) /\ Contested(m, n)))'
  BY Exclusive, PTL
<1>3. (\A m \in Match : \A n, k \in Nat :
         contract[m] \in Doc /\ n <= k /\ Agreed(m, n)
           => FirstOfAccount(m, k) = FirstOfAccount(m, n))'
  BY FirstsFixed, PTL
<1> QED BY <1>1, <1>2, <1>3

\* What the reports amount to at one moment they amount to ever after.
LEMMA BackingKept ==
  ASSUME IngestInv, TypeOK', Grows, NEW m \in Match
  PROVE  /\ Supported(m) => Supported(m)'
         /\ Conflicted(m) => Conflicted(m)'
         /\ \A w : AgreedOn(m, w) => AgreedOn(m, w)'
<1> SUFFICES ASSUME contract[m] # NoDoc, NEW n \in Nat, n = Len(log)
             PROVE  /\ Supported(m) => Supported(m)'
                    /\ Conflicted(m) => Conflicted(m)'
                    /\ \A w : AgreedOn(m, w) => AgreedOn(m, w)'
  <2>1. TypeOK => Len(log) \in Nat
    BY DEF TypeOK
  <2> QED BY <2>1 DEF Supported, Conflicted, AgreedOn, IngestInv
<1>1. /\ n \in 0..Len(log) /\ Len(log') \in Nat /\ n <= Len(log')
      /\ contract'[m] = contract[m] /\ contract[m] \in Doc /\ contract'[m] \in Doc
  BY DEF IngestInv, TypeOK, Grows
<1>2. /\ FirstOfAccount(m, n)' = FirstOfAccount(m, n)
      /\ Agreed(m, n)' = Agreed(m, n)
      /\ Contested(m, n)' = Contested(m, n)
      /\ PlayersVerified(m) => PlayersVerified(m)'
  BY <1>1, EvidenceStable DEF IngestInv
<1>3. (Agreed(m, n) => Agreed(m, Len(log))') /\ (Contested(m, n) => Contested(m, Len(log))')
  BY <1>1, <1>2, FirstsNext
<1>4. Supported(m) => Supported(m)'
  <2>1. matches[m].receipt # 0 => matches'[m].receipt # 0
    BY DEF Grows
  <2> QED BY <1>1, <1>2, <1>3, <2>1, FirstsNext DEF Supported
<1>5. Conflicted(m) => Conflicted(m)'
  BY <1>1, <1>3 DEF Conflicted
<1>6. \A w : AgreedOn(m, w) => AgreedOn(m, w)'
  <2>1. Agreed(m, n) => FirstOfAccount(m, Len(log))' = FirstOfAccount(m, n)
    BY <1>1, <1>2, FirstsNext
  <2>2. \A i \in FirstOfAccount(m, n) : log'[i] = log[i]
    BY <1>1 DEF Grows, FirstOfAccount, Independent, FiledFor
  <2> QED BY <1>1, <1>3, <2>1, <2>2 DEF AgreedOn
<1> QED BY <1>4, <1>5, <1>6

\* What a handler knows stays true while others act.
LEMMA HandlerKept ==
  ASSUME IngestInv, TypeOK', Grows, NEW r \in Request, req'[r] = req[r]
  PROVE  HandlerInv(r)'
<1> DEFINE h == req[r]
           m == h.item.session
<1>0. TypeOK /\ HandlerInv(r)
  BY DEF IngestInv
<1>1. CASE h.pc \in {"idle", "next"}
  BY <1>0, <1>1 DEF HandlerInv
<1>2. CASE h.pc \notin {"idle", "next"}
  <2>1. m \in Match /\ h.item.hash \in Doc
    BY <1>0, <1>2, ItemKnown DEF Session
  <2>2. contract[m] # NoDoc => contract'[m] = contract[m]
    BY <2>1 DEF Grows
  <2>3. CASE h.pc \in {"resolve", "open", "quarantine"}
    BY <1>0, <2>2, <2>3 DEF HandlerInv
  <2>4. CASE h.pc \in {"file", "receipt", "read", "tiers", "games", "write", "bump"}
    <3>1. contract[m] = h.item.hash /\ contract[m] # NoDoc /\ contract'[m] = contract[m]
      BY <1>0, <2>1, <2>2, <2>4, IngestAssumption DEF HandlerInv
    <3>2. (\E i \in 1..Len(log) : log[i].body = h.item) =>
             \E i \in 1..Len(log') : log'[i].body = h.item
      <4>1. SUFFICES ASSUME NEW i \in 1..Len(log), log[i].body = h.item
                     PROVE  \E j \in 1..Len(log') : log'[j].body = h.item
        OBVIOUS
      <4>2. Len(log) \in Nat /\ Len(log') \in Nat /\ Len(log) <= Len(log')
        BY <1>0 DEF Grows, TypeOK
      <4>3. i \in 1..Len(log') /\ log'[i] = log[i]
        BY <4>1, <4>2 DEF Grows
      <4> HIDE DEF h
      <4> QED BY <4>1, <4>3
    <3>3. matches[m].receipt # 0 => matches'[m].receipt # 0
      BY <2>1 DEF Grows
    <3>4. h.seen \in Nat /\ Len(log) \in Nat /\ Len(log') \in Nat /\ Len(log) <= Len(log')
      BY <1>0, HandlerType DEF Handler, TypeOK, Grows
    <3>5. h.seen <= Len(log) =>
            /\ EvidenceOf(m, h.seen)' = EvidenceOf(m, h.seen)
            /\ PlayersVerified(m) => PlayersVerified(m)'
      <4>1. ASSUME NEW n \in Nat, n <= Len(log)
            PROVE  /\ EvidenceOf(m, n)' = EvidenceOf(m, n)
                   /\ PlayersVerified(m) => PlayersVerified(m)'
        BY <1>0, <2>1, <3>1, <3>4, <4>1, EvidenceStable
      <4> QED BY <3>4, <4>1
    <3> QED BY <1>0, <2>4, <3>1, <3>2, <3>3, <3>4, <3>5 DEF HandlerInv
  <2> QED BY <1>0, <1>2, <2>3, <2>4, HandlerType DEF Handler, PC
<1> QED BY <1>1, <1>2

\* A handler between two reports knows nothing of a match.
LEMMA BetweenItemsKnows ==
  ASSUME NEW r \in Request, NEW c \in Credential, NEW d, req'[r] = BetweenItems(c, d)
  PROVE  HandlerInv(r)'
BY DEF HandlerInv, BetweenItems

\* Moving on changes the program counter only.
LEMMA GotoFields ==
  ASSUME TypeOK, NEW r \in Request, NEW pc \in PC, Goto(r, pc)
  PROVE  /\ req'[r].pc = pc /\ req'[r].cred = req[r].cred /\ req'[r].item = req[r].item
         /\ req'[r].doc = req[r].doc /\ req'[r].seen = req[r].seen /\ req'[r].ok = req[r].ok
<1>1. req[r] \in Handler /\ req'[r] = [req[r] EXCEPT !.pc = pc]
  BY HandlerType DEF Goto, Become, TypeOK
<1> QED BY <1>1 DEF Handler

\* An idle handler claims to know nothing.
LEMMA IdleKnows ==
  ASSUME NEW r \in Request, req'[r] = IdleHandler
  PROVE  HandlerInv(r)'
BY DEF HandlerInv, IdleHandler

\* Each step leaves its own handler knowing what the next one relies on.
LEMMA OwnStep ==
  ASSUME IngestInv, TypeOK', Grows, NEW r \in Request, Begin(r) \/ Step(r) \/ End(r)
  PROVE  HandlerInv(r)'
<1> DEFINE h == req[r]
           m == Session(r)
<1>0. TypeOK /\ HandlerInv(r) /\ (h.pc # "idle" => h.cred \in Credential)
  BY DEF IngestInv, HandlerInv
<1>a. \A g : Become(r, g) => req'[r] = g
  BY <1>0 DEF Become, TypeOK
<1>b. h.pc # "idle" /\ NextItem(r) => HandlerInv(r)'
  BY <1>0, <1>a, BetweenItemsKnows DEF NextItem
<1>c. \A k \in Match : contract[k] # NoDoc => \A n \in Nat : n <= Len(log) =>
        /\ EvidenceOf(k, n)' = EvidenceOf(k, n)
        /\ PlayersVerified(k) => PlayersVerified(k)'
  <2> SUFFICES ASSUME NEW k \in Match, contract[k] # NoDoc, NEW n \in Nat, n <= Len(log)
               PROVE  /\ EvidenceOf(k, n)' = EvidenceOf(k, n)
                      /\ PlayersVerified(k) => PlayersVerified(k)'
    OBVIOUS
  <2>1. n \in 0..Len(log)
    BY <1>0 DEF TypeOK
  <2> QED BY <1>0, <2>1, EvidenceStable
<1>d. h.pc \in {"read", "tiers", "games", "write"} =>
        /\ h.item \in Report /\ m \in Match /\ contract[m] # NoDoc
        /\ h.seen \in Nat /\ Len(log) \in Nat
  BY <1>0, ItemKnown, HandlerType, IngestAssumption DEF HandlerInv, Session, Handler, TypeOK
<1>1. CASE Begin(r)
  BY <1>1, <1>a, BetweenItemsKnows DEF Begin
<1>2. CASE Take(r)
  <2>1. PICK body \in Report, d \in Doc \union {NoDoc} :
          /\ d # NoDoc => d.session = body.session
          /\ Become(r, [h EXCEPT !.pc = "resolve", !.item = body, !.doc = d])
    BY <1>2 DEF Take
  <2>2. /\ req'[r].pc = "resolve" /\ req'[r].cred = h.cred /\ req'[r].item = body
        /\ req'[r].doc = d /\ req'[r].ok = h.ok
    BY <1>0, <1>a, <2>1, HandlerType DEF Handler
  <2> QED BY <1>0, <1>2, <2>1, <2>2 DEF Take, At, HandlerInv
<1>3. CASE Resolve(r)
  <2>0. contract' = contract /\ h.pc = "resolve" /\ h.item \in Report /\ h.item.hash \in Doc
    BY <1>0, <1>3, ItemKnown DEF Resolve, At, store
  <2>1. CASE NextItem(r)
    BY <1>b, <2>0, <2>1
  <2>2. CASE Goto(r, "open") /\ h.doc = h.item.hash
    BY <1>0, <2>0, <2>2, GotoFields DEF HandlerInv, PC
  <2>3. CASE Goto(r, "file") /\ contract[m] = h.item.hash
    BY <1>0, <2>0, <2>3, GotoFields DEF HandlerInv, PC, Session
  <2>4. CASE Goto(r, "quarantine") /\ contract[m] # NoDoc
    BY <1>0, <2>0, <2>4, GotoFields DEF HandlerInv, PC, Session
  <2> QED BY <1>3, <2>1, <2>2, <2>3, <2>4 DEF Resolve
<1>4. CASE OpenMatch(r)
  <2>0. h.pc = "open" /\ h.item \in Report /\ m \in Match /\ h.doc = h.item.hash
    BY <1>0, <1>4, ItemKnown DEF OpenMatch, At, HandlerInv
  <2>1. CASE NextItem(r)
    BY <1>b, <2>0, <2>1
  <2>2. CASE Goto(r, "file") /\ contract' = [contract EXCEPT ![m] = h.doc]
    <3>1. contract'[m] = h.item.hash
      BY <1>0, <2>0, <2>2 DEF TypeOK
    <3> QED BY <1>0, <2>0, <2>2, <3>1, GotoFields DEF HandlerInv, PC, Session
  <2> QED BY <1>4, <2>1, <2>2 DEF OpenMatch
<1>5. CASE Quarantine(r)
  BY <1>5, <1>b DEF Quarantine, At
<1>6. CASE File(r)
  <2>0. h.pc = "file" /\ h.item \in Report /\ m \in Match /\ contract'[m] = h.item.hash
        /\ h.cred.account \in Account
    BY <1>0, <1>6, ItemKnown DEF File, At, HandlerInv, Session
  <2>1. CASE NextItem(r)
    BY <1>b, <2>0, <2>1
  <2>2. CASE Goto(r, "receipt") /\ log' = Append(log, [body |-> h.item, by |-> h.cred.account])
    <3>1. ASSUME NEW e \in [body : Report, by : Account], log' = Append(log, e)
          PROVE  Len(log') \in 1..Len(log') /\ log'[Len(log')] = e
      BY <1>0, <3>1 DEF TypeOK
    <3>2. \E i \in 1..Len(log') : log'[i].body = h.item
      BY <2>0, <2>2, <3>1
    <3> QED BY <1>0, <2>0, <2>2, <3>2, GotoFields DEF HandlerInv, PC, Session
  <2> QED BY <1>6, <2>1, <2>2 DEF File
<1>7. CASE AssignReceipt(r)
  <2>0. /\ h.pc = "receipt" /\ h.item \in Report /\ m \in Match
        /\ contract[m] = h.item.hash
    BY <1>0, <1>7, ItemKnown DEF AssignReceipt, At, HandlerInv, Session
  <2>1. matches'[m].receipt # 0
    <3>1. matches[m] \in MatchRow /\ matches \in [Match -> MatchRow] /\ receipts + 1 # 0
      BY <1>0, <2>0 DEF TypeOK
    <3> QED BY <1>7, <2>0, <3>1 DEF AssignReceipt, SetMatch, MatchRow
  <2>2. contract' = contract /\ log' = log /\ Goto(r, "read")
    BY <1>7 DEF AssignReceipt
  <2> QED BY <1>0, <2>0, <2>1, <2>2, GotoFields DEF HandlerInv, PC, Session
<1>8. CASE ReadMatch(r)
  <2>0. h.pc = "read" /\ UNCHANGED store
    BY <1>8 DEF ReadMatch, At
  <2>1. PICK next \in {"write", "tiers", "games"} :
          /\ Become(r, [h EXCEPT !.pc = next, !.seen = Len(log),
                                 !.life = matches[m].lifecycle])
          /\ next # "write" => EvidenceOf(m, Len(log)) = "corroborated"
          /\ next = "tiers" => contract[m].ranked
    BY <1>8 DEF ReadMatch
  <2>2. /\ req'[r].pc = next /\ req'[r].cred = h.cred /\ req'[r].item = h.item
        /\ req'[r].doc = h.doc /\ req'[r].seen = Len(log) /\ req'[r].ok = h.ok
    BY <1>0, <1>a, <2>1, HandlerType DEF Handler
  <2> QED BY <1>0, <1>c, <1>d, <2>0, <2>1, <2>2 DEF HandlerInv, Session, store
<1>9. CASE ReadTiers(r)
  <2>0. h.pc = "tiers" /\ h.item \in Report /\ m \in Match /\ UNCHANGED store
    BY <1>0, <1>9, ItemKnown DEF ReadTiers, At
  <2>1. /\ req'[r].pc = "games" /\ req'[r].cred = h.cred /\ req'[r].item = h.item
        /\ req'[r].doc = h.doc /\ req'[r].seen = h.seen /\ req'[r].ok = PlayersVerified(m)
    BY <1>0, <1>a, <1>9, HandlerType DEF ReadTiers, Handler
  <2> QED BY <1>0, <1>c, <1>d, <2>0, <2>1 DEF HandlerInv, Session, store
<1>10. CASE WriteGames(r)
  <2>0. h.pc = "games" /\ h.item \in Report /\ m \in Match /\ Goto(r, "write")
    BY <1>0, <1>10, ItemKnown DEF WriteGames, At
  <2>1. UNCHANGED <<contract, log, matches>>
    BY <1>10 DEF WriteGames
  <2> QED BY <1>0, <1>c, <1>d, <2>0, <2>1, GotoFields DEF HandlerInv, Session, PC
<1>11. CASE WriteState(r)
  <2>0. h.pc = "write" /\ h.item \in Report /\ m \in Match
    BY <1>0, <1>11, ItemKnown DEF WriteState, At
  <2>1. CASE NextItem(r)
    BY <1>b, <2>0, <2>1
  <2>2. CASE Goto(r, "bump")
    <3>1. UNCHANGED <<contract, log>>
      BY <1>11 DEF WriteState
    <3>2. matches'[m].receipt # 0
      BY <1>0, <2>0 DEF Grows, HandlerInv, Session
    <3> QED BY <1>0, <2>0, <2>2, <3>1, <3>2, <1>c, <1>d, GotoFields DEF HandlerInv, Session, PC
  <2> QED BY <1>11, <2>1, <2>2 DEF WriteState
<1>12. CASE Bump(r)
  BY <1>0, <1>a, <1>12, BetweenItemsKnows DEF Bump, At
<1>13. CASE End(r)
  BY <1>a, <1>13, IdleKnows DEF End
<1> QED BY <1>1, <1>2, <1>3, <1>4, <1>5, <1>6, <1>7, <1>8, <1>9, <1>10, <1>11, <1>12, <1>13
        DEF Step

\* So every handler keeps knowing it.
LEMMA HandlersStep ==
  ASSUME IngestInv, TypeOK', Grows, [Next]_vars
  PROVE  \A r \in Request : HandlerInv(r)'
<1>0. TypeOK
  BY DEF IngestInv
<1>1. ASSUME NEW q \in Request, Begin(q) \/ Step(q) \/ End(q), NEW r \in Request
      PROVE  HandlerInv(r)'
  <2>1. CASE r = q
    BY <1>1, <2>1, OwnStep
  <2>2. CASE r # q
    <3>1. \E g : req' = [req EXCEPT ![q] = g]
      BY <1>1 DEF Begin, Step, End, Take, Resolve, OpenMatch, Quarantine, File,
           AssignReceipt, ReadMatch, ReadTiers, WriteGames, WriteState, Bump,
           NextItem, Goto, Become
    <3>2. req'[r] = req[r]
      BY <1>0, <2>2, <3>1 DEF TypeOK
    <3> QED BY <3>2, HandlerKept
  <2> QED BY <2>1, <2>2
<1>2. ASSUME Exit, NEW r \in Request PROVE HandlerInv(r)'
  BY <1>2, IdleKnows DEF Exit
<1>3. ASSUME req' = req, NEW r \in Request PROVE HandlerInv(r)'
  BY <1>3, HandlerKept
<1> QED BY <1>1, <1>2, <1>3 DEF Next, InsertRaces, GamesRace,
      Crash, Register, Witness, vars

\* A rating is set by WriteState, reset with a new row, or left alone.
LEMMA RatingSource ==
  ASSUME IngestInv, [Next]_vars, NEW m \in Match
  PROVE  \/ matches'[m].rating = matches[m].rating
         \/ matches'[m].rating = "ineligible"
         \/ \E r \in Request :
              /\ WriteState(r) /\ Session(r) = m
              /\ matches'[m].rating = RatingOf(EvidenceOf(m, req[r].seen), req[r].ok)
<1> DEFINE Goal ==
      \/ matches'[m].rating = matches[m].rating
      \/ matches'[m].rating = "ineligible"
      \/ \E r \in Request :
           /\ WriteState(r) /\ Session(r) = m
           /\ matches'[m].rating = RatingOf(EvidenceOf(m, req[r].seen), req[r].ok)
<1>0. matches \in [Match -> MatchRow] /\ matches[m] \in MatchRow
  BY DEF IngestInv, TypeOK
<1>1. ASSUME NEW k, NEW row, SetMatch(k, row), k # m PROVE matches'[m] = matches[m]
  BY <1>0, <1>1 DEF SetMatch
<1>2. ASSUME NEW row, SetMatch(m, row) PROVE matches'[m] = row
  BY <1>0, <1>2 DEF SetMatch
<1>3. ASSUME NEW r \in Request, OpenMatch(r) PROVE Goal
  BY <1>1, <1>2, <1>3 DEF OpenMatch, store, NewMatchRow
<1>4. ASSUME NEW r \in Request, Quarantine(r) PROVE Goal
  <2>1. [matches[m] EXCEPT !.evidence = "disputed"].rating = matches[m].rating
    BY <1>0 DEF MatchRow
  <2> QED BY <1>1, <1>2, <1>4, <2>1 DEF Quarantine
<1>5. ASSUME NEW r \in Request, AssignReceipt(r) PROVE Goal
  <2>1. [matches[m] EXCEPT !.receipt = receipts + 1].rating = matches[m].rating
    BY <1>0 DEF MatchRow
  <2> QED BY <1>1, <1>2, <1>5, <2>1 DEF AssignReceipt
<1>6. ASSUME NEW r \in Request, WriteState(r) PROVE Goal
  <2>1. \A e, a, l :
          [matches[m] EXCEPT !.evidence = e, !.rating = a, !.lifecycle = l].rating = a
    BY <1>0 DEF MatchRow
  <2>2. CASE Session(r) # m
    BY <1>1, <1>6, <2>2 DEF WriteState
  <2>3. CASE Session(r) = m
    <3>1. PICK l : SetMatch(m, [matches[m] EXCEPT
                      !.evidence = EvidenceOf(m, req[r].seen),
                      !.rating = RatingOf(EvidenceOf(m, req[r].seen), req[r].ok),
                      !.lifecycle = l])
      BY <1>6, <2>3 DEF WriteState
    <3>2. matches'[m].rating = RatingOf(EvidenceOf(m, req[r].seen), req[r].ok)
      <4> DEFINE e == EvidenceOf(m, req[r].seen)
                 a == RatingOf(e, req[r].ok)
      <4>1. SetMatch(m, [matches[m] EXCEPT !.evidence = e, !.rating = a, !.lifecycle = l])
        BY <3>1
      <4> HIDE DEF e, a
      <4>2. matches'[m] = [matches[m] EXCEPT !.evidence = e, !.rating = a, !.lifecycle = l]
        BY <1>0, <4>1 DEF SetMatch
      <4>3. matches'[m].rating = a
        BY <2>1, <4>2
      <4> QED BY <4>3 DEF a, e
    <3> QED BY <1>6, <2>3, <3>2
  <2> QED BY <2>2, <2>3
<1>7. matches' = matches => Goal
  OBVIOUS
<1> HIDE DEF Goal
<1>8. Goal
  BY <1>3, <1>4, <1>5, <1>6, <1>7 DEF Next, Step, vars, store, Begin, Take, Resolve, File,
     ReadMatch, ReadTiers, WriteGames, Bump, End, InsertRaces, GamesRace,
     Exit, Crash, Register, Witness
<1> QED BY <1>8 DEF Goal

\* What a handler about to write found is true of the whole log.
LEMMA ReadStillTrue ==
  ASSUME IngestInv, NEW r \in Request, req[r].pc \in {"games", "write"}
  PROVE  LET m == Session(r)
             n == req[r].seen
         IN /\ m \in Match /\ contract[m] \in Doc /\ contract[m] # NoDoc
            /\ n \in Nat /\ Len(log) \in Nat /\ n <= Len(log)
            /\ EvidenceOf(m, n) = "corroborated" =>
                 Agreed(m, n) /\ Agreed(m, Len(log)) /\ ~Contested(m, Len(log))
            /\ EvidenceOf(m, n) = "disputed" => Contested(m, Len(log))
            /\ req[r].ok => /\ EvidenceOf(m, n) = "corroborated"
                            /\ Supported(m)
<1> DEFINE m == Session(r)
           n == req[r].seen
<1>1. TypeOK /\ HandlerInv(r)
  BY DEF IngestInv
<1>2. /\ m \in Match /\ contract[m] = req[r].item.hash /\ contract[m] \in Doc
      /\ n <= Len(log) /\ matches[m].receipt # 0
  BY <1>1, ItemKnown DEF HandlerInv, Session
<1>3. contract[m] # NoDoc /\ n \in Nat /\ Len(log) \in Nat
  BY <1>1, <1>2, HandlerType, IngestAssumption DEF Handler, TypeOK
<1>4. EvidenceOf(m, n) = "corroborated" =>
        Agreed(m, n) /\ Agreed(m, Len(log)) /\ ~Contested(m, Len(log))
  BY <1>2, <1>3, EvidenceMeans, AgreementGrows, Exclusive
<1>5. EvidenceOf(m, n) = "disputed" => Contested(m, Len(log))
  BY <1>2, <1>3, EvidenceMeans, AgreementGrows
<1>6. req[r].ok => EvidenceOf(m, n) = "corroborated" /\ contract[m].ranked /\ PlayersVerified(m)
  BY <1>1 DEF HandlerInv, Session
<1> QED BY <1>2, <1>3, <1>4, <1>5, <1>6 DEF Supported

\* Every step keeps the verdicts backed by the reports.
LEMMA VerdictStep ==
  ASSUME IngestInv, TypeOK', Grows, [Next]_vars
  PROVE  RatedOnlyWhenAgreed' /\ HeldOnlyWhenContested'
<1> SUFFICES ASSUME NEW m \in Match
             PROVE  /\ matches'[m].rating \in {"pending", "applied"} => Supported(m)'
                    /\ matches'[m].rating = "held" => Conflicted(m)'
  BY DEF RatedOnlyWhenAgreed, HeldOnlyWhenContested
<1>1. CASE matches'[m].rating = matches[m].rating
  BY <1>1, BackingKept DEF IngestInv, RatedOnlyWhenAgreed, HeldOnlyWhenContested
<1>2. CASE matches'[m].rating = "ineligible"
  BY <1>2
<1>3. ASSUME NEW r \in Request, WriteState(r), Session(r) = m,
             matches'[m].rating = RatingOf(EvidenceOf(m, req[r].seen), req[r].ok)
      PROVE  /\ matches'[m].rating \in {"pending", "applied"} => Supported(m)'
             /\ matches'[m].rating = "held" => Conflicted(m)'
  <2>1. req[r].pc = "write"
    BY <1>3 DEF WriteState, At
  <2>2. matches'[m].rating \in {"pending", "applied"} => req[r].ok
    BY <1>3 DEF RatingOf
  <2>3. matches'[m].rating = "held" => EvidenceOf(m, req[r].seen) = "disputed"
    BY <1>3 DEF RatingOf
  <2>4. matches'[m].rating \in {"pending", "applied"} => Supported(m)
    BY <1>3, <2>1, <2>2, ReadStillTrue
  <2>5. matches'[m].rating = "held" => Conflicted(m)
    BY <1>3, <2>1, <2>3, ReadStillTrue DEF Conflicted
  <2> QED BY <2>4, <2>5, BackingKept
<1> QED BY <1>1, <1>2, <1>3, RatingSource

\* Every step keeps the materialised games backed by the reports.
LEMMA GamesStep ==
  ASSUME IngestInv, TypeOK', Grows, [Next]_vars
  PROVE  GamesAreAgreed'
<1> SUFFICES ASSUME NEW m \in Match, NEW w, w = games'[m], w # NoClaim
             PROVE  AgreedOn(m, w)'
  BY DEF GamesAreAgreed
<1>0. games \in [Match -> Claim \union {NoClaim}]
  BY DEF IngestInv, TypeOK
<1>1. CASE games'[m] = games[m]
  BY <1>1, BackingKept DEF IngestInv, GamesAreAgreed
<1>2. ASSUME NEW r \in Request, WriteGames(r), Session(r) = m
      PROVE  AgreedOn(m, w)'
  <2> DEFINE n == req[r].seen
  <2>1. req[r].pc = "games" /\ HandlerInv(r)
    BY <1>2 DEF WriteGames, At, IngestInv
  <2>2. /\ contract[m] \in Doc /\ contract[m] # NoDoc
        /\ n \in Nat /\ Len(log) \in Nat /\ n <= Len(log)
        /\ Agreed(m, n) /\ Agreed(m, Len(log))
    <3>1. EvidenceOf(m, n) = "corroborated"
      BY <1>2, <2>1 DEF HandlerInv, Session
    <3> QED BY <1>2, <2>1, <3>1, ReadStillTrue
  <2>3. w = log[Earliest(m, n)].body.claim
    BY <1>0, <1>2 DEF WriteGames
  <2>4. \A i \in FirstOfAccount(m, n) : log[i].body.claim = w
    BY <2>2, <2>3, EarliestIsClaimed
  <2>5. FirstOfAccount(m, Len(log)) = FirstOfAccount(m, n)
    BY <2>2, FirstsFixed
  <2>6. AgreedOn(m, w)
    BY <2>2, <2>4, <2>5 DEF AgreedOn
  <2> QED BY <2>6, BackingKept
<1>3. games'[m] = games[m] \/ \E r \in Request : WriteGames(r) /\ Session(r) = m
  <2>1. ASSUME NEW r \in Request, WriteGames(r), Session(r) # m PROVE games'[m] = games[m]
    BY <1>0, <2>1 DEF WriteGames
  <2> QED BY <2>1 DEF Next, Step, vars, store, Begin, Take, Resolve, OpenMatch, Quarantine,
       File, AssignReceipt, ReadMatch, ReadTiers, WriteState, Bump, End, InsertRaces, GamesRace,
       Exit,
       Crash, Register, Witness
<1> QED BY <1>1, <1>2, <1>3

\* Every step keeps receipts distinct and below the sequence.
LEMMA ReceiptStep ==
  ASSUME IngestInv, [Next]_vars
  PROVE  (ReceiptsUnique /\ \A m \in Match : matches[m].receipt <= receipts)'
<1> DEFINE Goal == (ReceiptsUnique /\ \A m \in Match : matches[m].receipt <= receipts)'
<1>0. /\ matches \in [Match -> MatchRow] /\ receipts \in Nat
      /\ \A m \in Match : matches[m].receipt \in Nat /\ matches[m].receipt <= receipts
      /\ ReceiptsUnique
  BY DEF IngestInv, TypeOK, MatchRow
<1>1. ASSUME \A m \in Match : matches'[m].receipt \in {0, matches[m].receipt},
             receipts' = receipts
      PROVE  Goal
  BY <1>0, <1>1 DEF ReceiptsUnique
<1>2. ASSUME NEW r \in Request, OpenMatch(r) PROVE Goal
  <2>1. \A m \in Match : matches'[m].receipt \in {0, matches[m].receipt}
    BY <1>0, <1>2 DEF OpenMatch, SetMatch, NewMatchRow, store
  <2> QED BY <1>1, <1>2, <2>1 DEF OpenMatch, store
<1>3. ASSUME NEW r \in Request, Quarantine(r) PROVE Goal
  <2>1. \A m \in Match : matches'[m].receipt = matches[m].receipt
    BY <1>0, <1>3 DEF Quarantine, SetMatch, MatchRow
  <2> QED BY <1>1, <1>3, <2>1 DEF Quarantine
<1>4. ASSUME NEW r \in Request, WriteState(r) PROVE Goal
  <2>1. \A m \in Match : \A e, a, l :
          [matches[m] EXCEPT !.evidence = e, !.rating = a, !.lifecycle = l].receipt
            = matches[m].receipt
    BY <1>0 DEF MatchRow
  <2>2. \A m \in Match : matches'[m].receipt = matches[m].receipt
    BY <1>0, <1>4, <2>1 DEF WriteState, SetMatch
  <2> QED BY <1>1, <1>4, <2>2 DEF WriteState
<1>5. ASSUME NEW r \in Request, AssignReceipt(r) PROVE Goal
  <2>1. CASE UNCHANGED <<receipts, matches>>
    BY <1>1, <2>1
  <2>2. CASE receipts' = receipts + 1 /\
             SetMatch(Session(r), [matches[Session(r)] EXCEPT !.receipt = receipts + 1])
    <3>1. \A m \in Match : matches'[m].receipt =
            IF m = Session(r) THEN receipts + 1 ELSE matches[m].receipt
      BY <1>0, <2>2 DEF SetMatch, MatchRow
    <3> QED BY <1>0, <2>2, <3>1 DEF ReceiptsUnique
  <2> QED BY <1>5, <2>1, <2>2 DEF AssignReceipt
<1>6. ASSUME matches' = matches, receipts' = receipts PROVE Goal
  BY <1>1, <1>6
<1> HIDE DEF Goal
<1>7. Goal
  BY <1>2, <1>3, <1>4, <1>5, <1>6 DEF Next, Step, vars, store, Begin, Take, Resolve, File,
     ReadMatch, ReadTiers, WriteGames, Bump, End, InsertRaces, GamesRace,
     Exit, Crash, Register, Witness
<1> QED BY <1>7 DEF Goal

\* A report is filed only under a nonce no filed report has used.
LEMMA FilingStep ==
  ASSUME IngestInv, [Next]_vars
  PROVE  OneRowPerNonce'
<1>0. TypeOK /\ OneRowPerNonce /\ \A r \in Request : HandlerInv(r)
  BY DEF IngestInv
<1>1. ASSUME NEW r \in Request, File(r) PROVE OneRowPerNonce'
  <2>1. CASE log' = log
    BY <1>0, <2>1 DEF OneRowPerNonce
  <2>2. CASE /\ SameKey(r) = {}
             /\ log' = Append(log, [body |-> req[r].item, by |-> req[r].cred.account])
    <3> DEFINE e == [body |-> req[r].item, by |-> req[r].cred.account]
    <3>1. e \in [body : Report, by : Account]
      BY <1>0, <1>1, ItemKnown DEF File, At
    <3>2. \A f \in [body : Report, by : Account] : log' = Append(log, f) =>
            /\ Len(log) \in Nat /\ Len(log') = Len(log) + 1 /\ log'[Len(log) + 1] = f
            /\ \A i \in 1..Len(log) : log'[i] = log[i]
      BY <1>0 DEF TypeOK
    <3>3. /\ Len(log) \in Nat /\ Len(log') = Len(log) + 1 /\ log'[Len(log) + 1] = e
          /\ \A i \in 1..Len(log) : log'[i] = log[i]
      BY <2>2, <3>1, <3>2
    <3>4. \A i \in 1..Len(log) :
            ~(/\ log[i].by = e.by /\ log[i].body.inst = e.body.inst
              /\ log[i].body.nonce = e.body.nonce)
      BY <2>2 DEF SameKey
    <3> HIDE DEF e
    <3> QED BY <1>0, <3>3, <3>4 DEF OneRowPerNonce
  <2> QED BY <1>1, <2>1, <2>2 DEF File
<1>2. log' = log => OneRowPerNonce'
  BY <1>0 DEF OneRowPerNonce
<1> QED BY <1>1, <1>2 DEF Next, Step, vars, store, Begin, Take, Resolve, OpenMatch, Quarantine,
     AssignReceipt, ReadMatch, ReadTiers, WriteGames, WriteState, Bump, End, InsertRaces, GamesRace,
     Exit,
     Crash, Register, Witness

\* A match row is written only for a session that has its contract.
LEMMA BindingStep ==
  ASSUME IngestInv, [Next]_vars
  PROVE  (UnboundIsNew /\ \A m \in Match : contract[m] # NoDoc => contract[m].session = m)'
<1> DEFINE Bound(m) == /\ contract'[m] = NoDoc => matches'[m] = NewMatchRow
                       /\ contract'[m] # NoDoc => contract'[m].session = m
<1> SUFFICES ASSUME NEW m \in Match PROVE Bound(m)
  BY DEF UnboundIsNew
<1>0. /\ TypeOK
      /\ contract[m] = NoDoc => matches[m] = NewMatchRow
      /\ contract[m] # NoDoc => contract[m].session = m
      /\ \A r \in Request : HandlerInv(r)
  BY DEF IngestInv, UnboundIsNew
<1>1. ASSUME contract' = contract, matches'[m] = matches[m] PROVE Bound(m)
  BY <1>0, <1>1
<1>2. ASSUME NEW r \in Request, NEW row, SetMatch(Session(r), row), contract' = contract,
             contract[Session(r)] # NoDoc
      PROVE  Bound(m)
  BY <1>0, <1>2 DEF SetMatch, TypeOK
<1>3. ASSUME NEW r \in Request, OpenMatch(r) PROVE Bound(m)
  <2>1. req[r].doc \in Doc \union {NoDoc} /\ (req[r].doc # NoDoc => req[r].doc.session = Session(r))
        /\ req[r].doc # NoDoc
    <3>1. req[r].pc = "open"
      BY <1>3 DEF OpenMatch, At
    <3> QED BY <1>0, <3>1, ItemKnown, HandlerType, IngestAssumption DEF HandlerInv, Handler, Session
  <2> QED BY <1>0, <1>3, <2>1 DEF OpenMatch, SetMatch, TypeOK, store
<1>4. ASSUME NEW r \in Request, Quarantine(r) \/ AssignReceipt(r) \/ WriteState(r)
      PROVE  Bound(m)
  <2>1. contract[Session(r)] # NoDoc
    BY <1>0, <1>4, ItemKnown, IngestAssumption
       DEF Quarantine, AssignReceipt, WriteState, At, HandlerInv, Session
  <2>2. contract' = contract
    BY <1>4 DEF Quarantine, AssignReceipt, WriteState
  <2>3. matches' = matches \/ \E row : SetMatch(Session(r), row)
    BY <1>4 DEF Quarantine, AssignReceipt, WriteState
  <2> HIDE DEF Bound
  <2> QED BY <1>1, <1>2, <2>1, <2>2, <2>3
<1> HIDE DEF Bound
<1>5. matches' = matches /\ contract' = contract => Bound(m)
  BY <1>1
<1> QED BY <1>3, <1>4, <1>5 DEF Next, Step, vars, store, Begin, Take, Resolve, File,
     ReadMatch, ReadTiers, WriteGames, Bump, End, InsertRaces, GamesRace,
     Exit, Crash, Register, Witness

\* The invariant holds of an empty database and idle handlers.
LEMMA InvariantInit == Init => IngestInv
<1> SUFFICES ASSUME Init PROVE IngestInv
  OBVIOUS
<1>1. NewMatchRow \in MatchRow
  BY DEF NewMatchRow, MatchRow, Lifecycle, Evidence, Rating
<1>2. TypeOK
  <2>1. log \in Seq([body : Report, by : Account])
    BY DEF Init
  <2>2. req \in [Request -> Handler] /\ matches \in [Match -> MatchRow]
    BY <1>1, IdleHandlerType DEF Init
  <2>3. timer \in BOOLEAN
    BY DEF Init
  <2> QED BY <2>1, <2>2, <2>3, IngestAssumption DEF Init, TypeOK
<1>3. \A r \in Request : HandlerInv(r)
  BY DEF Init, HandlerInv, IdleHandler
<1>4. UnboundIsNew /\ \A m \in Match : contract[m] # NoDoc => contract[m].session = m
  BY DEF Init, UnboundIsNew
<1>5. ReceiptsUnique /\ \A m \in Match : matches[m].receipt <= receipts
  BY DEF Init, ReceiptsUnique, NewMatchRow
<1>6. OneRowPerNonce
  BY DEF Init, OneRowPerNonce
<1>7. RatedOnlyWhenAgreed /\ HeldOnlyWhenContested /\ GamesAreAgreed
  BY DEF Init, RatedOnlyWhenAgreed, HeldOnlyWhenContested, GamesAreAgreed, NewMatchRow
<1> QED BY <1>2, <1>3, <1>4, <1>5, <1>6, <1>7 DEF IngestInv

\* Every step of every handler, crashes included, keeps the invariant.
LEMMA InvariantStep == IngestInv /\ [Next]_vars => IngestInv'
<1> SUFFICES ASSUME IngestInv, [Next]_vars PROVE IngestInv'
  OBVIOUS
<1>1. TypeOK' /\ Grows
  BY TypeStep, GrowsStep
<1>2. \A r \in Request : HandlerInv(r)'
  BY <1>1, HandlersStep
<1>3. (UnboundIsNew /\ \A m \in Match : contract[m] # NoDoc => contract[m].session = m)'
  BY BindingStep
<1>4. (ReceiptsUnique /\ \A m \in Match : matches[m].receipt <= receipts)'
  BY ReceiptStep
<1>5. OneRowPerNonce'
  BY FilingStep
<1>6. RatedOnlyWhenAgreed' /\ HeldOnlyWhenContested' /\ GamesAreAgreed'
  BY <1>1, VerdictStep, GamesStep
<1> QED BY <1>1, <1>2, <1>3, <1>4, <1>5, <1>6 DEF IngestInv

-----------------------------------------------------------------------------
(***************************************************************************)
(* Theorems.                                                               *)
(***************************************************************************)

\* The invariant of ingestion holds for every number of concurrent handlers,
\* sessions, contracts and reports, with crashes at any step.
THEOREM IngestInvariant == Spec => []IngestInv
BY InvariantInit, InvariantStep, PTL DEF Spec

\* Tables and handlers keep their types.
THEOREM TypeCorrect == Spec => []TypeOK
<1>1. IngestInv => TypeOK
  BY DEF IngestInv
<1> QED BY <1>1, IngestInvariant, PTL

\* Every match that counts rests on the agreeing first reports of two different
\* participant accounts of a ranked contract between verified players.
THEOREM NoOneSidedRating == Spec => []RatedOnlyWhenAgreed
<1>1. IngestInv => RatedOnlyWhenAgreed
  BY DEF IngestInv
<1> QED BY <1>1, IngestInvariant, PTL

\* Every held match rests on the conflicting first reports of its participants.
THEOREM NoUnfoundedHold == Spec => []HeldOnlyWhenContested
<1>1. IngestInv => HeldOnlyWhenContested
  BY DEF IngestInv
<1> QED BY <1>1, IngestInvariant, PTL

\* Materialised games are what both participants claimed.
THEOREM GamesFollowEvidence == Spec => []GamesAreAgreed
<1>1. IngestInv => GamesAreAgreed
  BY DEF IngestInv
<1> QED BY <1>1, IngestInvariant, PTL

\* However often it is sent, a report is on file once.
THEOREM ReportsCountOnce == Spec => []OneRowPerNonce
<1>1. IngestInv => OneRowPerNonce
  BY DEF IngestInv
<1> QED BY <1>1, IngestInvariant, PTL

\* No two matches have the same place in the replay order.
THEOREM ReceiptsDistinct == Spec => []ReceiptsUnique
<1>1. IngestInv => ReceiptsUnique
  BY DEF IngestInv
<1> QED BY <1>1, IngestInvariant, PTL

\* A match never changes its place in the replay order.
THEOREM ReceiptsPermanent == Spec => ReceiptImmutable
<1>1. IngestInv /\ [Next]_vars =>
        [\A m \in Match : matches[m].receipt # 0 => matches'[m].receipt = matches[m].receipt]_vars
  BY GrowsStep DEF Grows
<1> QED BY <1>1, IngestInvariant, PTL DEF Spec, ReceiptImmutable

\* A counting match is never held afterwards, and a held one never counts.
THEOREM VerdictsPermanent == Spec => VerdictNeverFlips
<1> DEFINE NoFlip == \A m \in Match :
       /\ matches[m].rating \in {"pending", "applied"} => matches'[m].rating # "held"
       /\ matches[m].rating = "held" => matches'[m].rating \notin {"pending", "applied"}
<1>1. ASSUME IngestInv, [Next]_vars PROVE NoFlip
  <2>1. TypeOK' /\ Grows /\ IngestInv'
    BY <1>1, TypeStep, GrowsStep, InvariantStep
  <2>2. RatedOnlyWhenAgreed' /\ HeldOnlyWhenContested' /\ RatedOnlyWhenAgreed /\ HeldOnlyWhenContested
    BY <1>1, <2>1 DEF IngestInv
  <2>3. ASSUME NEW m \in Match PROVE ~(Supported(m)' /\ Conflicted(m)')
    BY DEF Supported, Conflicted
  <2>4. ASSUME NEW m \in Match
        PROVE  /\ matches[m].rating \in {"pending", "applied"} => matches'[m].rating # "held"
               /\ matches[m].rating = "held" => matches'[m].rating \notin {"pending", "applied"}
    <3>1. matches[m].rating \in {"pending", "applied"} => Supported(m)'
      BY <1>1, <2>1, <2>2, BackingKept DEF RatedOnlyWhenAgreed
    <3>2. matches[m].rating = "held" => Conflicted(m)'
      BY <1>1, <2>1, <2>2, BackingKept DEF HeldOnlyWhenContested
    <3>3. matches'[m].rating = "held" => Conflicted(m)'
      BY <2>2 DEF HeldOnlyWhenContested
    <3>4. matches'[m].rating \in {"pending", "applied"} => Supported(m)'
      BY <2>2 DEF RatedOnlyWhenAgreed
    <3> QED BY <2>3, <3>1, <3>2, <3>3, <3>4
  <2> QED BY <2>4
<1>2. IngestInv /\ [Next]_vars => [NoFlip]_vars
  BY <1>1
<1> QED BY <1>2, IngestInvariant, PTL DEF Spec, VerdictNeverFlips

-----------------------------------------------------------------------------
(***************************************************************************)
(* One handler at a time forgets no agreement.  (With two it may be lost:  *)
(* the run ingest_lost_race.)                                              *)
(***************************************************************************)

\* What the reports of a match amount to does not change with other matches.
LEMMA AgreedSame ==
  ASSUME NEW m \in Match, contract'[m] = contract[m],
         FiledFor(m, Len(log))' = FiledFor(m, Len(log)),
         \A i \in FiledFor(m, Len(log)) : log'[i] = log[i]
  PROVE  Agreed(m, Len(log))' <=> Agreed(m, Len(log))
<1>1. ParticipantAccounts(m)' = ParticipantAccounts(m)
  BY DEF ParticipantAccounts
<1>2. Independent(m, Len(log))' = Independent(m, Len(log))
      /\ Independent(m, Len(log)) \subseteq FiledFor(m, Len(log))
  BY <1>1 DEF Independent
<1>3. FirstOfAccount(m, Len(log))' = FirstOfAccount(m, Len(log))
      /\ FirstOfAccount(m, Len(log)) \subseteq FiledFor(m, Len(log))
  BY <1>2 DEF FirstOfAccount
<1> QED BY <1>3 DEF Agreed

\* A filed report is about its own match only.
LEMMA FiledApart ==
  ASSUME TypeOK, NEW e \in [body : Report, by : Account], log' = Append(log, e),
         NEW m \in Match, e.body.session # m
  PROVE  /\ FiledFor(m, Len(log))' = FiledFor(m, Len(log))
         /\ \A i \in FiledFor(m, Len(log)) : log'[i] = log[i]
<1>1. log \in Seq([body : Report, by : Account])
  BY DEF TypeOK
<1>2. /\ Len(log') = Len(log) + 1 /\ log'[Len(log) + 1] = e /\ Len(log) \in Nat
      /\ \A i \in 1..Len(log) : log'[i] = log[i]
  BY <1>1
<1>3. \A i \in 1..(Len(log) + 1) : i \in 1..Len(log) \/ i = Len(log) + 1
  BY <1>2
<1> QED BY <1>2, <1>3 DEF FiledFor

\* Only one handler may be unfinished.
LEMMA OnlyOne ==
  ASSUME OneAtATime, NEW r \in Request
  PROVE  /\ \A m : Unfinished(m) <=>
              Session(r) = m /\ req[r].pc \in {"receipt", "read", "tiers", "games", "write"}
         /\ \A m : Unfinished(m)' <=>
              Session(r)' = m /\ req'[r].pc \in {"receipt", "read", "tiers", "games", "write"}
         /\ \A q \in Request : q = r
<1>1. \A q \in Request : q = r
  BY DEF OneAtATime
<1> QED BY <1>1 DEF Unfinished

\* A step that writes no verdict and files nothing leaves agreement on record.
LEMMA RecordKept ==
  ASSUME TypeOK, SettledInv, log' = log, contract' = contract, NEW m \in Match,
         matches'[m].evidence = matches[m].evidence, Unfinished(m) => Unfinished(m)'
  PROVE  OnRecord(m)'
<1>1. FiledFor(m, Len(log))' = FiledFor(m, Len(log))
  BY DEF FiledFor
<1>2. Agreed(m, Len(log))' <=> Agreed(m, Len(log))
  BY <1>1, AgreedSame
<1> QED BY <1>2 DEF SettledInv, OnRecord

\* Reports stay on bound sessions.
LEMMA BoundKept ==
  ASSUME IngestInv, Grows, SettledInv, [Next]_vars
  PROVE  FiledOnBound'
<1>0. TypeOK /\ FiledOnBound /\ \A r \in Request : HandlerInv(r)
  BY DEF IngestInv, SettledInv
<1>1. \A i \in 1..Len(log) : log[i].body.session \in Match
  BY <1>0, LogEntry, IngestAssumption DEF ReportBody
<1>2. \A i \in 1..Len(log) : log'[i] = log[i] /\ contract'[log'[i].body.session] # NoDoc
  <2> SUFFICES ASSUME NEW i \in 1..Len(log)
               PROVE  log'[i] = log[i] /\ contract'[log'[i].body.session] # NoDoc
    OBVIOUS
  <2>1. log'[i] = log[i]
    BY DEF Grows
  <2>2. contract[log[i].body.session] # NoDoc
    BY <1>0 DEF FiledOnBound
  <2>3. contract'[log[i].body.session] # NoDoc
    BY <1>1, <2>2 DEF Grows
  <2> QED BY <2>1, <2>3
<1>3. CASE log' = log
  BY <1>2, <1>3 DEF FiledOnBound
<1>4. ASSUME NEW r \in Request, File(r), log' # log
      PROVE  FiledOnBound'
  <2>1. PICK e : e = [body |-> req[r].item, by |-> req[r].cred.account]
    OBVIOUS
  <2>2. log' = Append(log, e) /\ req[r].pc = "file" /\ contract' = contract
    BY <1>4, <2>1 DEF File, At
  <2>3. e \in [body : Report, by : Account] /\ e.body.session = Session(r)
    BY <1>0, <2>1, <2>2, ItemKnown DEF Session
  <2>4. contract[Session(r)] # NoDoc
    BY <1>0, <2>2, ItemKnown, IngestAssumption DEF HandlerInv, Session
  <2>5. Len(log') = Len(log) + 1 /\ log'[Len(log) + 1] = e /\ Len(log) \in Nat
    BY <1>0, <2>2, <2>3 DEF TypeOK
  <2>6. \A i \in 1..Len(log') : i \in 1..Len(log) \/ i = Len(log) + 1
    BY <2>5
  <2> QED BY <1>2, <2>2, <2>3, <2>4, <2>5, <2>6 DEF FiledOnBound
<1>5. log' = log \/ \E r \in Request : File(r)
  BY DEF Next, Step, vars, store, Begin, Take, Resolve, OpenMatch, Quarantine,
     AssignReceipt, ReadMatch, ReadTiers, WriteGames, WriteState, Bump, End,
     InsertRaces, GamesRace, Exit, Crash, Register, Witness
<1> QED BY <1>3, <1>4, <1>5

\* A handler between two reports, or idle, has read nothing.
LEMMA NothingRead ==
  ASSUME TypeOK, NEW r \in Request, NextItem(r)
  PROVE  Current(r)' /\ req'[r].pc = "next"
<1>1. req'[r] = BetweenItems(req[r].cred, req[r].dirty)
  BY DEF NextItem, Become, TypeOK
<1> QED BY <1>1 DEF Current, At, BetweenItems

\* Each step leaves its own handler with what is still so.
LEMMA CurrentKept ==
  ASSUME OneAtATime, IngestInv, SettledInv, NEW r \in Request, Begin(r) \/ Step(r) \/ End(r)
  PROVE  Current(r)'
<1>0. TypeOK /\ Current(r) /\ req[r] \in Handler
  BY HandlerType DEF IngestInv, SettledInv
<1>a. \A g : Become(r, g) => req'[r] = g
  BY <1>0 DEF Become, TypeOK
<1>1. CASE Begin(r)
  BY <1>1, <1>a DEF Begin, BetweenItems, Current, At
<1>2. CASE Take(r)
  <2>1. req'[r].pc = "resolve"
    BY <1>0, <1>a, <1>2 DEF Take, Handler
  <2> QED BY <2>1 DEF Current, At
<1>3. CASE Resolve(r)
  <2>1. CASE NextItem(r)
    BY <1>0, <2>1, NothingRead
  <2>2. CASE Goto(r, "open") /\ contract[Session(r)] = NoDoc
    <3>1. req'[r].pc = "open" /\ req'[r].item = req[r].item /\ contract' = contract
      BY <1>0, <1>3, <2>2, GotoFields DEF PC, Resolve, store
    <3> QED BY <2>2, <3>1 DEF Current, At, Session
  <2>3. CASE Goto(r, "file") \/ Goto(r, "quarantine")
    <3>1. req'[r].pc \in {"file", "quarantine"}
      BY <1>0, <2>3, GotoFields DEF PC
    <3> QED BY <3>1 DEF Current, At
  <2> QED BY <1>3, <2>1, <2>2, <2>3 DEF Resolve
<1>4. CASE OpenMatch(r)
  <2>1. CASE NextItem(r)
    BY <1>0, <2>1, NothingRead
  <2>2. CASE Goto(r, "file")
    <3>1. req'[r].pc = "file"
      BY <1>0, <2>2, GotoFields DEF PC
    <3> QED BY <3>1 DEF Current, At
  <2> QED BY <1>4, <2>1, <2>2 DEF OpenMatch
<1>5. CASE Quarantine(r)
  BY <1>0, <1>5, NothingRead DEF Quarantine
<1>6. CASE File(r)
  <2>1. CASE NextItem(r)
    BY <1>0, <2>1, NothingRead
  <2>2. CASE Goto(r, "receipt")
    <3>1. req'[r].pc = "receipt"
      BY <1>0, <2>2, GotoFields DEF PC
    <3> QED BY <3>1 DEF Current, At
  <2> QED BY <1>6, <2>1, <2>2 DEF File
<1>7. CASE AssignReceipt(r)
  <2>1. req'[r].pc = "read"
    BY <1>0, <1>7, GotoFields DEF PC, AssignReceipt
  <2> QED BY <2>1 DEF Current, At
<1>8. CASE ReadMatch(r)
  <2>1. req'[r].seen = Len(log) /\ req'[r].pc \in {"write", "tiers", "games"} /\ log' = log
    BY <1>0, <1>a, <1>8 DEF ReadMatch, Handler, store
  <2> QED BY <2>1 DEF Current, At
<1>9. CASE ReadTiers(r)
  <2>1. req[r].pc = "tiers" /\ req'[r].seen = req[r].seen /\ req'[r].pc = "games" /\ log' = log
    BY <1>0, <1>a, <1>9 DEF ReadTiers, At, Handler, store
  <2> QED BY <1>0, <2>1 DEF Current, At
<1>10. CASE WriteGames(r)
  <2>1. req[r].pc = "games" /\ req'[r].seen = req[r].seen /\ req'[r].pc = "write" /\ log' = log
    BY <1>0, <1>10, GotoFields DEF WriteGames, At, PC
  <2> QED BY <1>0, <2>1 DEF Current, At
<1>11. CASE WriteState(r)
  <2>1. CASE NextItem(r)
    BY <1>0, <2>1, NothingRead
  <2>2. CASE Goto(r, "bump")
    <3>1. req'[r].pc = "bump"
      BY <1>0, <2>2, GotoFields DEF PC
    <3> QED BY <3>1 DEF Current, At
  <2> QED BY <1>11, <2>1, <2>2 DEF WriteState
<1>12. CASE Bump(r)
  BY <1>a, <1>12 DEF Bump, BetweenItems, Current, At
<1>13. CASE End(r)
  BY <1>a, <1>13 DEF End, IdleHandler, Current, At
<1> QED BY <1>1, <1>2, <1>3, <1>4, <1>5, <1>6, <1>7, <1>8, <1>9, <1>10, <1>11, <1>12, <1>13
        DEF Step

\* Each step of the handler leaves every agreement on record, or its own to come.
LEMMA RecordStep ==
  ASSUME OneAtATime, IngestInv, SettledInv, NEW r \in Request, Begin(r) \/ Step(r) \/ End(r),
         NEW m \in Match
  PROVE  OnRecord(m)'
<1>0. TypeOK /\ Current(r) /\ req[r] \in Handler /\ FiledOnBound /\ HandlerInv(r) /\ OnRecord(m)
  BY HandlerType DEF IngestInv, SettledInv
<1>a. \A g : Become(r, g) => req'[r] = g
  BY <1>0 DEF Become, TypeOK
<1>b. ASSUME req[r].pc \notin {"receipt", "read", "tiers", "games", "write"} PROVE ~Unfinished(m)
  BY <1>b, OnlyOne
<1>1. CASE UNCHANGED store /\ req[r].pc \notin {"receipt", "read", "tiers", "games", "write"}
  BY <1>0, <1>1, <1>b, RecordKept DEF store
<1>2. CASE UNCHANGED store /\ req'[r].item = req[r].item
           /\ req'[r].pc \in {"receipt", "read", "tiers", "games", "write"}
  <2>1. Unfinished(m) => Unfinished(m)'
    BY <1>2, OnlyOne DEF Session
  <2> QED BY <1>0, <1>2, <2>1, RecordKept DEF store
<1>3. CASE Begin(r) \/ Take(r) \/ Resolve(r) \/ End(r)
  BY <1>1, <1>3 DEF Begin, Take, Resolve, End, At
<1>4. CASE OpenMatch(r)
  <2>1. req[r].pc = "open"
    BY <1>4 DEF OpenMatch, At
  <2>2. CASE UNCHANGED store
    BY <1>1, <2>1, <2>2
  <2>3. CASE contract' = [contract EXCEPT ![Session(r)] = req[r].doc]
             /\ SetMatch(Session(r), NewMatchRow) /\ log' = log
    <3>1. CASE m = Session(r)
      <4>1. contract[m] = NoDoc
        BY <1>0, <2>1, <3>1 DEF Current, At
      <4>2. \A i \in 1..Len(log) : log[i].body.session # m
        BY <1>0, <4>1 DEF FiledOnBound
      <4>3. (Independent(m, Len(log)))' = {}
        BY <2>3, <4>2 DEF Independent, FiledFor
      <4>4. (FirstOfAccount(m, Len(log)))' = {}
        BY <4>3 DEF FirstOfAccount
      <4>5. ~Agreed(m, Len(log))'
        BY <4>4 DEF Agreed
      <4> QED BY <4>5 DEF OnRecord
    <3>2. CASE m # Session(r)
      <4>1. contract'[m] = contract[m] /\ matches'[m] = matches[m]
        BY <1>0, <2>3, <3>2 DEF SetMatch, TypeOK
      <4>2. FiledFor(m, Len(log))' = FiledFor(m, Len(log))
        BY <2>3 DEF FiledFor
      <4>3. Agreed(m, Len(log))' <=> Agreed(m, Len(log))
        BY <2>3, <4>1, <4>2, AgreedSame
      <4> QED BY <1>0, <1>b, <2>1, <4>1, <4>3 DEF OnRecord
    <3> QED BY <3>1, <3>2
  <2> QED BY <1>4, <2>2, <2>3 DEF OpenMatch
<1>5. CASE Quarantine(r)
  <2>1. /\ req[r].pc = "quarantine" /\ log' = log /\ contract' = contract
        /\ SetMatch(Session(r), [matches[Session(r)] EXCEPT !.evidence = "disputed"])
    BY <1>5 DEF Quarantine, At
  <2>2. CASE m = Session(r)
    <3>1. matches'[m].evidence = "disputed"
      BY <1>0, <2>1, <2>2 DEF SetMatch, TypeOK, MatchRow
    <3> QED BY <3>1 DEF OnRecord
  <2>3. CASE m # Session(r)
    <3>1. matches'[m] = matches[m]
      BY <1>0, <2>1, <2>3 DEF SetMatch, TypeOK
    <3> QED BY <1>0, <1>b, <2>1, <3>1, RecordKept
  <2> QED BY <2>2, <2>3
<1>6. CASE File(r)
  <2>1. req[r].pc = "file" /\ matches' = matches /\ contract' = contract
    BY <1>6 DEF File, At
  <2>2. CASE log' = log
    BY <1>0, <1>b, <2>1, <2>2, RecordKept
  <2>3. CASE log' = Append(log, [body |-> req[r].item, by |-> req[r].cred.account])
             /\ Goto(r, "receipt")
    <3>1. PICK e : e = [body |-> req[r].item, by |-> req[r].cred.account]
      OBVIOUS
    <3>2. e \in [body : Report, by : Account] /\ e.body.session = Session(r)
      BY <1>0, <2>1, <3>1, ItemKnown DEF Session
    <3>3. CASE m = Session(r)
      <4>1. req'[r].pc = "receipt" /\ Session(r)' = m
        BY <1>0, <2>3, <3>3, GotoFields DEF PC, Session
      <4> QED BY <4>1, OnlyOne DEF OnRecord
    <3>4. CASE m # Session(r)
      <4>1. /\ FiledFor(m, Len(log))' = FiledFor(m, Len(log))
            /\ \A i \in FiledFor(m, Len(log)) : log'[i] = log[i]
        BY <1>0, <2>3, <3>1, <3>2, <3>4, FiledApart
      <4>2. Agreed(m, Len(log))' <=> Agreed(m, Len(log))
        BY <2>1, <4>1, AgreedSame
      <4> QED BY <1>0, <1>b, <2>1, <4>2 DEF OnRecord
    <3> QED BY <3>3, <3>4
  <2> QED BY <1>6, <2>2, <2>3 DEF File
<1>7. CASE AssignReceipt(r)
  <2>1. /\ req[r].pc = "receipt" /\ log' = log /\ contract' = contract /\ Goto(r, "read")
        /\ \/ matches' = matches
           \/ SetMatch(Session(r), [matches[Session(r)] EXCEPT !.receipt = receipts + 1])
    BY <1>7 DEF AssignReceipt, At
  <2>2. matches'[m].evidence = matches[m].evidence
    <3>1. [matches[m] EXCEPT !.receipt = receipts + 1].evidence = matches[m].evidence
      BY <1>0 DEF TypeOK, MatchRow
    <3> QED BY <1>0, <2>1, <3>1 DEF SetMatch, TypeOK
  <2>3. req'[r].pc = "read" /\ Session(r)' = Session(r)
    BY <1>0, <2>1, GotoFields DEF PC, Session
  <2>4. Unfinished(m) => Unfinished(m)'
    BY <2>3, OnlyOne
  <2> QED BY <1>0, <2>1, <2>2, <2>4, RecordKept
<1>8. CASE ReadMatch(r)
  <2>1. req'[r].pc \in {"write", "tiers", "games"} /\ req'[r].item = req[r].item
    BY <1>0, <1>a, <1>8 DEF ReadMatch, Handler
  <2> QED BY <1>2, <1>8, <2>1 DEF ReadMatch
<1>9. CASE ReadTiers(r)
  <2>1. req'[r].pc = "games" /\ req'[r].item = req[r].item
    BY <1>0, <1>a, <1>9 DEF ReadTiers, Handler
  <2> QED BY <1>2, <1>9, <2>1 DEF ReadTiers
<1>10. CASE WriteGames(r)
  <2>1. log' = log /\ contract' = contract /\ matches' = matches /\ Goto(r, "write")
    BY <1>10 DEF WriteGames
  <2>2. req'[r].pc = "write" /\ Session(r)' = Session(r)
    BY <1>0, <2>1, GotoFields DEF PC, Session
  <2>3. Unfinished(m) => Unfinished(m)'
    BY <2>2, OnlyOne
  <2> QED BY <1>0, <2>1, <2>3, RecordKept
<1>11. CASE WriteState(r)
  <2>1. PICK rating, life :
          /\ req[r].pc = "write" /\ log' = log /\ contract' = contract
          /\ SetMatch(Session(r), [matches[Session(r)] EXCEPT
               !.evidence = EvidenceOf(Session(r), req[r].seen), !.rating = rating,
               !.lifecycle = life])
    BY <1>11 DEF WriteState, At
  <2>2. req[r].seen = Len(log)
    BY <1>0, <2>1 DEF Current
  <2>3. CASE m = Session(r)
    <3>1. matches'[m].evidence = EvidenceOf(m, Len(log))
      BY <1>0, <2>1, <2>2, <2>3 DEF SetMatch, TypeOK, MatchRow
    <3>2. Agreed(m, Len(log)) => EvidenceOf(m, Len(log)) \in {"corroborated", "disputed"}
      BY DEF EvidenceOf
    <3>3. FiledFor(m, Len(log))' = FiledFor(m, Len(log))
      BY <2>1 DEF FiledFor
    <3>4. Agreed(m, Len(log))' <=> Agreed(m, Len(log))
      BY <2>1, <3>3, AgreedSame
    <3> QED BY <3>1, <3>2, <3>4 DEF OnRecord
  <2>4. CASE m # Session(r)
    <3>1. matches'[m] = matches[m] /\ ~Unfinished(m)
      BY <1>0, <2>1, <2>4, OnlyOne DEF SetMatch, TypeOK
    <3> QED BY <1>0, <2>1, <3>1, RecordKept
  <2> QED BY <2>3, <2>4
<1>12. CASE Bump(r)
  <2>1. req[r].pc = "bump" /\ log' = log /\ contract' = contract /\ matches' = matches
    BY <1>12 DEF Bump, At
  <2> QED BY <1>0, <1>b, <2>1, RecordKept
<1> QED BY <1>3, <1>4, <1>5, <1>6, <1>7, <1>8, <1>9, <1>10, <1>11, <1>12 DEF Step

LEMMA SettledStep == OneAtATime /\ IngestInv /\ SettledInv /\ [Next]_vars => SettledInv'
<1> SUFFICES ASSUME OneAtATime, IngestInv, SettledInv, [Next]_vars PROVE SettledInv'
  OBVIOUS
<1>1. Grows /\ FiledOnBound' /\ TypeOK
  BY GrowsStep, BoundKept DEF IngestInv
<1>2. ASSUME NEW r \in Request, Begin(r) \/ Step(r) \/ End(r)
      PROVE  SettledInv'
  <2>1. \A m \in Match : OnRecord(m)'
    BY <1>2, RecordStep
  <2>2. Current(r)'
    BY <1>2, CurrentKept
  <2>3. \A q \in Request : Current(q)'
    BY <2>2, OnlyOne
  <2> QED BY <1>1, <2>1, <2>3 DEF SettledInv
<1>3. ASSUME req' = req, matches' = matches, contract' = contract, log' = log
      PROVE  SettledInv'
  <2>1. \A m \in Match : Unfinished(m) => Unfinished(m)'
    BY <1>3 DEF Unfinished, Session
  <2>2. \A m \in Match : OnRecord(m)'
    BY <1>1, <1>3, <2>1, RecordKept
  <2>3. \A q \in Request : Current(q)'
    BY <1>3 DEF SettledInv, Current, At, Session
  <2> QED BY <1>1, <2>2, <2>3 DEF SettledInv
<1>4. ASSUME NEW r \in Request PROVE ~InsertRaces(r) /\ ~GamesRace(r)
  <2>1. ~InsertRaces(r)
    BY DEF InsertRaces, SettledInv, Current
  <2>2. ~GamesRace(r)
    BY DEF GamesRace, OneAtATime
  <2> QED BY <2>1, <2>2
<1>5. ~Crash
  BY DEF Crash, OneAtATime
<1> QED BY <1>2, <1>3, <1>4, <1>5 DEF Next, Register, Witness, vars, store

\* A server that works on one batch at a time and is not killed records every
\* agreement: what two independent reports agree on is corroborated, or
\* disputed over another contract, once the batch is answered (ingest.ts).
THEOREM AgreementIsRecorded == OneAtATime /\ Spec => []Settled
<1>1. Init => SettledInv
  BY DEF Init, SettledInv, FiledOnBound, Current, OnRecord, At, IdleHandler, Agreed,
     FirstOfAccount, Independent, FiledFor
<1>2. OneAtATime /\ IngestInv /\ SettledInv /\ [Next]_vars => SettledInv'
  BY SettledStep
<1>3. SettledInv => Settled
  BY DEF SettledInv, OnRecord, Unfinished, Settled, At
<1>4. OneAtATime => []OneAtATime
  <2>1. OneAtATime => OneAtATime'
    BY DEF OneAtATime
  <2> QED BY <2>1, PTL
<1> QED BY <1>1, <1>2, <1>3, <1>4, IngestInvariant, PTL DEF Spec

-----------------------------------------------------------------------------
(***************************************************************************)
(* Ingestion implements the append-only evidence log.                      *)
(***************************************************************************)

\* The reports on file, as EvidenceLog sees them.
Filed == {log[i] : i \in 1..Len(log)}

\* insertReport is an Accept of the evidence log.
LEMMA FilingMaps ==
  ASSUME IngestInv, NEW r \in Request, File(r), log' # log,
         NEW body, body = req[r].item, NEW a, a = req[r].cred.account
  PROVE  Evidences!Accept(body, a)
<1> DEFINE e == [body |-> body, by |-> a]
<1>1. TypeOK /\ HandlerInv(r) /\ req[r].pc = "file"
  BY DEF IngestInv, File, At
<1>2. Authentic(r) /\ SameKey(r) = {} /\ log' = Append(log, e)
      /\ UNCHANGED <<contract, matches, games, receipts>>
  BY DEF File
<1>3. e \in [body : Report, by : Account]
  BY <1>1, ItemKnown
<1>4. \A f \in [body : Report, by : Account] : log' = Append(log, f) =>
        /\ Len(log) \in Nat /\ Len(log') = Len(log) + 1 /\ log'[Len(log) + 1] = f
        /\ \A i \in 1..Len(log) : log'[i] = log[i]
  BY <1>1 DEF TypeOK
<1>5. /\ Len(log) \in Nat /\ Len(log') = Len(log) + 1 /\ log'[Len(log) + 1] = e
      /\ \A i \in 1..Len(log) : log'[i] = log[i]
  BY <1>2, <1>3, <1>4
<1>6. {log'[i] : i \in 1..Len(log')} = {log[i] : i \in 1..Len(log)} \union {e}
  <2> HIDE DEF e
  <2>1. 1..Len(log') = 1..Len(log) \union {Len(log) + 1}
    BY <1>5
  <2> QED BY <1>5, <2>1
<1>7. contract[req[r].item.session] = req[r].item.hash /\ Owner[req[r].item.origin] = req[r].cred.account
  BY <1>1, <1>2 DEF HandlerInv, Authentic
<1>8. \A f \in Filed : ~Evidences!SameSlot(e, f)
  BY <1>2 DEF SameKey, Filed, Evidences!SameSlot
<1> QED BY <1>2, <1>6, <1>7, <1>8 DEF Evidences!Accept, Filed

\* insertContractWithMatch is a Bind of the evidence log.
LEMMA BindingMaps ==
  ASSUME IngestInv, NEW r \in Request, OpenMatch(r), contract' # contract
  PROVE  \E m \in Match, d \in Doc : Evidences!Bind(m, d)
<1> DEFINE m == Session(r)
           d == req[r].doc
<1>1. TypeOK /\ HandlerInv(r) /\ req[r].pc = "open"
  BY DEF IngestInv, OpenMatch, At
<1>2. m \in Match /\ d \in Doc /\ d.session = m
  BY <1>1, ItemKnown, HandlerType, IngestAssumption DEF HandlerInv, Handler, Session
<1>3. /\ contract[m] = NoDoc /\ contract' = [contract EXCEPT ![m] = d]
      /\ matches' = [matches EXCEPT ![m] = NewMatchRow]
      /\ UNCHANGED <<games, log, receipts>>
  BY DEF OpenMatch, store, SetMatch
<1>4. matches[m] = NewMatchRow
  BY <1>2, <1>3 DEF IngestInv, UnboundIsNew
<1>5. [k \in Match |-> matches[k].receipt]' = [k \in Match |-> matches[k].receipt]
  BY <1>1, <1>3, <1>4 DEF TypeOK
<1> HIDE DEF m, d
<1>6. Evidences!Bind(m, d)
  BY <1>2, <1>3, <1>5 DEF Evidences!Bind
<1> QED BY <1>2, <1>6

\* assignReceipt is a GiveNumber of the evidence log, or nothing new.
LEMMA NumberingMaps ==
  ASSUME IngestInv, NEW r \in Request, AssignReceipt(r), receipts' # receipts
  PROVE  \E m \in Match : Evidences!GiveNumber(m)
<1> DEFINE m == Session(r)
<1>1. TypeOK /\ HandlerInv(r) /\ req[r].pc = "receipt"
  BY DEF IngestInv, AssignReceipt, At
<1>2. m \in Match /\ \E e \in Filed : e.body.session = m
  BY <1>1, ItemKnown DEF HandlerInv, Session, Filed
<1>3. /\ matches[m].receipt = 0 /\ receipts' = receipts + 1
      /\ matches' = [matches EXCEPT ![m] = [matches[m] EXCEPT !.receipt = receipts + 1]]
      /\ UNCHANGED <<contract, games, log>>
  BY DEF AssignReceipt, SetMatch
<1>4. \A k \in Match : matches'[k].receipt = IF k = m THEN receipts + 1 ELSE matches[k].receipt
  BY <1>1, <1>2, <1>3 DEF TypeOK, MatchRow
<1>5. [k \in Match |-> matches[k].receipt]' = [[k \in Match |-> matches[k].receipt] EXCEPT ![m] = receipts + 1]
  BY <1>2, <1>4
<1> HIDE DEF m
<1>6. ASSUME NEW k \in Match, k = m PROVE Evidences!GiveNumber(k)
  BY <1>2, <1>3, <1>5, <1>6 DEF Evidences!GiveNumber, Filed
<1> QED BY <1>2, <1>6

\* setMatchGames is a Decide of the evidence log, or writes what is there.
LEMMA DecisionMaps ==
  ASSUME IngestInv, NEW r \in Request, WriteGames(r), games' # games
  PROVE  \E m \in Match, w \in Claim : Evidences!Decide(m, w)
<1> DEFINE m == Session(r)
           n == req[r].seen
           w == log[Earliest(m, n)].body.claim
<1>1. TypeOK /\ HandlerInv(r) /\ req[r].pc = "games"
  BY DEF IngestInv, WriteGames, At
<1>2. /\ m \in Match /\ contract[m] \in Doc /\ contract[m] # NoDoc /\ matches[m].receipt # 0
      /\ n \in Nat /\ Len(log) \in Nat /\ n <= Len(log)
      /\ Agreed(m, n) /\ Agreed(m, Len(log))
  <2>1. EvidenceOf(m, n) = "corroborated" /\ matches[m].receipt # 0
    BY <1>1 DEF HandlerInv, Session
  <2> QED BY <1>1, <2>1, ReadStillTrue
<1>3. games' = [games EXCEPT ![m] = w] /\ UNCHANGED <<contract, matches, log, receipts>>
  BY DEF WriteGames
<1>4. \A i \in FirstOfAccount(m, Len(log)) : log[i].body.claim = w
  BY <1>2, EarliestIsClaimed, FirstsFixed
<1>5. games[m] = NoClaim
  <2>1. CASE games[m] # NoClaim
    <3>1. \A i \in FirstOfAccount(m, Len(log)) : log[i].body.claim = games[m]
      BY <1>2, <2>1 DEF IngestInv, GamesAreAgreed, AgreedOn
    <3>2. games[m] = w
      BY <1>2, <1>4, <3>1 DEF Agreed
    <3> QED BY <1>1, <1>2, <1>3, <3>2 DEF TypeOK
  <2> QED BY <2>1
<1>6. PICK i, j \in FirstOfAccount(m, Len(log)) : log[i].by # log[j].by
  BY <1>2 DEF Agreed
<1>7. /\ i \in 1..Len(log) /\ j \in 1..Len(log)
      /\ log[i].body.session = m /\ log[j].body.session = m
      /\ log[i].by \in ParticipantAccounts(m) /\ log[j].by \in ParticipantAccounts(m)
  BY DEF FirstOfAccount, Independent, FiledFor
<1>8. {log[i].by, log[j].by} = ParticipantAccounts(m)
  <2>1. PICK c, d \in Character : contract[m].players = {c, d}
    BY <1>2, IngestAssumption DEF ContractDoc
  <2>2. ParticipantAccounts(m) = {Owner[c], Owner[d]}
    BY <2>1 DEF ParticipantAccounts
  <2> QED BY <1>6, <1>7, <2>2
<1>9. Evidences!Corroborates(m, w)
  <2>1. log[i] \in Filed /\ log[j] \in Filed
    BY <1>7 DEF Filed
  <2> HIDE DEF w, m
  <2> QED BY <1>4, <1>6, <1>7, <1>8, <2>1
          DEF Evidences!Corroborates, Filed, ParticipantAccounts
<1>10. w \in Claim
  <2>1. log[i] \in [body : Report, by : Account] /\ log[i].body.claim = w
    BY <1>1, <1>4, <1>6, <1>7, LogEntry
  <2> QED BY <2>1, IngestAssumption DEF ReportBody
<1>11. Evidences!Decide(m, w)
  <2>1. [k \in Match |-> matches[k].receipt][m] # 0
    BY <1>2
  <2> HIDE DEF w, m
  <2> QED BY <1>2, <1>3, <1>5, <1>9, <2>1 DEF Evidences!Decide
<1> QED BY <1>2, <1>10, <1>11

\* Every step of the tables is a step of the log or leaves it alone.
LEMMA EvidenceStep ==
  ASSUME IngestInv, [Next]_vars
  PROVE  [Evidences!EvidenceNext]_(Evidences!evidenceVars)
<1> DEFINE Same == UNCHANGED Evidences!evidenceVars
           Goal == Evidences!EvidenceNext \/ Same
<1>0. TypeOK /\ matches \in [Match -> MatchRow]
  BY DEF IngestInv, TypeOK
<1>1. ASSUME \A m \in Match : matches'[m].receipt = matches[m].receipt,
             UNCHANGED <<contract, log, receipts, games>>
      PROVE  Same
  BY <1>1 DEF Evidences!evidenceVars
<1>2. ASSUME NEW r \in Request, OpenMatch(r) PROVE Goal
  <2>1. CASE contract' # contract
    BY <1>2, <2>1, BindingMaps DEF Evidences!EvidenceNext
  <2>2. CASE UNCHANGED store
    BY <1>1, <2>2 DEF store
  <2>3. CASE contract' = contract /\ contract[Session(r)] = NoDoc /\ SetMatch(Session(r), NewMatchRow)
             /\ UNCHANGED <<games, log, receipts>>
    <3>1. Session(r) \in Match /\ matches[Session(r)] = NewMatchRow
      <4>1. HandlerInv(r) /\ req[r].pc = "open"
        BY <1>2 DEF IngestInv, OpenMatch, At
      <4> QED BY <1>0, <2>3, <4>1, ItemKnown DEF IngestInv, UnboundIsNew
    <3> QED BY <1>0, <1>1, <2>3, <3>1 DEF SetMatch
  <2> QED BY <1>2, <2>1, <2>2, <2>3 DEF OpenMatch
<1>3. ASSUME NEW r \in Request, File(r) PROVE Goal
  <2>1. CASE log' = log
    BY <1>1, <1>3, <2>1 DEF File
  <2>2. CASE log' # log
    <3>1. HandlerInv(r) /\ req[r].pc = "file"
      BY <1>3 DEF IngestInv, File, At
    <3>2. req[r].item \in Report /\ req[r].cred.account \in Account
      BY <1>0, <3>1, ItemKnown
    <3>3. ASSUME NEW body \in Report, body = req[r].item,
                 NEW a \in Account, a = req[r].cred.account
          PROVE  Evidences!Accept(body, a)
      BY <1>3, <2>2, <3>3, FilingMaps
    <3> QED BY <3>2, <3>3 DEF Evidences!EvidenceNext
  <2> QED BY <2>1, <2>2
<1>4. ASSUME NEW r \in Request, AssignReceipt(r) PROVE Goal
  <2>1. CASE receipts' # receipts
    BY <1>4, <2>1, NumberingMaps DEF Evidences!EvidenceNext
  <2>2. CASE receipts' = receipts
    <3>1. receipts + 1 # receipts
      BY <1>0 DEF TypeOK
    <3> QED BY <1>1, <1>4, <2>2, <3>1 DEF AssignReceipt
  <2> QED BY <2>1, <2>2
<1>5. ASSUME NEW r \in Request, WriteGames(r) PROVE Goal
  <2>1. CASE games' # games
    BY <1>5, <2>1, DecisionMaps DEF Evidences!EvidenceNext
  <2>2. CASE games' = games
    BY <1>1, <1>5, <2>2 DEF WriteGames
  <2> QED BY <2>1, <2>2
<1>6. ASSUME NEW r \in Request, Quarantine(r) PROVE Goal
  <2>1. \A m \in Match : matches'[m].receipt = matches[m].receipt
    BY <1>0, <1>6 DEF Quarantine, SetMatch, MatchRow
  <2> QED BY <1>1, <1>6, <2>1 DEF Quarantine
<1>7. ASSUME NEW r \in Request, WriteState(r) PROVE Goal
  <2>1. \A m \in Match : \A e, a, l :
          [matches[m] EXCEPT !.evidence = e, !.rating = a, !.lifecycle = l].receipt
            = matches[m].receipt
    BY <1>0 DEF MatchRow
  <2>2. \A m \in Match : matches'[m].receipt = matches[m].receipt
    BY <1>0, <1>7, <2>1 DEF WriteState, SetMatch
  <2> QED BY <1>1, <1>7, <2>2 DEF WriteState
<1>8. UNCHANGED store => Goal
  BY <1>1 DEF store
<1>9. UNCHANGED <<contract, matches, games, log, receipts>> => Goal
  BY <1>1
<1> HIDE DEF Goal
<1>10. Goal
  BY <1>2, <1>3, <1>4, <1>5, <1>6, <1>7, <1>8, <1>9 DEF Next, Step, vars, Begin, Take,
     Resolve, ReadMatch, ReadTiers, Bump, End, InsertRaces, GamesRace,
     Exit, Crash, Register, Witness
<1> QED BY <1>10 DEF Goal

\* Concurrent, retried and interrupted ingestion implements the evidence log:
\* contracts are bound for good, reports accepted once and never lost, matches
\* numbered in order, results decided once, by two participants.
THEOREM IngestRefinesEvidenceLog == Spec => ImplementsEvidenceLog
<1>1. Init => Evidences!EvidenceInit
  BY DEF Init, NewMatchRow, Evidences!EvidenceInit
<1>2. IngestInv /\ [Next]_vars => [Evidences!EvidenceNext]_(Evidences!evidenceVars)
  BY EvidenceStep
<1> QED BY <1>1, <1>2, IngestInvariant, PTL
        DEF Spec, ImplementsEvidenceLog, Evidences!EvidenceSpec
=============================================================================
