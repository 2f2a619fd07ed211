------------------------------- MODULE Ingest -------------------------------
(***************************************************************************)
(* Report ingestion and reconciliation over the Postgres store             *)
(* (packages/server/src/ingest.ts, pg.ts, migrations 0003 and 0008).       *)
(*                                                                         *)
(* A handler of POST /v1/reports/batch is a process r \in Request.  Every  *)
(* awaited store call of ingestEnvelope and reconcileMatch is a step, so   *)
(* the handlers of one server interleave exactly where Node lets them.     *)
(* The tables are shared; a handler's local variables are req[r].          *)
(*                                                                         *)
(* Abstractions.  The canonical hash of a contract is the contract: two    *)
(* documents with the same session and different content are different     *)
(* elements of Doc.  The digest of a report body is the body.  A claim is  *)
(* the list of per-game winners of a report.  Registration, ownership and  *)
(* participant rows never change once written, so a read of them is joined *)
(* to the next step of the handler.  A report that fails validateReport    *)
(* changes nothing and is not submitted here.                              *)
(***************************************************************************)
EXTENDS Naturals, Sequences

CONSTANTS
  Account,        \* platform accounts
  Character,      \* game characters
  Owner,          \* Owner[c]: the account character c is registered under
  Match,          \* session ids
  Doc,            \* contract documents, identified with their hash
  Report,         \* report bodies the companions submit
  Installation,   \* companion installations
  Nonce,          \* report nonces
  Claim,          \* per-game winner lists
  Credential,     \* [account, inst]: what a bearer token authenticates
  Request,        \* concurrent batch handlers
  Tier0,          \* verification tiers when the server starts
  Crashes,        \* TRUE when the server process may exit at any moment
  NoInst, NoDoc, NoReport, NoClaim, NoCred

\* Contract documents that pass validateContract: two distinct characters.
ContractDoc ==
  [session : Match,
   players : {p \in SUBSET Character : \E c, d \in Character : c # d /\ p = {c, d}},
   ranked  : BOOLEAN]           \* ratedIntent and a ladder

ReportBody ==
  [session : Match, hash : Doc, origin : Character, inst : Installation,
   nonce : Nonce, claim : Claim, finished : BOOLEAN, peer : BOOLEAN]

AuthContext == [account : Account, inst : Installation \union {NoInst}]

Verified == {"witnessed", "provider_verified"}
Tier     == {"none", "claimed"} \union Verified      \* "none": not registered

ASSUME IngestAssumption ==
  /\ Owner \in [Character -> Account]
  /\ Doc \subseteq ContractDoc
  /\ Report \subseteq ReportBody
  /\ Credential \subseteq AuthContext
  /\ Tier0 \in [Character -> Tier]
  /\ Crashes \in BOOLEAN
  /\ NoInst \notin Installation
  /\ NoDoc \notin Doc
  /\ NoReport \notin Report
  /\ NoClaim \notin Claim
  /\ NoCred \notin Credential

VARIABLES
  tier,       \* characters.verification_tier
  contract,   \* match_contracts: the document a session is bound to
  matches,    \* matches: lifecycle, evidence, rating, receipt_seq (0: null)
  games,      \* match_games: the winner list materialised for a match
  log,        \* match_reports of all matches in received_at order
  receipts,   \* last value of the sequence matches_receipt_seq
  rev,        \* season_projection_heads.input_revision
  timer,      \* GenerationRunner's debounce timer is armed for the season
  req         \* local variables of each batch handler

store == <<tier, contract, matches, games, log, receipts, rev>>
vars  == <<store, timer, req>>

PC == {"idle", "next", "resolve", "open", "quarantine", "file",
       "receipt", "read", "tiers", "games", "write", "bump"}

Lifecycle == {"proposed", "finished"}       \* the only two ingestion writes
Evidence  == {"awaiting", "peer_supported", "corroborated", "disputed"}
Rating    == {"ineligible", "pending", "applied", "held"}

MatchRow == [lifecycle : Lifecycle, evidence : Evidence, rating : Rating,
             receipt : Nat]

Handler == [pc    : PC,
            cred  : Credential \union {NoCred},
            item  : Report \union {NoReport},  \* the report in hand
            doc   : Doc \union {NoDoc},        \* the contract sent with it
            seen  : Nat,                       \* length of log when it was read
            life  : Lifecycle,                 \* match.lifecycle when it was read
            ok    : BOOLEAN,                   \* tiersOk
            dirty : BOOLEAN]                   \* an item was rating_pending/disputed

TypeOK ==
  /\ tier \in [Character -> Tier]
  /\ contract \in [Match -> Doc \union {NoDoc}]
  /\ matches \in [Match -> MatchRow]
  /\ games \in [Match -> Claim \union {NoClaim}]
  /\ log \in Seq([body : Report, by : Account])
  /\ receipts \in Nat
  /\ rev \in Nat
  /\ timer \in BOOLEAN
  /\ req \in [Request -> Handler]

NewMatchRow == [lifecycle |-> "proposed", evidence |-> "awaiting",
                rating |-> "ineligible", receipt |-> 0]

IdleHandler == [pc |-> "idle", cred |-> NoCred, item |-> NoReport, doc |-> NoDoc,
                seen |-> 0, life |-> "proposed", ok |-> FALSE, dirty |-> FALSE]

\* The handler between two reports of its envelope.
BetweenItems(c, d) ==
  [pc |-> "next", cred |-> c, item |-> NoReport, doc |-> NoDoc,
   seen |-> 0, life |-> "proposed", ok |-> FALSE, dirty |-> d]

Init ==
  /\ tier = Tier0
  /\ contract = [m \in Match |-> NoDoc]
  /\ matches = [m \in Match |-> NewMatchRow]
  /\ games = [m \in Match |-> NoClaim]
  /\ log = <<>>
  /\ receipts = 0
  /\ rev = 0
  /\ timer = FALSE
  /\ req = [r \in Request |-> IdleHandler]

-----------------------------------------------------------------------------
(***************************************************************************)
(* reconcileMatch reads the reports once; the log is append-only, so the   *)
(* rows it saw are the first n of the log.                                 *)
(***************************************************************************)
ParticipantAccounts(m) == {Owner[c] : c \in contract[m].players}

FiledFor(m, n) == {i \in 1..n : log[i].body.session = m}

Independent(m, n) == {i \in FiledFor(m, n) : log[i].by \in ParticipantAccounts(m)}

\* Mutant of FirstOfAccount: a later report replaces the first of its account.
LastOfAccount(m, n) ==
  {i \in Independent(m, n) :
     \A j \in Independent(m, n) : log[j].by = log[i].by => i >= j}

\* originsByAccount: the first report of each participant account.
FirstOfAccount(m, n) ==
  {i \in Independent(m, n) :
     \A j \in Independent(m, n) : log[j].by = log[i].by => i <= j}

\* outcomesAgree on the first reports of two different accounts, and its negation.
Agreed(m, n) == \E i, j \in FirstOfAccount(m, n) :
  log[i].by # log[j].by /\ log[i].body.claim = log[j].body.claim

Contested(m, n) == \E i, j \in FirstOfAccount(m, n) :
  log[i].by # log[j].by /\ log[i].body.claim # log[j].body.claim

\* Exactly one independent report, and it carries a peer digest.
PeerSupported(m, n) == \E i \in Independent(m, n) :
  Independent(m, n) = {i} /\ log[i].body.peer

\* Mutant of EvidenceOf: counts reports instead of accounts.
EvidencePerReport(m, n) ==
  IF Agreed(m, n) THEN "corroborated"
  ELSE IF \E i, j \in Independent(m, n) : i # j THEN "disputed"
  ELSE "awaiting"

\* Mutant of EvidenceOf: looks for a peer digest before it looks for agreement.
EvidencePeerFirst(m, n) ==
  IF Contested(m, n) THEN "disputed"
  ELSE IF \E i \in Independent(m, n) : log[i].body.peer THEN "peer_supported"
  ELSE IF Agreed(m, n) THEN "corroborated"
  ELSE "awaiting"

EvidenceOf(m, n) ==
  IF Contested(m, n) THEN "disputed"
  ELSE IF Agreed(m, n) THEN "corroborated"
  ELSE IF PeerSupported(m, n) THEN "peer_supported"
  ELSE "awaiting"

\* Mutant of Earliest: the last independent report.
Latest(m, n) == CHOOSE i \in Independent(m, n) : \A j \in Independent(m, n) : i >= j

\* independent[0]
Earliest(m, n) == CHOOSE i \in Independent(m, n) : \A j \in Independent(m, n) : i <= j

DistinctAccounts(m) == \A c, d \in contract[m].players : c # d => Owner[c] # Owner[d]

PlayersVerified(m) == \A c \in contract[m].players : tier[c] \in Verified

\* Mutant of RatingOf: whatever is not disputed is pending.
RatingUnconditional(e, ok) == IF e = "disputed" THEN "held" ELSE "pending"

RatingOf(e, ok) ==
  IF e = "disputed" THEN "held" ELSE IF ok THEN "pending" ELSE "ineligible"

Finished(m, n) == \E i \in FiledFor(m, n) : log[i].body.finished

-----------------------------------------------------------------------------
At(r, pc)    == req[r].pc = pc
Become(r, h) == req' = [req EXCEPT ![r] = h]
Goto(r, pc)  == Become(r, [req[r] EXCEPT !.pc = pc])
NextItem(r)  == Become(r, BetweenItems(req[r].cred, req[r].dirty))
Session(r)   == req[r].item.session

SetMatch(m, row) == matches' = [matches EXCEPT ![m] = row]

\* A batch request arrives; helperAuth resolved its token.
Begin(r) ==
  /\ At(r, "idle")
  /\ \E c \in Credential : Become(r, BetweenItems(c, FALSE))
  /\ UNCHANGED <<store, timer>>

\* The next report of the envelope, and the contract the envelope carries for
\* its session, if any.  Companions re-send: any report, any number of times.
Take(r) ==
  /\ At(r, "next")
  /\ \E body \in Report, d \in Doc \union {NoDoc} :
       /\ d # NoDoc => d.session = body.session
       /\ Become(r, [req[r] EXCEPT !.pc = "resolve", !.item = body, !.doc = d])
  /\ UNCHANGED <<store, timer>>

\* getContract: unknown session, known with the same hash, or with another.
Resolve(r) ==
  /\ At(r, "resolve")
  /\ LET bound == contract[Session(r)]
         body  == req[r].item
     IN \/ bound = NoDoc /\ req[r].doc = body.hash /\ Goto(r, "open")
        \/ bound = NoDoc /\ req[r].doc # body.hash /\ NextItem(r)
        \/ bound # NoDoc /\ bound = body.hash /\ Goto(r, "file")
        \/ bound # NoDoc /\ bound # body.hash /\ Goto(r, "quarantine")
  /\ UNCHANGED <<store, timer>>

\* insertContractWithMatch, one transaction.  (When another handler inserted
\* the session first the primary key makes it throw: see InsertRaces.)
OpenMatch(r) ==
  /\ At(r, "open")
  /\ \/ /\ \E c \in req[r].doc.players : tier[c] = "none"
        /\ NextItem(r)
        /\ UNCHANGED store
     \/ /\ \A c \in req[r].doc.players : tier[c] # "none"
        /\ contract[Session(r)] = NoDoc
        /\ contract' = [contract EXCEPT ![Session(r)] = req[r].doc]
        /\ SetMatch(Session(r), NewMatchRow)
        /\ Goto(r, "file")
        /\ UNCHANGED <<tier, games, log, receipts, rev>>
  /\ UNCHANGED timer

\* A report with another hash for the session is refused and the match disputed.
Quarantine(r) ==
  /\ At(r, "quarantine")
  /\ SetMatch(Session(r), [matches[Session(r)] EXCEPT !.evidence = "disputed"])
  /\ NextItem(r)
  /\ UNCHANGED <<tier, contract, games, log, receipts, rev, timer>>

\* Mutant of Authentic: only the installation is compared.
AuthenticByInstallation(r) ==
  req[r].cred.inst # NoInst => req[r].cred.inst = req[r].item.inst

\* The credential must own the origin character, on its own installation.
Authentic(r) ==
  LET body == req[r].item
      cred == req[r].cred
  IN /\ tier[body.origin] # "none"
     /\ Owner[body.origin] = cred.account
     /\ cred.inst # NoInst => cred.inst = body.inst

\* Mutant of SameKey: the digest is part of the key.
SameKeyAndDigest(r) == {i \in 1..Len(log) :
  log[i] = [body |-> req[r].item, by |-> req[r].cred.account]}

\* The row already stored under (account, installation, nonce).
SameKey(r) == {i \in 1..Len(log) :
  /\ log[i].by = req[r].cred.account
  /\ log[i].body.inst = req[r].item.inst
  /\ log[i].body.nonce = req[r].item.nonce}

\* insertReport: on conflict do nothing, answered duplicate or rejected.
File(r) ==
  /\ At(r, "file")
  /\ \/ /\ Authentic(r) /\ SameKey(r) = {}
        /\ log' = Append(log, [body |-> req[r].item, by |-> req[r].cred.account])
        /\ Goto(r, "receipt")
     \/ /\ ~Authentic(r) \/ SameKey(r) # {}
        /\ NextItem(r)
        /\ UNCHANGED log
  /\ UNCHANGED <<tier, contract, matches, games, receipts, rev, timer>>

\* Mutant of AssignReceipt: every report draws a number, without the coalesce.
ReceiptPerReport(r) ==
  /\ At(r, "receipt")
  /\ receipts' = receipts + 1
  /\ SetMatch(Session(r), [matches[Session(r)] EXCEPT !.receipt = receipts + 1])
  /\ Goto(r, "read")
  /\ UNCHANGED <<tier, contract, games, log, rev, timer>>

\* assignReceipt: coalesce(receipt_seq, nextval(..)).
AssignReceipt(r) ==
  /\ At(r, "receipt")
  /\ \/ /\ matches[Session(r)].receipt = 0
        /\ receipts' = receipts + 1
        /\ SetMatch(Session(r), [matches[Session(r)] EXCEPT !.receipt = receipts + 1])
     \/ /\ matches[Session(r)].receipt # 0
        /\ UNCHANGED <<receipts, matches>>
  /\ Goto(r, "read")
  /\ UNCHANGED <<tier, contract, games, log, rev, timer>>

\* reconcileMatch: getMatch, getContract, reportsForMatch, participantsOf.  The
\* lifecycle is read before the reports; joined to them it is the same to the
\* handler, since a report that finished the match in between is among them.
\* Tiers are read only for a corroborated ranked match between two accounts.
ReadMatch(r) ==
  /\ At(r, "read")
  /\ LET m == Session(r)
         n == Len(log)
         next == IF EvidenceOf(m, n) # "corroborated" THEN "write"
                 ELSE IF contract[m].ranked /\ DistinctAccounts(m) THEN "tiers"
                 ELSE "games"
     IN Become(r, [req[r] EXCEPT !.pc = next, !.seen = n, !.life = matches[m].lifecycle])
  /\ UNCHANGED <<store, timer>>

ReadTiers(r) ==
  /\ At(r, "tiers")
  /\ Become(r, [req[r] EXCEPT !.pc = "games", !.ok = PlayersVerified(Session(r))])
  /\ UNCHANGED <<store, timer>>

\* setMatchGames with the games of independent[0] (see also GamesRace).
WriteGames(r) ==
  /\ At(r, "games")
  /\ LET m == Session(r)
     IN games' = [games EXCEPT ![m] = log[Earliest(m, req[r].seen)].body.claim]
  /\ Goto(r, "write")
  /\ UNCHANGED <<tier, contract, matches, log, receipts, rev, timer>>

\* setMatchState(evidence, rating, lifecycle), from what was read before.
WriteState(r) ==
  /\ At(r, "write")
  /\ LET m == Session(r)
         n == req[r].seen
         e == EvidenceOf(m, n)
         rating == RatingOf(e, req[r].ok)
         life == IF Finished(m, n) THEN "finished" ELSE req[r].life
     IN /\ SetMatch(m, [matches[m] EXCEPT !.evidence = e, !.rating = rating,
                                          !.lifecycle = life])
        /\ IF rating \in {"pending", "held"} THEN Goto(r, "bump") ELSE NextItem(r)
  /\ UNCHANGED <<tier, contract, games, log, receipts, rev, timer>>

\* bumpInputRevision, and the item status that makes the batch schedule a build.
Bump(r) ==
  /\ At(r, "bump")
  /\ rev' = rev + 1
  /\ Become(r, BetweenItems(req[r].cred, TRUE))
  /\ UNCHANGED <<tier, contract, matches, games, log, receipts, timer>>

\* The envelope is done: schedule a generation when an item asks for it, answer.
End(r) ==
  /\ At(r, "next")
  /\ timer' = (timer \/ req[r].dirty)
  /\ Become(r, IdleHandler)
  /\ UNCHANGED store

-----------------------------------------------------------------------------
\* The process exits: handlers and the timer are lost, committed rows stay.
Exit ==
  /\ timer' = FALSE
  /\ req' = [r \in Request |-> IdleHandler]
  /\ UNCHANGED store

\* Two handlers open the same session: the second insert violates the primary
\* key, the handler rejects, nothing catches it and Node exits.
InsertRaces(r) ==
  /\ At(r, "open")
  /\ contract[Session(r)] # NoDoc
  /\ \A c \in req[r].doc.players : tier[c] # "none"
  /\ Exit

\* setMatchGames deletes and inserts in one transaction.  Of two that overlap
\* the second cannot delete the rows of the first, violates the primary key of
\* match_games when it inserts its own, and Node exits.
GamesRace(r) ==
  /\ At(r, "games")
  /\ \E q \in Request \ {r} :
       /\ At(q, "write") /\ Session(q) = Session(r)
       /\ EvidenceOf(Session(q), req[q].seen) = "corroborated"
  /\ Exit

Crash ==
  /\ Crashes
  /\ Exit

\* POST /v1/characters: a self-registered character is only claimed.
Register(c) ==
  /\ tier[c] = "none"
  /\ tier' = [tier EXCEPT ![c] = "claimed"]
  /\ UNCHANGED <<contract, matches, games, log, receipts, rev, timer, req>>

\* A referee check-in, written to the database from outside src/.
Witness(c) ==
  /\ tier[c] = "claimed"
  /\ tier' = [tier EXCEPT ![c] = "witnessed"]
  /\ UNCHANGED <<contract, matches, games, log, receipts, rev, timer, req>>

Step(r) ==
  \/ Take(r) \/ Resolve(r) \/ OpenMatch(r) \/ Quarantine(r) \/ File(r)
  \/ AssignReceipt(r) \/ ReadMatch(r) \/ ReadTiers(r) \/ WriteGames(r)
  \/ WriteState(r) \/ Bump(r)

Next ==
  \/ \E r \in Request : Begin(r) \/ Step(r) \/ End(r) \/ InsertRaces(r) \/ GamesRace(r)
  \/ \E c \in Character : Register(c) \/ Witness(c)
  \/ Crash

Spec == Init /\ [][Next]_vars

-----------------------------------------------------------------------------
(***************************************************************************)
(* The tables, seen as the evidence log they implement.                    *)
(***************************************************************************)
Evidences == INSTANCE EvidenceLog WITH
  docket <- contract,
  filed  <- {log[i] : i \in 1..Len(log)},
  number <- [m \in Match |-> matches[m].receipt],
  last   <- receipts,
  result <- games

\* Handlers racing, retried, re-sent and killed at any step still implement
\* the append-only evidence log.
ImplementsEvidenceLog == Evidences!EvidenceSpec

-----------------------------------------------------------------------------
(***************************************************************************)
(* Properties                                                              *)
(***************************************************************************)

\* What the reports on file amount to.
Supported(m) ==
  /\ contract[m] # NoDoc
  /\ contract[m].ranked /\ PlayersVerified(m)
  /\ Agreed(m, Len(log)) /\ ~Contested(m, Len(log))
  /\ matches[m].receipt # 0

Conflicted(m) == contract[m] # NoDoc /\ Contested(m, Len(log))

AgreedOn(m, w) ==
  /\ contract[m] # NoDoc
  /\ Agreed(m, Len(log))
  /\ \A i \in FirstOfAccount(m, Len(log)) : log[i].body.claim = w

\* A report counts once: whatever handlers race and companions re-send, at
\* most one row exists per account, installation and nonce (ingest.ts:5).
OneRowPerNonce ==
  \A i, j \in 1..Len(log) :
    (/\ log[i].by = log[j].by
     /\ log[i].body.inst = log[j].body.inst
     /\ log[i].body.nonce = log[j].body.nonce) => i = j

\* No one-sided report ever makes a series count: a match pending or applied
\* has the agreeing first reports of two different participant accounts on
\* file, is ranked, has verified players and an ordering receipt (ingest.ts:13).
RatedOnlyWhenAgreed ==
  \A m \in Match : matches[m].rating \in {"pending", "applied"} => Supported(m)

\* A match is held only over a real conflict of its two participants.
HeldOnlyWhenContested ==
  \A m \in Match : matches[m].rating = "held" => Conflicted(m)

\* Materialised games are what both participants claimed first (ingest.ts:118).
GamesAreAgreed ==
  \A m \in Match : games[m] # NoClaim => AgreedOn(m, games[m])

\* Receipt numbers order the replay: no two matches share one.
ReceiptsUnique ==
  \A m, n \in Match : matches[m].receipt # 0 /\ matches[m].receipt = matches[n].receipt => m = n

\* A verdict never flips: no later report, retry or stale handler turns a
\* counting series into a held one or a held one into a counting one.
VerdictNeverFlips ==
  [][\A m \in Match :
       /\ matches[m].rating \in {"pending", "applied"} => matches'[m].rating # "held"
       /\ matches[m].rating = "held" => matches'[m].rating \notin {"pending", "applied"}]_vars

\* A receipt number, once given, is never replaced: the replay order of two
\* matches cannot change (docs/09 "Ordering").
ReceiptImmutable ==
  [][\A m \in Match : matches[m].receipt # 0 => matches'[m].receipt = matches[m].receipt]_vars

\* What a handler knows at each of its steps: the contract it resolved is the
\* one the session is bound to, the rows it read are still the first rows of
\* the log, and tiersOk speaks of the match it is about to write.
HandlerInv(r) ==
  LET h == req[r]
      m == h.item.session
  IN /\ h.pc # "idle" => h.cred \in Credential
     /\ h.pc \notin {"idle", "next"} => h.item \in Report
     /\ h.pc \notin {"idle", "next"} /\ h.doc # NoDoc => h.doc.session = m
     /\ h.pc = "open" => h.doc = h.item.hash
     /\ h.pc = "quarantine" => contract[m] # NoDoc
     /\ h.pc \in {"file", "receipt", "read", "tiers", "games", "write", "bump"} =>
          contract[m] = h.item.hash
     /\ h.pc \in {"receipt", "read", "tiers", "games", "write", "bump"} =>
          \E i \in 1..Len(log) : log[i].body = h.item
     /\ h.pc \in {"read", "tiers", "games", "write", "bump"} => matches[m].receipt # 0
     /\ h.pc \in {"tiers", "games", "write", "bump"} => h.seen <= Len(log)
     /\ h.pc \in {"tiers", "games"} => EvidenceOf(m, h.seen) = "corroborated"
     /\ h.pc = "tiers" => contract[m].ranked
     /\ h.ok => /\ h.pc \in {"games", "write", "bump"}
                /\ contract[m].ranked /\ PlayersVerified(m)
                /\ EvidenceOf(m, h.seen) = "corroborated"

\* A session without a contract has no match row yet.
UnboundIsNew == \A m \in Match : contract[m] = NoDoc => matches[m] = NewMatchRow

\* The inductive invariant behind the theorems of IngestProofs.
IngestInv ==
  /\ TypeOK
  /\ \A r \in Request : HandlerInv(r)
  /\ UnboundIsNew
  /\ \A m \in Match : contract[m] # NoDoc => contract[m].session = m
  /\ \A m \in Match : matches[m].receipt <= receipts
  /\ ReceiptsUnique
  /\ OneRowPerNonce
  /\ RatedOnlyWhenAgreed
  /\ HeldOnlyWhenContested
  /\ GamesAreAgreed

\* Agreement is not forgotten: when no handler is at work, a match with two
\* independent reports that agree is not left waiting for a report (README.md:28).
Settled ==
  (\A r \in Request : At(r, "idle")) =>
    \A m \in Match : Agreed(m, Len(log)) =>
      matches[m].evidence \in {"corroborated", "disputed"}

-----------------------------------------------------------------------------
(***************************************************************************)
(* When agreement is not forgotten.                                        *)
(***************************************************************************)

\* Batches come one at a time and the process does not exit.
OneAtATime == ~Crashes /\ \A q, r \in Request : q = r

\* Reports are filed on bound sessions only.
FiledOnBound == \A i \in 1..Len(log) : contract[log[i].body.session] # NoDoc

\* What a handler has read is still so.
Current(r) ==
  /\ At(r, "open") => contract[Session(r)] = NoDoc
  /\ req[r].pc \in {"tiers", "games", "write"} => req[r].seen = Len(log)

\* A handler has filed a report on m and not yet written what it amounts to.
Unfinished(m) == \E r \in Request :
  Session(r) = m /\ req[r].pc \in {"receipt", "read", "tiers", "games", "write"}

\* Agreement is on record or about to be.
OnRecord(m) ==
  Agreed(m, Len(log)) => matches[m].evidence \in {"corroborated", "disputed"} \/ Unfinished(m)

SettledInv ==
  /\ FiledOnBound
  /\ \A r \in Request : Current(r)
  /\ \A m \in Match : OnRecord(m)
=============================================================================
