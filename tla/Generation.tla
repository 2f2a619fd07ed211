----------------------------- MODULE Generation -----------------------------
(***************************************************************************)
(* Rating generations over the tables that ingestion writes                *)
(* (packages/server/src/generation.ts, replay.ts, the commit function of   *)
(* migration 0008, and the boot sequence of serve.ts).                     *)
(*                                                                         *)
(* One server process: its batch handlers (module Ingest), the debounce    *)
(* timer, and one GenerationRunner for the season.  A build reads the      *)
(* input revision, lists the matches, derives one event per match with     *)
(* several awaited reads, commits against the revision and then marks the  *)
(* matches it counted, so handlers interleave with all of it.              *)
(*                                                                         *)
(* A generation is the set of its eligible events: the replay is a         *)
(* function of them, and skips the others.  Every match is of the season.  *)
(***************************************************************************)
EXTENDS Ingest

CONSTANTS
  WinnerOf,   \* WinnerOf[w]: who wins the series on winner list w, if anyone
  Mismatched, \* contracts on the mirror ladder of characters of two classes
  NoWinner, NoMatch

ASSUME GenerationAssumption ==
  /\ WinnerOf \in [Claim -> Character \union {NoWinner}]
  /\ Mismatched \subseteq Doc
  /\ NoMatch \notin Match

VARIABLES
  build,      \* the build in flight and its local variables
  again,      \* a follow-up build is queued (GenerationRunner.queued)
  head        \* the published generation: the revision it read, its events

genVars == <<vars, build, again, head>>

Event == [match : Match, seq : Nat, winner : Character \union {NoWinner}]

Build == [pc     : {"idle", "revision", "list", "derive", "games", "reports", "mark"},
          boot   : BOOLEAN,                   \* the build startServer waits for
          retry  : BOOLEAN,                   \* the second of buildOnce's two tries
          rev    : Nat,                       \* inputRevision
          todo   : SUBSET Match,              \* matches left to derive, or to mark
          bad    : BOOLEAN,                   \* an event that replay throws on
          match  : Match \union {NoMatch},    \* the match being derived
          seq    : Nat,
          winner : Character \union {NoWinner},
          events : SUBSET Event]

Published == [rev : Nat, events : SUBSET Event]

GenTypeOK ==
  /\ TypeOK
  /\ build \in Build
  /\ again \in BOOLEAN
  /\ head \in Published

\* A build that has not read anything yet.
Fresh(boot, retry) ==
  [pc |-> "revision", boot |-> boot, retry |-> retry, rev |-> 0, todo |-> {},
   bad |-> FALSE, match |-> NoMatch, seq |-> 0, winner |-> NoWinner, events |-> {}]

NoBuild == [Fresh(FALSE, FALSE) EXCEPT !.pc = "idle"]

GenInit ==
  /\ Init
  /\ build = Fresh(TRUE, FALSE)
  /\ again = FALSE
  /\ head = [rev |-> 0, events |-> {}]

-----------------------------------------------------------------------------
\* Mutant of Countable: a finished match counts.
CountableWhenFinished(row) == row.lifecycle = "finished"

\* deriveEvent's condition on the row it read.
Countable(row) ==
  row.lifecycle = "finished" /\ row.evidence = "corroborated" /\ row.rating \in {"pending", "applied"}

\* The rest of deriveEvent's condition.
RankedDuel(m) == contract[m].ranked /\ DistinctAccounts(m) /\ PlayersVerified(m)

\* reports[0]: the first report of the session, whoever filed it.
FirstReport(m) ==
  log[CHOOSE i \in FiledFor(m, Len(log)) : \A j \in FiledFor(m, Len(log)) : i <= j]

Eligible(m) == contract[m] # NoDoc /\ Countable(matches[m]) /\ RankedDuel(m)

Counted == {e.match : e \in head.events}

-----------------------------------------------------------------------------
(***************************************************************************)
(* GenerationRunner                                                        *)
(***************************************************************************)

\* runNow: start a build, or have one follow the build in flight.
RunNow ==
  \/ /\ build.pc = "idle"
     /\ build' = Fresh(FALSE, FALSE)
     /\ UNCHANGED again
  \/ /\ build.pc # "idle"
     /\ again' = TRUE
     /\ UNCHANGED build

\* The debounce timer armed by schedule expires.
Fire ==
  /\ timer
  /\ timer' = FALSE
  /\ RunNow
  /\ UNCHANGED <<store, req, head>>

\* POST /v1/admin/regenerate.
Regenerate ==
  /\ ~build.boot
  /\ RunNow
  /\ UNCHANGED <<vars, head>>

\* Mutant of Settle: done forgets the follow-up.
SettleAlone ==
  /\ build' = NoBuild
  /\ again' = FALSE

\* The promise of a build settles: done, then the queued follow-up.
Settle ==
  /\ build' = IF again THEN Fresh(FALSE, FALSE) ELSE NoBuild
  /\ again' = FALSE

-----------------------------------------------------------------------------
(***************************************************************************)
(* buildGeneration                                                         *)
(***************************************************************************)
ReadRevision ==
  /\ build.pc = "revision"
  /\ build' = [build EXCEPT !.pc = "list", !.rev = rev]
  /\ UNCHANGED <<vars, again, head>>

ListMatches ==
  /\ build.pc = "list"
  /\ build' = [build EXCEPT !.pc = "derive", !.todo = {m \in Match : contract[m] # NoDoc}]
  /\ UNCHANGED <<vars, again, head>>

\* deriveEvent: getMatch.  A row without a receipt yields no event, one that
\* does not count an event that is not eligible.  validateEvent looks at both.
ReadRow(m) ==
  /\ build.pc = "derive" /\ m \in build.todo
  /\ LET bad  == contract[m] \in Mismatched /\ matches[m].receipt # 0
         left == [build EXCEPT !.todo = @ \ {m}, !.bad = @ \/ bad]
     IN \/ /\ Countable(matches[m]) /\ matches[m].receipt # 0
           /\ build' = [left EXCEPT !.pc = "games", !.match = m, !.seq = matches[m].receipt]
        \/ /\ ~Countable(matches[m]) \/ matches[m].receipt = 0
           /\ build' = left
  /\ UNCHANGED <<vars, again, head>>

\* Mutant of ReadGames: the materialised games are not read.
SkipGames ==
  /\ build.pc = "games"
  /\ build' = [build EXCEPT !.pc = "reports"]
  /\ UNCHANGED <<vars, again, head>>

\* deriveEvent: matchGames, the winner of the materialised games.
ReadGames ==
  /\ build.pc = "games"
  /\ LET w == games[build.match]
     IN build' = [build EXCEPT !.pc = "reports",
                               !.winner = IF w = NoClaim THEN NoWinner ELSE WinnerOf[w]]
  /\ UNCHANGED <<vars, again, head>>

\* deriveEvent: reportsForMatch and getCharacter.  Without a winner from the
\* games, the winner the first report on file claims.
ReadReports ==
  /\ build.pc = "reports"
  /\ LET m == build.match
         winner == IF build.winner # NoWinner THEN build.winner
                   ELSE IF FiledFor(m, Len(log)) = {} THEN NoWinner
                   ELSE WinnerOf[FirstReport(m).body.claim]
         event == [match |-> m, seq |-> build.seq, winner |-> winner]
     IN build' = [build EXCEPT !.pc = "derive",
                               !.match = NoMatch, !.seq = 0, !.winner = NoWinner,
                               !.events = IF RankedDuel(m) THEN @ \union {event} ELSE @]
  /\ UNCHANGED <<vars, again, head>>

\* replay throws on an event it finds invalid, eligible or not, and the build
\* is rejected.  Neither the timer nor the boot sequence minds.
Reject ==
  /\ build.pc = "derive" /\ build.todo = {} /\ build.bad
  /\ Settle
  /\ UNCHANGED <<vars, head>>

\* Mutant of Commit: publishes without comparing revisions.
CommitAnyway ==
  /\ build.pc = "derive" /\ build.todo = {} /\ ~build.bad
  /\ head' = [rev |-> rev, events |-> build.events]
  /\ build' = [build EXCEPT !.pc = "mark", !.todo = {e.match : e \in build.events}]
  /\ UNCHANGED <<vars, again>>

\* Mutant of Commit: marks the matches even when the commit was refused.
CommitAndMark ==
  /\ build.pc = "derive" /\ build.todo = {} /\ ~build.bad
  /\ head' = IF build.rev = rev THEN [rev |-> rev, events |-> build.events] ELSE head
  /\ build' = [build EXCEPT !.pc = "mark", !.todo = {e.match : e \in build.events}]
  /\ UNCHANGED <<vars, again>>

\* commit_rating_generation publishes if the revision is the one that was read.
\* A first build that comes too late is redone at once, a second one gives up.
Commit ==
  /\ build.pc = "derive" /\ build.todo = {} /\ ~build.bad
  /\ \/ /\ build.rev = rev
        /\ head' = [rev |-> rev, events |-> build.events]
        /\ build' = [build EXCEPT !.pc = "mark", !.todo = {e.match : e \in build.events}]
        /\ UNCHANGED again
     \/ /\ build.rev # rev /\ ~build.retry
        /\ build' = Fresh(build.boot, TRUE)
        /\ UNCHANGED <<again, head>>
     \/ /\ build.rev # rev /\ build.retry
        /\ Settle
        /\ UNCHANGED head
  /\ UNCHANGED vars

\* The published build sets rating = "applied", one match after the other.
Mark(m) ==
  /\ build.pc = "mark" /\ m \in build.todo
  /\ SetMatch(m, [matches[m] EXCEPT !.rating = "applied"])
  /\ build' = [build EXCEPT !.todo = @ \ {m}]
  /\ UNCHANGED <<tier, contract, games, log, receipts, rev, timer, req, again, head>>

Finish ==
  /\ build.pc = "mark" /\ build.todo = {}
  /\ Settle
  /\ UNCHANGED <<vars, head>>

-----------------------------------------------------------------------------
\* A step of a request.  The port opens when the boot build is over.
Handle(r) == Step(r) /\ UNCHANGED <<build, again, head>>
Accept(r) == ~build.boot /\ Begin(r) /\ UNCHANGED <<build, again, head>>
Answer(r) == End(r) /\ UNCHANGED <<build, again, head>>
SignUp(c) == ~build.boot /\ Register(c) /\ UNCHANGED <<build, again, head>>
CheckIn(c) == Witness(c) /\ UNCHANGED <<build, again, head>>

\* The process exits and is started again: the boot build is the first thing
\* it does, and the published generation is still there.
Restart ==
  /\ Crash \/ \E r \in Request : InsertRaces(r) \/ GamesRace(r)
  /\ build' = Fresh(TRUE, FALSE)
  /\ again' = FALSE
  /\ UNCHANGED head

Rebuild ==
  \/ ReadRevision \/ ListMatches \/ ReadGames \/ ReadReports \/ Reject \/ Commit \/ Finish
  \/ \E m \in Match : ReadRow(m) \/ Mark(m)

GenNext ==
  \/ \E r \in Request : Accept(r) \/ Handle(r) \/ Answer(r)
  \/ \E c \in Character : SignUp(c) \/ CheckIn(c)
  \/ Fire \/ Regenerate \/ Rebuild
  \/ Restart

GenSpec == GenInit /\ [][GenNext]_genVars

\* Node runs whatever is ready: handlers and builds get their answers from the
\* database, timers expire, and an envelope has a last report.
GenFairness ==
  /\ WF_genVars(Rebuild)
  /\ WF_genVars(Fire)
  /\ \A r \in Request : WF_genVars(Handle(r) /\ ~At(r, "next")) /\ SF_genVars(Answer(r))

FairGenSpec == GenSpec /\ GenFairness

-----------------------------------------------------------------------------
(***************************************************************************)
(* Properties                                                              *)
(***************************************************************************)

\* Everything the ladder shows counts for good reason: the events of the
\* published generation, and of the one being built, are of ranked matches
\* that two participants agree on, in the order of their receipts.
PublishedBacked ==
  \A e \in head.events \union build.events :
    Supported(e.match) /\ e.seq = matches[e.match].receipt

\* The winner the ladder credits is the one both participants named, whenever
\* the games they agree on have a winner.
PublishedWinner ==
  \A e \in head.events : \E w \in Claim :
    AgreedOn(e.match, w) /\ (WinnerOf[w] # NoWinner => e.winner = WinnerOf[w])

\* A generation is complete up to its revision: when it is published, every
\* match that counts is in it, but one whose handler has yet to bump the
\* revision, which makes the next build late (docs/09 "retry/schedule next
\* generation instead of publishing").
PublishedComplete ==
  [][head' # head =>
       \A m \in Match :
         Eligible(m) /\ ~(\E r \in Request : At(r, "bump") /\ Session(r) = m) =>
           \E e \in head'.events : e.match = m]_genVars

\* A match marked as applied is in the generation the ladder shows, for as long
\* as it counts: a report under another contract hash disputes a settled match,
\* and the next build drops it while the mark stays.
AppliedIsCounted ==
  \A m \in Match : matches[m].rating = "applied" /\ Countable(matches[m]) => m \in Counted

\* A counting match is published in the end, however many builds come too
\* late and give up, unless it stops counting.
EventuallyCounted == \A m \in Match : Eligible(m) ~> (m \in Counted \/ ~Eligible(m))

-----------------------------------------------------------------------------
(***************************************************************************)
(* The inductive invariant behind the theorems of GenerationProofs.        *)
(***************************************************************************)

\* A corroborated match, or one about to be, has its games materialised.
GamesWritten ==
  /\ \A m \in Match : matches[m].evidence = "corroborated" => games[m] # NoClaim
  /\ \A r \in Request :
       At(r, "write") /\ EvidenceOf(Session(r), req[r].seen) = "corroborated" =>
         games[Session(r)] # NoClaim

\* What PublishedBacked and PublishedWinner say of one event.
EventBacked(e) ==
  /\ Supported(e.match) /\ e.seq = matches[e.match].receipt
  /\ \E w \in Claim :
       AgreedOn(e.match, w) /\ (WinnerOf[w] # NoWinner => e.winner = WinnerOf[w])

\* What the build knows between two of its reads.
BuildInv ==
  /\ build.rev <= rev
  /\ build.pc \notin {"games", "reports"} => build.match = NoMatch
  /\ build.pc \in {"games", "reports"} =>
       /\ build.match \in Match /\ Supported(build.match)
       /\ build.seq = matches[build.match].receipt /\ games[build.match] # NoClaim
  /\ build.pc = "reports" =>
       \E w \in Claim : AgreedOn(build.match, w) /\ build.winner = WinnerOf[w]
  /\ build.pc = "mark" => build.events = head.events /\ build.todo \subseteq Counted

\* The matches a build has derived, is deriving or has still to derive.
Covered == build.todo \union {build.match} \union {e.match : e \in build.events}

\* A build that derives misses only matches that began to count after it read
\* the revision: a handler has bumped the revision since, or is about to.
NothingMissed ==
  build.pc \in {"derive", "games", "reports"} =>
    \A m \in Match : Countable(matches[m]) /\ m \notin Covered =>
      /\ matches[m].rating = "pending"
      /\ build.rev < rev \/ \E r \in Request : At(r, "bump") /\ Session(r) = m

\* Ingestion keeps its own invariant, the build knows what it read, and every
\* event, published or collected, is backed by the reports.
GenInv ==
  /\ IngestInv
  /\ GenTypeOK
  /\ GamesWritten
  /\ \A e \in head.events \union build.events : EventBacked(e)
  /\ BuildInv
  /\ NothingMissed
  /\ AppliedIsCounted
=============================================================================
