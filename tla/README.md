# Azeroth Combat League: specification

TLA+ models of the Azeroth Combat League, the TLC configurations that check
them on small instances, and machine-checked (TLAPS) theorems about them.
Paths below are relative to the repository's `src/`; `server/` abbreviates
`packages/server/src/`, `uploader/` abbreviates `apps/uploader/src/`.

    tlc -config Ingest_race.cfg MCIngest        # any run of the table below
    tlapm IngestProofs.tla                      # all proofs of a component

Contents: 1 the system; 2 the modules; 3 the correspondence with the code;
4 the runs; 5 fairness; 6 the proofs; 7 disagreements found; 8 what else the
models show; 9 what is left out; 10 plan.

## 1. The system

Two players of a game duel each other. The addon in each game client agrees a
*contract* with the other one, observes the games and writes a *report* to
disk. A *companion* process on each machine reads the reports and uploads them.
The *server* decides whether two independent reports agree, and replays all
agreed matches into a rating *generation* that the web site and the addons show.

    addon A <-- whispers --> addon B
      | SavedVariables         |            Data/Inbound.lua
      v                        v                  ^
    companion A            companion B  ----------+
      | POST /v1/reports/batch |                  | GET addon update
      v                        v                  |
    HTTP API --> ingestEnvelope --> store (Postgres) <-- GenerationRunner
      ^              |  schedule(season)  ------------------^
      | pairing, sign-in, events
    companions, browsers

### Components

| Component | State it keeps | Operations | Modelled |
|---|---|---|---|
| Report ingestion and reconciliation (`server/ingest.ts`) | none of its own; tables `match_contracts`, `matches`, `match_games`, `match_reports`, the receipt sequence | `ingestEnvelope`, `reconcileMatch` | `Ingest` |
| Rating generations (`server/generation.ts`, `server/replay.ts`) | debounce timers, builds in flight, queued follow-ups; `season_projection_heads` | `schedule`, `runNow`, `buildOnce`, `buildGeneration`, `deriveEvent`, boot build | `Generation` |
| Rating arithmetic (`packages/rating`) | none | Elo delta, pair weight in a rolling week, replay | `Rating` |
| Read model (`server/reads.ts`, `PgReadModel`) | none | leaderboard, player page, rivals, match cards, ladder block | `Boards` |
| Device pairing (`server/api.ts`, `server/pg.ts`, `uploader/pairing.ts`) | pair requests, device rows, the credential file | start, poll, approve, revoke | `Pairing` |
| Accounts and sessions (`server/pg.ts`, `server/api.ts`) | the validator's cache, profiles, accounts, characters | validate, provision, `me`, register a character | `Accounts` |
| Event board (`server/api.ts`, `PgEventBoard`) | events, registrations, staff | list, create, sign up, designate | `EventBoard` |
| Addon updates (`server/snapshot.ts`, `uploader/service.ts`, `Sync/Import.lua`) | snapshot counter, `Inbound.lua`, the addon's database | build, stage, import | `Updates` |
| Companion spool and service (`uploader/service.ts`, `spool.ts`) | spool entries on disk, acknowledged nonces, an `uploading` guard | watch, spool, upload, retry, quarantine, restart | `Companion` |
| Companion commands (`uploader/cli.ts`, `lifecycle.ts`) | the phase of a session | run, run `--with-wow`, `--once`, play | `Lifecycle` |
| Addon outbox (`Sync/Outbox.lua`, `Export.lua`) | report records in memory and in the file | enqueue, receipt, trim, flush | `Outbox` |
| Rate limiter (`server/ratelimit.ts`, `contracts/frames.ts`) | hits per key; a token bucket | sliding window, sweep, take | `RateLimit` |
| Frames (`packages/contracts/src/frames.ts`) | reassemblies | chunk, push, sweep | `Frames` |
| Formats (`packages/contracts`) | none | canonical JSON, deflate, base64url, validators | `Codec`, `Envelope`; validators as sets of valid documents |
| Postgres store, in-memory store, HTTP API, server process, SQL functions | the tables; requests in flight | each method and route that changes state | inside the modules above |
| Addon match session, detection and rules; companion installation; web site | - | - | no (section 9) |

### How they interact, and what is hard

*Calls between awaits.* The server is one Node process, so a component's code
runs undisturbed between two `await`s and every store call is an await. Two
handlers, a build and an admin request interleave at every one of them. No
handler takes a lock; Postgres serialises single statements and short
transactions only. What a handler read (reports, a lifecycle, a count of seats,
the consumed mark of a pairing code) is old when it writes.

*Crashes.* `startServer` calls `handleRequest` without catching: a store call
that throws rejects the promise and Node ends the process. Rows that are
committed stay; handlers, caches and the debounce timer are gone. The first
thing a started server does is a build.

*Retries and duplicates.* Companions resend whole batches, a report nonce is
stored once per account and installation, and a duplicate is answered without
touching the match.

*A revision in place of a lock.* Handlers bump `input_revision` after they wrote
a match. A build remembers the revision before it reads, and the commit function
refuses it if the revision moved. A refused build is redone once, then given up.

*A guard that is set too late.* `flushQueue` looks at `uploading`, awaits the
credential, and only then sets it. The final sweep and a poll, or two polls, can
both pass it: they upload the same spool entries, each ends with its own verdict
on the entry, and the first to finish takes the guard down for both.

*Files between processes.* Reports travel from the addon to the companion in a
file that the game writes only at a reload or a logout, and the spool survives
the companion while its acknowledged nonces and its guard do not. On the way
back one staged file is overwritten by whichever call finishes last, and is
imported some time later.

*Tables read one after the other.* An update bundle, a page and a build put
together rows that were read at different moments.

*Two stores.* Most server routes have a Postgres and an in-memory version with
different statements, and hence different races.

What makes each part correct:

- ingestion: a nonce counts once; one-sided evidence never counts; games are
  what both sides claimed first; receipt numbers are unique and permanent; a
  verdict never turns into its opposite; and agreement on file is recorded;
- generations: everything published is backed by two agreeing participants; a
  published generation misses nothing that its revision covers; the winner is
  the one both named; what is marked applied is published; a counting match is
  published eventually;
- outbox, companion and its commands: nothing is acknowledged, and nothing
  leaves the file, that the server has not read; no upload is left without a
  call that ends it; what is saved is read by the server eventually; the end of
  a session comes to rest;
- pairing: a credential is what an owner approved, one per code, dead for good
  once revoked; the companion's copy works; the command ends;
- accounts and events: one account per user; a sign-out is obeyed soon; races
  over names and seats cost no more than the handlers in flight; what a request
  was told is in the tables;
- updates: what the addon calls acknowledged is corroborated; it shows one
  recent moment and never goes back; it catches up;
- algorithms: a pair cannot farm points; replay does not depend on the order of
  its input; pages agree with each other; the limiter holds its limits; a
  reassembled message is one that was sent; what is written is read back.

`PROJECT.json` lists the hazards one by one, each at its line.

## 2. Modules

| Module | Role |
|---|---|
| `EvidenceLog` | Abstract: what ingestion promises about evidence. Sessions bound to one contract for good, an append-only set of accepted reports, numbers given once, results that two participants claimed. No handlers, no crashes. |
| `Ingest` | `ingestEnvelope` and `reconcileMatch`, one action per awaited store call, any number of concurrent handlers. Its properties, its inductive invariant `IngestInv`, the one behind `Settled` (`SettledInv`), and the refinement mapping `Evidences` to `EvidenceLog`. |
| `Generation` | EXTENDS `Ingest`: the same handlers together with the debounce timer, the `GenerationRunner`, `buildGeneration` read by read, the commit, the applied marks, process restart and the boot build. Its inductive invariant is `GenInv`. |
| `Outbox` | The addon's report records, in memory and in the SavedVariables file: enqueue, receipt, trim and reload, logout, crash of the game. |
| `Companion` | EXTENDS `Outbox`: polls, the spool, overlapping calls of `flushQueue`, lost answers, refusals, backoff, pause, pairing, restart. Its inductive invariant is `CompanionInv`. |
| `Lifecycle` | EXTENDS `Companion`: the four commands around the service and the game they follow. Implements `Companion`. |
| `Pairing` | The pairing routes over either store, one step per await, and the companion's two commands. Its inductive invariant is `PairInv`. |
| `Accounts` | Session validation with its cache, provisioning, sign-out, registering characters, over either store. |
| `EventBoard` | EXTENDS `Accounts`: the same requests on the routes of the event board. The inductive invariant of both is `SiteInv`. |
| `Updates` | A bundle from the server's tables through the staged file into the addon's database. Its inductive invariant is `UpdInv`. |
| `Rating` | `replay`: a stable sort of the events by moment and receipt, then one pass over them; and the ladder rows made of the ledger. |
| `Boards` | EXTENDS `Rating`: events from settled matches, ladders, and the read model as each store computes it. |
| `RateLimit`, `Frames` | The limiter and the token bucket (`LimitInv`); chunking and reassembly (`FramesInv`). |
| `Envelope` | Stored blocks and base64url, and an envelope that loses its end on the way. |
| `Codec` | EXTENDS `Envelope`: canonical JSON, its writer and its reader, and texts that are tampered with. |
| `IngestProofs`, `PairingProofs`, `UpdatesProofs` | Theorems about the module of that name. |
| `CompanionProofs` | Theorems about `Companion` and `Lifecycle`, which implements it. |
| `GenerationProofs` | EXTENDS `Generation` and `IngestProofs`, whose step lemmas it uses for the handlers. |
| `SiteProofs` | Theorems about `Accounts` and `EventBoard`, which share their requests. |
| `BoardsProofs` | Theorems about `Rating` and `Boards`. |
| `LibraryProofs` | Theorems about `RateLimit`, `Frames` and `Envelope`. |
| `MCIngest`, `MCGeneration`, `MCCompanion`, `MCLifecycle`, `MCPairing`, `MCSite`, `MCUpdates`, `MCLibrary` | Instances for TLC. `MCSite` instantiates `EventBoard`; `MCLibrary` puts the algorithm modules side by side. |

`Codec` has RECURSIVE operators and is used by TLC's runs only; `Envelope`, which
is proved about, has recursive functions in their place.

## 3. Correspondence with the code

### `Ingest`

| Variable | Code |
|---|---|
| `tier` | `characters.verification_tier`; `"none"`: no row |
| `contract` | `match_contracts`, one document per session |
| `matches` | `matches.lifecycle`, `evidence`, `rating`, `receipt_seq` |
| `games` | `match_games`, the winner list |
| `log` | `match_reports` of all sessions, in the order of `received_at` |
| `receipts` | the sequence `matches_receipt_seq` |
| `rev` | `season_projection_heads.input_revision` |
| `timer` | the season's entry of `GenerationRunner.timers` |
| `req` | per handler: the next call (`pc`), the token's account and installation, the report and contract in hand, and what `reconcileMatch` has read (`seen`, `life`, `ok`) |

One report goes through these steps; each is what runs from one awaited store
call to the next:

    Begin        POST /v1/reports/batch is authenticated     api.ts:505
    Take         next report of the envelope                 ingest.ts:158
    Resolve      getContract: unknown, same hash, other      ingest.ts:171
    OpenMatch    insertContractWithMatch                     ingest.ts:184
    Quarantine   setMatchState(disputed), item rejected      ingest.ts:203
    File         insertReport, duplicate, rejected           ingest.ts:211
    AssignReceipt                                            pg.ts:180
    ReadMatch    getMatch, getContract, reportsForMatch      ingest.ts:76
    ReadTiers    getCharacter of the participants            ingest.ts:111
    WriteGames   setMatchGames                               ingest.ts:119
    WriteState   setMatchState                               ingest.ts:130
    Bump         bumpInputRevision                           ingest.ts:244
    End          schedule, answer                            api.ts:533

`InsertRaces` and `GamesRace` are the two places where a Postgres constraint
turns a race into an exception, and hence into the end of the process; `Crash`
is any other end of it. `Register` and `Witness` change the tier of a character
while handlers run.

Abstractions: a contract document *is* its hash; a report body *is* its digest;
a claim is the list of winners of a report (`outcomesAgree` compares just
that); reads of rows that never change once written (ownership, participants)
are joined to the next step; `getMatch` and `reportsForMatch` of
`reconcileMatch` are one step, which is the same to the handler because a
report that finished the match between the two is among those it reads. The
log orders reports by commit (the database orders them by the start of the
transaction; see section 9). Foreign keys and other refused statements are
covered by `Crash`.

### `Generation`

`build` is the build in flight: which call is next, whether it is the boot
build or the second try, the revision it read, the matches left, the event
being derived, and the events so far. `again` is `queued`; `head` is the
published pointer together with the events that its generation counts. Ratings
are a function of those events, so the set stands for them. Only one build runs
(`inFlight`), and one season exists.

`Fire` is the timer, `Regenerate` the admin route, `ReadRevision` to `Finish`
are `buildGeneration`, `Reject` is a replay that throws, `Settle` is what
`exec` does when a build ends either way. `Restart` is `Exit` of `Ingest`
followed by the boot build; requests are accepted when that build is over.
`WinnerOf` abstracts the series count over a winner list, and `Mismatched` is
the set of contracts on which `validateEvent` throws.

### `Outbox` and `Companion`

| Variable | Code |
|---|---|
| `reports`, `disk` | the status of each record of `db.reports` in the game's memory and in the file; `"none"`: no record |
| `received` | the reports the server has read and given a verdict on |
| `spool` | the status of each `SpoolEntry`, which memory and disk agree on; `"backoff"` is `pending` with `nextAttemptAtMs` ahead |
| `acked`, `uploading`, `paused` | `Spool.acked`, `CompanionService.uploading`, `config.paused` |
| `paired` | the credential store returns a credential |
| `task` | per call of `onStableFile` or `flushQueue`: where it is suspended, `due`, and the entry being uploaded |

    Enqueue, ApplyReceipt        Outbox.lua:15, 37
    FlushNow                     Export.lua:115: trim, mark saved, reload
    Scan                         service.ts:140 up to the credential lookup
    Flush                        service.ts:174, the same without a scan
    Quiet                        nothing due or no credential  service.ts:177
    Upload                       markUploading, request        service.ts:194
    Receive, Acknowledge         the server reads; markDone    service.ts:197
    GiveUp                       transient or auth, break      service.ts:208
    Quarantine, Garbled          permanent, other; continue    service.ts:220
    Drained                      the finally                   service.ts:234
    Elapse                       nextAttemptAtMs passes        spool.ts:92
    Restart                      Spool.load                    spool.ts:39

Abstractions: a report is its nonce, a batch the set of its nonces (the digest
of an entry also covers the contracts, so the code may hold several entries with
the same nonces); entries and trims are taken in any order; a body is too large
when it holds more than `MaxBody` reports; a verdict of the server on a single
report does not matter to the companion, so `received` stands for all of them;
fetching the update bundle and the pause between batches are the suspension
`"between"`. Between a logout and the next login `reports` and `disk` agree, so
the login is no action of its own.


### `Lifecycle`

| Variable | Code |
|---|---|
| `game`, `file` | the game's process; a SavedVariables file exists |
| `listed` | `CompanionService.files` has that file |
| `mode` | the command given; `"stopping"` after an interrupt of `run --with-wow` |
| `life` | where `runWithWow` or `play` is: waiting for the game, watching, in the grace period after it closed, in the sweep, in the drain, leaving |

The task `Drainer` is the call that the end of a session awaits; the watcher's
polls run in the other tasks and may overlap it. `Stop` and `Leave` are
`process.exit` or the end of the event loop, and are followed by what a start
finds on disk, `Restart` of `Companion`. A session shorter than the probe, or one
that begins and ends during a drain, is simply never seen: `GameUp` is one of
several steps that may come next. An interrupt only sets a flag, which the loop
looks at after its sleep and its probe, so a game may still be taken up after it.

### `Pairing`

| Variable | Code |
|---|---|
| `backend` | `PgAuthStore` or `InMemoryAuthStore` |
| `pairs`, `expired` | `pair_requests` and its `expires_at` |
| `devices` | `installations` (Postgres: a row per installation) or the device map (memory: one per token) |
| `minted`, `killed` | history: tokens minted for each code; tokens whose revocation found a row |
| `call` | the handlers of the four routes, between two awaits |
| `comp`, `cred` | the companion's `pair` or `revoke` command, and `credential.json` |

`Die` of a handler is a client that is gone or a query that failed; when the
process exits, as it does on a failed query, every handler dies (the run has one
fault, the theorems any number).

A code and its user code are one value, and a token is named by the code it was
minted for; codes are random in the source and do not collide here.

### `Accounts` and `EventBoard`

`req` holds the requests in flight (`Authenticate` to `AnswerMe` are
`SupabaseSessionValidator.getSession`: the cache, the answer of Supabase Auth,
the profile, the account, the winner's row when two provision at once; `Outage`
is any call of these that fails, which `getSession` catches), `cache` its cache
with the deadline of each entry, `valid` and `signedOut` the sessions at
Supabase Auth. The clock ticks in half minutes: a positive entry lives for two,
a negative one for one. `profiles`, `accounts`, `characters`, `events`, `seats`
and `staff` are the tables; `answers` is what clients were told. Each statement
on Postgres is a step, a whole in-memory method is one. A query of a route that
fails is caught by nothing: `Die` is the exit of the process, with every
handler and the cache (`serve.ts:465`). `failures` counts the exits, which the
instance bounds, and `cut` remembers the events whose organizer's row an exit
prevented. `Workload` is what a behaviour may begin with: any requests, any
users with an account, and characters that are numbered from one and do not
share a name.

### `Updates`

`history` is the sequence of states of the server's tables; the last one is now.
`sync` is the bundle each call of `writeInbound` is waiting for, with the moment
its number was drawn, `staged` is `Data/Inbound.lua`, `db` and `saved` are the
addon's database in memory and in the file. `DrawNumber`, `ReadRows`, `Label`,
`ReadReceipts` are the reads of `snapshot.ts` and `Stage` the replacement of the
file; `Reload` loads, imports and saves, `CrashGame` loses what was not saved.
Sequence numbers are only compared, so they are kept as ranks.

### `Rating` and `Boards`

`Replay` is the pass that `replay` makes over the events (`Rate` is one turn of
its loop): weight of the pair by the events of the last seven days, `Gain` in
milli-ratings rounded away from zero, a ladder key per class for mirrors. The
events are first sorted by the moment they were seen and, at one moment, by
receipt. `Sorted` gives event i the place after all that come before it
(`Earlier`), equals in the order of the input, as the code's stable sort does.
The logistic curve is a constant table in which the scores of two players add
up to one, and which stays the same for a lead beyond `Clamp`, both as in the
code (`rating.ts:57`). Weights are in quarters. `Boards` derives the events
from settled matches, as `deriveEvent` does: `SeriesWinner` is the winner of
the agreed games or, when they leave the series open, of the first report on
file, whoever sent it (`first`); a winner other than the first player counts as
the second. A match may have games without a verdict, since a handler that has
read less may write its state last. Each page is computed the way `reads.ts`
and the way `PgReadModel` does. A row of the leaderboard stands at the rank of
the number of rows above it.

### `RateLimit`, `Frames`, `Envelope`, `Codec`

`hits` says which of a key's calls let through the limiter remembers (its map
holds their times), `Swept` is the sweep that `check` begins with. `assemblies`
is the map of the `Reassembler`, a chunk is its message and place; `arrived` counts
deliveries, so frames are lost, doubled and reordered. `size` is the length of
a body and of its sequence number, for the arithmetic of `chunkMessage` with
its probe. Messages are records with a sender, an id, a number of chunks and a
body: two may have the first three in common (`Alike`), and an assembly does
not tell them apart. In `Codec` a text is a sequence of tokens, a value a
record with one field; `Written` is the writer, `Writable` says what it throws
at, `ReadValue` is the reader with its limits. In `Envelope`,
`Stored`/`Inflated` and `Encoded`/`Decoded` are the two byte codecs: the loop
over blocks is a recursive function of the bytes that are left, the shifts and
masks of base64url are division and remainder, and a group of three bytes is
one number. `Inflated` is `inflateRawStored`, which the addon's inflater
mirrors; the server reads the same blocks with a library. `Cut` takes a symbol
off the end of an envelope.

## 4. Runs

Every bound is a constant of the instance; there are no state constraints.
Deadlock is checked in the `ingest`, `generation`, `companion` and `lifecycle`
runs (a server can always be sent another report, a player can always play). In
`pairing`, `site`, `updates` and `library` it is not: there the work is finite
(codes, requests and changes to the tables run out, frames and texts end), and
a behaviour that has done it all stops.

| Run | Instance | What it shows |
|---|---|---|
| `ingest_race` | 2 handlers, 1 duel, 2 contract documents, 5 reports, crashes | The safety properties of one match, a final receipt number, and the refinement of `EvidenceLog`, with every interleaving of two handlers |
| `ingest_sequential` | 1 handler, 2 sessions (one of them between two characters of one account), an onlooker, registration and check-in during the run | Without races and crashes agreement is always recorded (`Settled`) |
| `ingest_lost_race` | 2 handlers, 2 reports, and nothing that ends the process (`QuietSpec` of `MCIngest`) | `Settled` fails: section 7 |
| `generation_race` | 2 handlers, 1 match, builds, admin requests, restarts | Published events are backed, and a commit misses nothing that has been bumped |
| `generation_live` | 1 handler, 1 match, an onlooker, a late check-in, a report under a second contract, builds that are rejected or come too late, fairness | The published winner is the one both named; applied matches are counted; a counting match is published in the end |
| `generation_mirror` | 1 handler, a duel and an unranked mirror match, fairness | `EventuallyCounted` fails: section 7 |
| `companion_spool` | 2 calls, 2 reports, retention 1, one report fits in a body | Nothing unread is acknowledged or leaves the file, and uploads have owners |
| `lifecycle` | all commands, 1 report, the drainer and one other call, kills, fairness | A saved report is read in the end; a session comes to rest |
| `pairing` | 1 installation, 2 codes, 2 accounts, 2 handlers, 2 credentials per code, one fault (lost answer or dead handler), either store, fairness | Credentials are approved, single, revocable for good and good to use; approvals stand; the command ends |
| `site` | 2 handlers, 7 sets of requests, 3 users with 4 tokens, 2 events of one seat, two exits of the process, either store | Accounts, sign-outs, names, seats, staff |
| `updates` | 2 calls, 2 installations, 1 nonce each, 1 ladder row in 2 generations, 2 changes of the tables, a first page of 1 receipt, fairness | Genuine acknowledgements; one recent moment; labels; catching up |
| `library` | 11 matches on shelves of up to 4; 2 limiter keys over 6 ticks; 6 messages of two senders, ids used again with as many chunks and with fewer; all message lengths up to the limit; 10 values, two of which cannot be written, texts tampered with twice, 5 payloads | The algorithms against their reference definitions |

The larger ones have half a million (`generation_live`, `pairing`) to two
million states (`ingest_race`) and take up to about two minutes each with two
workers.

Why these bounds. Two handlers are what the pairwise races need: every conflict
in the code is between one stale writer and one other. Two claims are enough
for agreement and contradiction, since `outcomesAgree` only compares. Two
accounts per match are all a contract has; a third account is the onlooker
that `originsByAccount` must ignore, and a session between two characters of
one account is the case `distinctAccounts` excludes. Two sessions make receipt
order and cross-session nonces matter; a second match is what a build can miss.
`ingest_sequential` is limited to one handler because `Settled` does not hold
with two (section 7), and `generation_live` because liveness with two handlers
and builds is too large; its invariants are proved for any number of them.

Two reports give the companion entries that overlap and one that contains the
other, and a body of one makes the larger entry inadmissible; two calls are what
can pass the guard together (a third only repeats them); retention 1 makes a
trim choose. `lifecycle` has one report, because two with two calls have
millions of states without the symmetry that liveness forbids.

A second code is what an installation pairs again with; a second credential per
code is what `SingleUse` denies; one fault suffices because a command does not
retry. The workloads of `site` name the races one by one: first sign-ins of
users who share a display name, one of them with two tokens; one token over
time; one name wanted three times; signups for one seat, twice by one account;
listings; two events with staff. Two exits can leave
both of these events unstaffed. Two changes of the tables and two generations
are what a bundle's reads can be torn by, and a first page of one receipt with
two on file is what a cursor would be for.

In `library` the pool of matches holds every kind once: two series at one
moment, one a week later, a disputed, an unranked, an unfinished and a mirror
series, one that is rated although both sides say a third character won it, one
nobody won that an onlooker's first report credits to a third character, one that
was agreed on and then written back to awaiting. Every shelf of up
to four of them, in every order, is a state. Pages are cut at three rows in
place of 100, at most three rivals are listed, texts nest three deep in place of 16. A sender has two assemblies and three ids under
way, so the limit on assemblies is met; four chunks can come of two messages of
one id, and a fifth frame of a third.

Every property of a passing run has a mutant in `PROJECT.json`: a plausible bug
of the code, written next to the definition it replaces and marked `Mutant of`,
that makes the run fail.

## 5. Fairness

`FairGenSpec` is used by `generation_live` and `generation_mirror`.

- `WF(Rebuild)`: a build whose store call is answered goes on.
- `WF(Fire)`: an armed timer expires. `schedule` clears and re-arms the timer on
  every call, so a stream of batches that never pauses for the debounce time
  would postpone it for ever. The finite set of reports of an instance rules
  that out; under such a stream the real server would not publish.
- `WF(Handle(r) /\ ~At(r, "next"))`: a handler whose store call is answered goes
  on. Nothing makes a companion send another report, so `Take` is not fair.
- `SF(Answer(r))`: an envelope has a last report. Strong, because `Take` of
  further reports disables and re-enables it; the code's loop is over a finite
  array.

Nothing is assumed of `Begin`, `Register`, `Witness`, `Regenerate` or `Crash`.
`generation_live` has no crashes: a server that restarts for ever publishes
nothing.

`FairLifecycleSpec` is used by `lifecycle`.

- `WF(GameUp \/ GameDown \/ Sweep \/ Drain \/ Stop \/ Leave)`: the loop of
  `runWithWow` goes on. The probe is a timer, the rest follows an await.
- `SF(Poll)`: `SvWatcher` polls on a timer and calls `onStable` again and again
  for a file that does not change. Strong, because a call in progress disables
  it.
- `WF(Continue(t))`: a call goes on. A request that never gets an answer is
  ended by the timeouts of `fetch` itself; the code sets none.
- `WF(Elapse(S))`, `SF(Upload(S))`, `SF(Receive \/ Quarantine)` of each entry: a
  backoff ends; an entry that is due again and again is tried; the network and
  the server do not fail every request of an entry for ever.

`PlayedIsReceived` assumes besides that the companion keeps its credential, is
not paused for ever, and is watching the listed file again and again; nothing
makes the player start it. `SessionEnds` needs none of that.

`FairPairSpec` is used by `pairing`: handlers run on, an answer is received, the
polling loop's timer fires, and time passes for every code. Nobody has to
approve; handlers that finish with no one waiting are forgotten.

`FairUpdSpec` is used by `updates`: a request goes on, answers are staged again
and again (`SF(Stage)`: not every one is lost), and the player logs in again.
The tables change finitely often, so `CaughtUp` says that the addon shows what
the server ends with.

`SiteSpec` and `LibraryNext` have no liveness properties, and no fairness.

## 6. The proofs

Every theorem below is for all values of the constants that satisfy the
assumptions named with it; the modules also state what each theorem means for
the code.

`IngestProofs` proves, with `IngestAssumption` (the types of the constants,
sentinels are no members) as the only assumption, for every number of handlers,
sessions, reports, accounts and crashes:

| Theorem | Statement |
|---|---|
| `IngestInvariant` | `Spec => []IngestInv` |
| `TypeCorrect` | `Spec => []TypeOK` |
| `NoOneSidedRating` | `Spec => []RatedOnlyWhenAgreed` |
| `NoUnfoundedHold` | `Spec => []HeldOnlyWhenContested` |
| `GamesFollowEvidence` | `Spec => []GamesAreAgreed` |
| `ReportsCountOnce` | `Spec => []OneRowPerNonce` |
| `ReceiptsDistinct` | `Spec => []ReceiptsUnique` |
| `ReceiptsPermanent` | `Spec => ReceiptImmutable` |
| `VerdictsPermanent` | `Spec => VerdictNeverFlips` |
| `AgreementIsRecorded` | `OneAtATime /\ Spec => []Settled` |
| `IngestRefinesEvidenceLog` | `Spec => ImplementsEvidenceLog` |

The argument. The safety of ingestion does not come from what a handler holds
being fresh, but from what it holds being *write-once*: a contract is inserted
once, the log only grows, a tier is never lowered, a receipt is never replaced.
A step that only does such things preserves whatever a stale handler
concluded. The first report of a participant account in a prefix of the log is
the first in the whole log, so agreement or contradiction of the two sides, once
seen, is final: this is the core lemma, and with it the writes of a stale
handler can only be *incomplete*, never *wrong*.

None of the safety properties is inductive on its own, because each speaks of
the tables and a handler writes them from its local variables. `IngestInv`
therefore adds `HandlerInv`: what a handler knows at each program point (the
bound contract is the one its report names, the rows it saw are a prefix of the
log, `ok` holds only of a ranked match of verified players that is
corroborated by what it saw), and two facts about rows (a session without a
contract has a fresh row; a receipt number is at most the sequence). Every
action has its lemma, with one step per disturbed conjunct. The action
properties and the refinement follow step by step from the same invariant; a
handler's table writes map to `Bind`, `Accept`, `GiveNumber` and `Decide`, all
other steps to stuttering.

`Settled` (agreement on file is recorded) fails as soon as two handlers overlap
or the process can die (section 7), so its theorem has a hypothesis on the
schedule: `OneAtATime`, there is one handler and no crash. It is met by
the run `ingest_sequential`, on which TLC checks `Settled` too. The invariant
`SettledInv` says what the lack of company buys: reports are filed on
bound sessions only, what the handler has read is still current (`Current`: the
rows it saw are all there are), and a match on whose log both sides
agree has it on record or is the one the handler is at work on (`OnRecord`). The
last part is what breaks with two handlers, where the match at work may be
written by the one that read less.

`CompanionProofs` needs no assumption on the constants at all:

| Theorem | Statement |
|---|---|
| `CompanionInvariant` | `CompanionSpec => []CompanionInv` |
| `NothingAcknowledgedUnread` | `CompanionSpec => []AckedIsReceived` |
| `NoOrphanedUpload` | `CompanionSpec => []WorkHasOwner` |
| `EvidenceIsKept` | `CompanionSpec => EvidenceKept` |

`WorkHasOwner` is inductive with the types: each step that leaves the loop
takes the guard down, and each that leaves an upload gives the entry another
status. `AckedIsReceived` needs `AnsweredIsReceived`, since `markDone` runs on a
batch that was sent some steps before, and the part that an entry is `done` only
if its nonces are acknowledged, since a restart rebuilds `acked` from the
entries. `EvidenceKept` needs `FileIsLoaded`: a trim happens in memory and
reaches the file later, possibly by a logout.

The same module has the theorems about `Lifecycle`, which use `LifecycleAssumption`
(the drainer is a call):

| Theorem | Statement |
|---|---|
| `LifecycleImplements` | `LifecycleSpec => CompanionSpec` |
| `LifecycleAcknowledges` | `LifecycleSpec => []AckedIsReceived` |
| `LifecycleOwnsUploads` | `LifecycleSpec => []WorkHasOwner` |
| `LifecycleKeepsEvidence` | `LifecycleSpec => EvidenceKept` |

`Lifecycle` shares the variables of `Companion`, so the refinement mapping is the
identity: each of its actions is one of the service's conjoined with conditions on
the process, or leaves the service alone. What was proved of the service then
holds under every command.

`PairingProofs` uses `PairingAssumption` (the sentinels are no members, the
bounds are numbers), for any number of accounts, installations, codes and
handlers, and either store:

| Theorem | Statement |
|---|---|
| `PairInvariant` | `PairSpec => []PairInv` |
| `PairingTypes` | `PairSpec => []PairTypeOK` |
| `CredentialIsApproved` | `PairSpec => []CredentialApproved` |
| `CodeUsedOnce` | `PairSpec => []SingleUse` |
| `RevokedForGood` | `PairSpec => []RevokeIsFinal` |
| `StoredCredentialIsGood` | `PairSpec => []StoredCredentialLives` |
| `ApprovalOnce` | `PairSpec => ApprovalIsFinal` |

Why `SingleUse` holds is not in the server: `consumed_at` is written one or two
awaits after it is read. It is that a code has one poll at most (`OnePoll`), because the
companion that was shown it waits for each answer and never sends a poll again
that failed; and once a token is minted, nobody waits with that code any more
(`Spent`). `RevokeIsFinal` then follows because a token on its way to the table
is new, that is neither stored nor revoked nor in a file (`New`), so saving it
cannot bring a revoked one back although Postgres un-revokes the row. A
token that came from the table is accepted, revoked or superseded (`Lives`); the
handler holds it before the file does, hence `Pledged` and `Held`. The common
part of every step is `Grow`: a code keeps its installation, its approval and
its token. 
`GenerationProofs` uses `IngestAssumption` and `GenerationAssumption` (each claim
has a winner or none; the sentinel is no match), for any number of
handlers beside the one build, with its follow-up, the timer and restarts:

| Theorem | Statement |
|---|---|
| `GenInvariant` | `GenSpec => []GenInv` |
| `GenTypeCorrect` | `GenSpec => []GenTypeOK` |
| `IngestInvariantServed` | `GenSpec => []IngestInv` |
| `LadderIsBacked` | `GenSpec => []PublishedBacked` |
| `LadderCreditsTheWinner` | `GenSpec => []PublishedWinner` |
| `AppliedIsPublished` | `GenSpec => []AppliedIsCounted` |
| `LadderIsComplete` | `GenSpec => PublishedComplete` |
| `ServerRefinesEvidenceLog` | `GenSpec => ImplementsEvidenceLog` |
| `VerdictsPermanentServed` | `GenSpec => VerdictNeverFlips` |

The handlers' steps keep `IngestInv` by the lemmas of `IngestProofs`; the build
writes nothing of theirs but the applied marks, which it sets on matches that
have counted. What the build published is *backed* because what
it read cannot be taken back: two participants who agreed stay agreed, and games
that were materialised name the winner they both claimed. That a match a build
takes up has games at all needs `GamesWritten`: a match is corroborated only
after its games are stored, and a handler that is about to write that verdict has
stored them. `BuildInv` carries each read to the next (the match in hand is
supported; the winner in hand is that of an agreed claim; what is still to be
marked is in the published head). *Completeness* rests on `NothingMissed`: while a
build derives, a counting match it does not cover began to count after the
build read the revision, hence is still `pending`, and its handler has bumped the
revision since or is about to. At the commit the revision is unchanged, so only the
latter remain: the exception that `PublishedComplete` names. The same part
gives `AppliedIsCounted`: a match the new head leaves out is not marked. That
a match has a first report, whose claim `deriveEvent` takes, is a least element of
a set of naturals (`LeastExists`), by the well-foundedness of `<`. `BoardsProofs` and
`LibraryProofs` use induction in the same form, as a least counterexample.

`SiteProofs` uses `AccountsAssumption`: users have candidate slugs,
an event has one request that creates it, a behaviour begins with numbered
characters of distinct names, handlers are finite in number. Over either store:

| Theorem | Statement |
|---|---|
| `SiteInvariant` | `SiteSpec => []SiteInv` |
| `SiteTypeCorrect` | `SiteSpec => []SiteTypeOK` |
| `OneAccount` | `SiteSpec => []OneAccountPerUser` |
| `SignedOut` | `SiteSpec => []SignedOutSoon` |
| `Races` | `SiteSpec => []RacesBounded` |
| `Seats` | `SiteSpec => []AnsweredSeat` |
| `Organizer` | `SiteSpec => []OrganizerIsStaff` |

`OneAccountPerUser` holds because an account is written once: whoever loses the
race of two first requests reads the winner's row. `SignedOutSoon` needs to know
when a vouched token was accepted: `SignInInv` says that it was at some
moment since its request came in, and `CacheInv` that an entry runs out a cache's
lifetime after such a moment, since the deadline is computed from the time of
the request and not from that of the answer. The bounds of `RacesBounded` are not inductive, since
an insert may come long after its test. `NameInv` and `CapInv` count the rows
*together with* the handlers that have tested and will insert: a
test that succeeds turns a free handler into an inserting one, an insert turns it
into a row, and neither raises the sum above the cap and the other handlers.
`StaffInv` says of each event without staff that its handler is between the two
inserts (`Due`) or that an exit of the process took it there (`cut`): no other
failure leaves one, because a query that fails anywhere else in the route finds
both rows or none. `SentOnce` is why a request in flight is answered by one
handler.

`UpdatesProofs` uses `UpdatesAssumption` (the bounds are numbers; what the verdicts
are; each generation has its rows), for any number of calls, nonces, rows,
generations and changes of the tables:

| Theorem | Statement |
|---|---|
| `UpdatesInvariant` | `UpdSpec => []UpdInv` |
| `UpdatesTypeCorrect` | `UpdSpec => []UpdTypeOK` |
| `AckGenuine` | `UpdSpec => []AckIsGenuine` |
| `DisplayRecent` | `UpdSpec => []DisplayIsRecent` |
| `LabelsNotBefore` | `UpdSpec => []LabelNotBefore` |

A bundle is put together while the tables change, so `UpdInv` says of each part at
which moment it was true: its rows are those of a generation published by the
read of the head and their label is read later (`RowsInv`), all its receipts are
of one moment since its number was drawn (`ReadOnce`). `StagedInv` and
`DatabaseInv`, the latter of both copies of the database, carry this through the
staged file, imports, saves and crashes of the game. `DisplayIsRecent` needs
`OrderInv`: numbers are ranks, and wherever they are kept they are in the order
of the moments they were drawn at, so an import that keeps the larger number
keeps the later moment. `HistoryInv` (what was on file stays) makes an
acknowledgement genuine now and not only when it was read.

`BoardsProofs` uses `RatingAssumption` (two players' expected scores add up to one;
each character has an account and a class) and `BoardsAssumption` (what a match row may be; ids and
receipts are unique), for any characters, any
pool of matches, any placement and any cap of the rivals:

| Theorem | Statement |
|---|---|
| `PairsAreCapped` | `BoardsSpec => []PairCap` |
| `ReplayIsOrderFree` | `BoardsSpec => []ReplayOrderFree` |
| `PagesTold` | `BoardsSpec => []PagesAgree` |

The invariant, `ShelfInv`, is small: the shelf is a sequence of rows of the pool, none
twice. All the work is in what the pages compute from it, and it comes down to
three arguments. *Ranks.* In a finite strict order each rank is taken by exactly one element
(`OneOfEachRank`), which says what `Sorted` and `Leaderboard` list. A replayable
list has no two events of one receipt, so moment and receipt order it strictly and
the place of an event does not depend on where the database put it, under any
permutation of its list; this is `ReplayOrderFree`. `RanksAbove` is such an order on the rows of a ladder, so
the leaderboard is sorted and misses nobody. *One pass after the other.* What
holds of the ledger of the first n events holds of the next: else there is a
least n at which it fails (`PassesExist`, `PassesKeep`). The invariant of the passes
says that an entry's weight is that of the entries of its pair in the week before
it. Of four entries with weight in a week, the last would have three before it and
no weight, which is `PairCap`. *Sums.* A record is the size of a set of series,
and those of the rivals split it, so their sums are equal (`SumOfParts`); a list of
rivals below its cap leaves none out (`NobodyLeftOut`). That a rated series which its games decide has the same
winner on its card is a count of games: with no more games than the length of the
series, whoever has the wins it needs leads (`WinnerLeads`). A series they do not
decide is scored by the first report on file, and nothing is said of its card.

`LibraryProofs` uses `RateLimitAssumption` (limits and windows are positive),
`FramesAssumption` (a message has between one and `MaxChunks` chunks), for `MessagesFit` alone
`TransportAssumption`, and for `EnvelopesOpen` alone `EnvelopeAssumption` (payloads
are bytes; a block has between one byte and 65535). They hold for any keys with
any limits and windows, any messages whatever ids their senders use, any loss, repetition and order of frames, and
payloads of any length:

| Theorem | Statement |
|---|---|
| `LimiterInvariant` | `LimitSpec => []LimitInv` |
| `LimitsHold` | `LimitSpec => []LimitHolds` |
| `FramesInvariant` | `FramesSpec => []FramesInv` |
| `BodiesAreWhole` | `FramesSpec => []DeliveredWhole` |
| `MessagesFit` | `FramesSpec => []ChunksFit` |
| `EnvelopesOpen` | `EnvelopeSpec => []EnvelopeWhole` |

The limiter is right although it forgets, because what a check or a sweep
forgets is out of every window of its own key (`Remembered`): the sweep
that one key's check starts uses the largest window seen, and a key that has a call
has contributed its window. If one call more than the limit came within a window,
all those since would still be remembered (`RoomMeansLater`), more than the
check admits. The bucket pays for each frame from what it holds and has gained
(`BucketInv`). For reassembly, `AssemblyInv` says that an assembly holds one chunk
for a place, all of messages that are alike; as many of them as such a message has
chunks then fill all its places (`AllPlaces`), and are one message if no other
like it has been heard of. Repetition is paid for: a frame was given out, or is held,
no more often than it came, and a body that is given out takes its frames out
of the only assembly that holds them (`OwnAssembly`).
`chunkMessage` computes the room in a frame from a guess at the number of
frames, which assumes 96 bytes in each. `TransportAssumption` says what the
constants owe to that 96: the longest message has at most `MaxChunks` chunks of this
size, and a frame with the longest counters has room for one. Then the guess is an upper
bound (`LargerChunks`), its head is the longest, and everything fits. The code's
constants (200 bytes, 16384 bytes, 256 chunks) meet it with 25 bytes to spare.

`EnvelopeWhole` is the half of `RoundTrip` that is about envelopes. Three bytes are
found again in the four symbols they are written as, the first of them already in two
symbols and the second in three (`FoundAgain`); so what is left of an
envelope is decoded as the first bytes of what was encoded (`DecodedIs`), or is
refused. `ReadBack` then says, for any number of bytes left in the payload, what
`Inflated` makes of the first bytes of what `Stored` writes: the payload if all are
there, and otherwise nothing, because every block says its length and only the last
one is marked. It is shown by a least counterexample, the blocks after the first
being fewer bytes. The invariant of the steps (`EnvelopeInv`) is that what
comes is a beginning of what was sent. So a truncation would be noticed
without the checksum; what the checksum is needed for is a change.

Each inductive invariant was first checked by TLC on the instance of its run.

Only model-checked:

- all liveness properties (`EventuallyCounted`, `PlayedIsReceived`, `SessionEnds`,
  `PairEnds`, `CaughtUp`): fairness and ENABLED are out of the prover's reach;
- the other half of `RoundTrip`, `CanonicalForm`: the reader and the writer of JSON are
  RECURSIVE operators, and what they compute is an induction over values.

## 7. Disagreements between the code and what is said of it

Each is a run expected to fail.

- `ingest_lost_race`: the handler that read one report writes after the handler
  that read both. The process runs on throughout (`QuietSpec` has no exit, of
  `Exit` or of two handlers at one primary key), so the shortest trace is this
  overlap itself. Both sides' reports are on file and agree, and the match
  stays `awaiting` until some new report of that match arrives
  (README.md:28 "Two independent reports that agree = a corroborated result.").
- `generation_mirror`: `validateEvent` throws on a mirror contract of two
  classes even when its event is ineligible, so one such contract blocks every
  later build of the season (docs/07_MATCH_STATE_MACHINE.md:16
  "Finished/corroborated can be ineligible due to ... mode").

## 8. What else the models show

Behaviour of the code that the models have and that a reader may not expect.
Where a property excludes such a case, its comment says so.

*Reports and generations.*
- `Settled` also fails with one handler and crashes: a process that ends between
  `insertReport` and `reconcileMatch` leaves the match unreconciled, and the
  retry is answered `duplicate`. No property that the code has says otherwise:
  what is checked under crashes is that results are never wrong, not that they
  are complete.
- A report under another contract hash disputes its match before the sender is
  compared with the report's origin (`ingest.ts:203-209`), also a match that has
  counted. The next build drops it while its row stays `applied`, until a report
  under the bound hash recomputes the evidence; `AppliedIsCounted` is stated for
  matches that are still countable. Nor does such a dispute stay
  (docs/06_PROTOCOL_AND_SYNC.md:84 "conflicting hashes for same session are
  quarantined together").
- If the agreed games have no winner, `deriveEvent` takes the winner of
  `reports[0]`, whoever filed it (`replay.ts:53`; README.md:91 "No unsupported
  one-party claim changes rank."). `PublishedWinner` says who is credited where
  the agreed games have a winner; where they have none it leaves that open. The
  card of such a match shows who leads in its games, or nobody, beside a rated
  win (`PagesAgree`; series 5 of the pool of `MCLibrary`).
- With two handlers a stale one can write back the lifecycle it read before the
  finishing report, and can take a match out of the running between the commit
  and the marks of a build that counted it.

*Companion.*
- What a logout writes has the status `unsynced`, and `extractPendingReports`
  takes `queued` or `saved` (`service.ts:57`). The addon never writes `queued`,
  and `saved` only in `Export.flushNow`; so the final sweep (`service.ts:123`
  "WoW flushes SavedVariables on exit", tested with a file that says `queued`)
  does not upload what a logout has just written. `PlayedIsReceived` begins with
  `saved`.
- A backlog larger than a body is quarantined, and so is every later batch,
  because each contains it. A quarantined report counts as kept.
- Only `sweepNow` looks for files again (`service.ts:86-94`, 119): under plain
  `run`, a SavedVariables file that appears after the start is never read.
- `play` exits when its own drain has returned, which it does at once when
  another call is uploading; that upload, and one that fails in the drain, wait
  for the next launch. A session that is shorter than the probe, or falls within
  a drain, is not seen.

*Pairing.* In memory a code may be approved after it has expired, since only
the handler tests the expiry, one await earlier; on Postgres the update tests it
again. The server alone would mint two credentials for two overlapping polls of
one code: `SingleUse` holds because the companion polls one at a time.

*Accounts and events.* Names and seats are tested before they are inserted; the
overrun is bounded by the handlers in flight, and `RacesBounded` states that
bound. An event exists without staff when the process exits between the two
inserts. A query that is on its way when the process exits has happened or has
not: both are behaviours of the models, in which an exit falls before or after
any statement. A signup for a full event by an account that has its seat is answered
`full` on Postgres and `duplicate` in memory.

*Updates.* `receiptCursor` is never read (`snapshot.ts:60`;
docs/06_PROTOCOL_AND_SYNC.md:79 describes it), so receipts beyond the first page
never arrive. The addon does not delete ladder rows that a later bundle lacks.
`allocate_snapshot_sequence` ignores its idempotency key (`0008_functions.sql:20`),
and `complete_job` (line 66) has no caller.

*Pages.* `reads.ts:92-95` and `pg.ts:563` say that the player page and the
leaderboard count the same series. They do on finished series between the two
named characters within the last 100 matches; unfinished series, games won by a
third character and older matches are counted by some of the queries only. A
series with more games than its length allows can be credited to one character by
`deriveEvent` and to the other by its card. A series without a winner in its agreed
games is a win for whom the first report on file names, an onlooker's too, or a
draw. A rated series that both sides credit to a third character is a win of its second player, although its card shows no winner.
`PagesAgree` names these cases.

*Formats.* `parseCanonical` accepts some texts that the writer does not produce
(escapes such as `\u0061` and `\/`, and `-0`), although `canonical.ts:381` says
"byte-for-byte"; a character outside the basic plane counts six bytes in the
reader and four on the wire; the writer does not test the depth its reader
refuses.

*Transport.* A reassembly is keyed by sender and message id, and compares the
number of chunks only (`frames.ts:133`): an id used again with as many chunks
while the first message is incomplete mixes the two, and a body of both is given
out. `Frames` has these messages; `DeliveredWhole` says that a body is whole
unless that has happened, and of which chunks it is made if it has. The addon's acknowledgement frame has a session id (`"ack "`) that its
decoder refuses, and `markAcked` and the retry that `Reliability.lua:7` speaks of
are not called.

## 9. Not modelled, and why

- *Addon match session* (`Challenge.lua`, `Contract.lua`, `Series.lua`): the
  transitions are listed, but no code path takes a session from proposed to
  accepted, armed or active on both clients, and the end of a duel records no
  game. There is no protocol in the code to check yet.
- *Addon transport* beyond frames: its queue sends each frame once, nothing
  acknowledges or retransmits (section 8).
- *Addon detection and rules*, *companion installation*, *web site*: input,
  output and tables, with no state shared with anything else. The requests of the
  web site are those of `Accounts`, `EventBoard` and `Pairing`.
- *Time*: `received_at` defaults to the start of the inserting transaction, so two
  reports of one account may become visible in the other order; the log has one
  order only. The debounce of generations has no clock. (The limiter, the
  validator's cache, the rolling week and reassembly have one.)
- *Several server processes* on one database: `GenerationRunner` assumes one.
- *`InMemoryStore`'s match tables*, which serve development: they differ in that a
  second `insertContractWithMatch` overwrites instead of throwing.
- `claim_job`, `complete_job`, `fail_job`: no caller in the source.
  `PgWorldBoard` and the ruleset catalogue only read reference data. The Postgres
  match page and routes' parsing and formatting change nothing.
- The season and pool of a ladder row, ruleset rows, page limits of 100 ladder
  rows and characters in a bundle; a second SavedVariables file; `__proto__` keys.
- Validators, except for what a valid document is; digests are identities.

## 10. Plan

1. In `CompanionProofs`, the phases of a session: what each `life` says of `task`.
2. A clock for the debounce, and reports ordered by `received_at`.
3. `Handshake` and `Transport`, once the addon's session is wired.
