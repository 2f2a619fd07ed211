------------------------------- MODULE Updates -------------------------------
(***************************************************************************)
(* The way back: the update bundle of an account from the server's tables  *)
(* into the addon.                                                         *)
(*                                                                         *)
(* The companion asks for a bundle after an upload and when the game has   *)
(* closed (service.ts, writeInbound), and these calls may overlap.  The    *)
(* server draws a sequence number and then reads the tables one await      *)
(* after the other (snapshot.ts), while reports are filed, matches judged  *)
(* and generations published.  The companion replaces one staged file; the *)
(* addon imports it when its interface loads (Import.lua), into a database *)
(* that the game writes to disk only on a reload or a logout.              *)
(*                                                                         *)
(* Sequence numbers are only ever compared with each other, so they are    *)
(* kept as ranks.  A receipt is the status of its report.  lastInbound-    *)
(* Digest is left out: a bundle that is imported again is refused by its   *)
(* number.  So are the limits of 100 ladder rows and 100 characters.  The  *)
(* reports are in the addon's file from the start (see Outbox.tla).        *)
(***************************************************************************)
EXTENDS Naturals, Sequences, FiniteSets

CONSTANTS
  Inst,         \* installations of the account
  Nonce,        \* report nonces, unique in an installation
  Home,         \* the installation of the addon that imports
  Row,          \* ladder rows of the account's characters
  MaxGen,       \* bound on the generations published
  Standing,     \* the rows each generation has for the account
  Sync,         \* calls of writeInbound in progress
  Verdict,      \* statuses of receipts
  MaxReceipts,  \* LIMITS.maxUpdateReceipts
  MaxChanges    \* bound on the changes of the server's tables

ASSUME UpdatesAssumption ==
  /\ Home \in Inst
  /\ MaxGen \in Nat /\ MaxReceipts \in Nat /\ MaxChanges \in Nat
  /\ Verdict \subseteq {"awaiting_peer", "disputed", "rating_pending", "corroborated"}
  /\ "awaiting_peer" \in Verdict
  /\ Standing \in [1..MaxGen -> SUBSET Row]
  /\ IsFiniteSet(Sync)

VARIABLES
  history,      \* the server's tables, and what they were after each change
  sync,         \* the bundle each call is waiting for
  staged,       \* Data/Inbound.lua
  db,           \* the addon's database in the game's memory
  saved         \* the same in the SavedVariables file

updateVars == <<history, sync, staged, db, saved>>

Key == Inst \X Nonce

\* match_reports of the account, the verdicts on their matches, the head.
Tables == [filed: Seq(Key), verdict: [Key -> Verdict], head: 0..MaxGen]

Now == Len(history)
Table == history[Now]
InTable(k, t) == \E i \in 1..Len(t.filed) : t.filed[i] = k

NoStanding == [gen |-> 0, label |-> 0]
NoBundle == [seq |-> 0, since |-> 0, rows |-> {}, receipts |-> {}]

Shown == [gen: 0..MaxGen, label: 0..MaxGen]
Bundle == [seq: Nat, since: Nat, rows: SUBSET [row: Row, gen: 1..MaxGen, label: 0..MaxGen],
           receipts: SUBSET [key: Key, status: Verdict]]

\* `since` of a database is no field of the addon: the newest moment at which
\* a number was drawn for a bundle it has imported.
Database == [report: [Nonce -> {"pending", "acked"}],
             status: [Nonce -> Verdict \cup {"none"}],
             ladder: [Row -> Shown], last: Nat, since: Nat]

UpdTypeOK ==
  /\ history \in Seq(Tables) /\ history # <<>>
  /\ sync \in [Sync -> [pc: {"idle", "rows", "labels", "receipts", "answer"},
                        bundle: Bundle]]
  /\ staged \in Bundle
  /\ {db, saved} \subseteq Database

EmptyDb == [report |-> [n \in Nonce |-> "pending"], status |-> [n \in Nonce |-> "none"],
            ladder |-> [r \in Row |-> NoStanding], last |-> 0, since |-> 0]

UpdInit ==
  /\ history = <<[filed |-> <<>>, verdict |-> [k \in Key |-> "awaiting_peer"], head |-> 0]>>
  /\ sync = [s \in Sync |-> [pc |-> "idle", bundle |-> NoBundle]]
  /\ staged = NoBundle
  /\ db = EmptyDb
  /\ saved = EmptyDb

-----------------------------------------------------------------------------
(* The server's tables change under the reader. *)

Change(t) ==
  /\ Now <= MaxChanges
  /\ history' = Append(history, t)
  /\ UNCHANGED <<sync, staged, db, saved>>

\* A report is filed.
FileReport(k) ==
  /\ ~InTable(k, Table)
  /\ Change([Table EXCEPT !.filed = Append(@, k)])

\* Ingestion and generations give its match another verdict.
Judge(k, v) ==
  /\ InTable(k, Table)
  /\ v # Table.verdict[k]
  /\ Change([Table EXCEPT !.verdict[k] = v])

\* A generation becomes the season's active one.
Publish == Table.head < MaxGen /\ Change([Table EXCEPT !.head = @ + 1])

-----------------------------------------------------------------------------
(* GET /v1/addon-update: buildAddonUpdate, one read of the source a step. *)

At(s, pc) == sync[s].pc = pc /\ UNCHANGED <<history, db, saved>>
Step(s, pc, b) == sync' = [sync EXCEPT ![s] = [pc |-> pc, bundle |-> b]]

\* All numbers that something still holds; 0 stands for none.
Numbers == ({sync[s].bundle.seq : s \in Sync} \cup {staged.seq, db.last, saved.last}) \ {0}
Rank(q) == Cardinality({p \in Numbers : p <= q})

\* The companion asks and the server draws the account's next number, above
\* all those in use (allocateSequence).
DrawNumber(s) ==
  /\ sync[s].pc = "idle"
  /\ sync' = [u \in Sync |->
       IF u = s THEN [pc |-> "rows", bundle |-> [NoBundle EXCEPT !.seq = Cardinality(Numbers) + 1,
                                                                !.since = Now]]
       ELSE [sync[u] EXCEPT !.bundle.seq = Rank(@)]]
  /\ staged' = [staged EXCEPT !.seq = Rank(@)]
  /\ db' = [db EXCEPT !.last = Rank(@)]
  /\ saved' = [saved EXCEPT !.last = Rank(@)]
  /\ UNCHANGED history

\* ladderRows: the rows of the active generation, at this moment.
ReadRows(s) ==
  /\ At(s, "rows")
  /\ LET g == Table.head
         found == IF g = 0 THEN {} ELSE Standing[g]
     IN Step(s, IF found = {} THEN "receipts" ELSE "labels", [sync[s].bundle EXCEPT !.rows =
               {[row |-> r, gen |-> g, label |-> 0] : r \in found}])
  /\ UNCHANGED staged

\* Mutant of Active: the generation that was active when the number was drawn.
ActiveAtStart(s) == history[sync[s].bundle.since].head

\* generationForSeason: whichever is active by now.
Active(s) == Table.head

\* The rows are labelled one await after the other.
Label(s) ==
  /\ At(s, "labels")
  /\ \E x \in sync[s].bundle.rows :
       LET rest == sync[s].bundle.rows \ {x} IN
       /\ x.label = 0
       /\ Step(s, IF \A y \in rest : y.label # 0 THEN "receipts" ELSE "labels",
               [sync[s].bundle EXCEPT !.rows = rest \cup {[x EXCEPT !.label = Active(s)]}])
  /\ UNCHANGED staged

\* Reports in received_at order; the cursor of the request is not looked at.
FirstPage(t) == {t.filed[i] : i \in {j \in 1..Len(t.filed) : j <= MaxReceipts}}

ReadReceipts(s) ==
  /\ At(s, "receipts")
  /\ Step(s, "answer", [sync[s].bundle EXCEPT !.receipts =
            {[key |-> k, status |-> Table.verdict[k]] : k \in FirstPage(Table)}])
  /\ UNCHANGED staged

\* Mutant of Stage: a file that is there is left alone.
StageOnce(s) ==
  /\ At(s, "answer")
  /\ staged' = IF staged = NoBundle THEN sync[s].bundle ELSE staged
  /\ Step(s, "idle", NoBundle)

\* writeInbound renames its file over the staged one.
Stage(s) ==
  /\ At(s, "answer")
  /\ staged' = sync[s].bundle
  /\ Step(s, "idle", NoBundle)

\* The answer is lost or not written, and writeInbound swallows it.  (A handler
\* that dies, or a request that does not arrive, is an answer lost.)
Fail(s) ==
  /\ At(s, "answer")
  /\ Step(s, "idle", NoBundle)
  /\ UNCHANGED staged

-----------------------------------------------------------------------------
(* The addon. *)

Acks == {"rating_pending", "corroborated"}

\* Mutant of Mine: receipts of other installations count by their nonce.
MineByNonce(b, n) == {x.status : x \in {y \in b.receipts : y.key[2] = n}}

\* The receipts of a bundle for report n of this installation.
Mine(b, n) == {x.status : x \in {y \in b.receipts : y.key = <<Home, n>>}}

Newest(p, q) == IF p < q THEN q ELSE p

\* Outbox.applyReceipt and the upsert of ladder rows.
Upsert(d, b) ==
  LET stat(n) == Mine(b, n) IN
  [report |-> [n \in Nonce |-> IF stat(n) \cap Acks # {} THEN "acked"
                               ELSE d.report[n]],
   status |-> [n \in Nonce |-> IF stat(n) # {}
                               THEN CHOOSE v \in stat(n) : TRUE ELSE d.status[n]],
   ladder |-> [r \in Row |-> IF \E x \in b.rows : x.row = r
                             THEN LET x == CHOOSE y \in b.rows : y.row = r
                                  IN [gen |-> x.gen, label |-> x.label]
                             ELSE d.ladder[r]],
   last |-> b.seq,
   since |-> Newest(d.since, b.since)]

\* Mutant of Import: any bundle but the last one is taken.
ImportUnlessSame(d, b) == IF b.seq \in {0, d.last} THEN d ELSE Upsert(d, b)

\* Import.apply: a number that is not above the last one is refused.
Import(d, b) == IF b.seq <= d.last THEN d ELSE Upsert(d, b)

\* The interface loads: the game has written the database, and the addon
\* imports what is staged.  A logout and the next login do the same.
Reload ==
  /\ saved' = db
  /\ db' = Import(db, staged)
  /\ UNCHANGED <<history, sync, staged>>

\* The game is killed: it starts again from what it had written.
CrashGame ==
  /\ db' = Import(saved, staged)
  /\ UNCHANGED <<history, sync, staged, saved>>

Serve(s) ==
  DrawNumber(s) \/ ReadRows(s) \/ Label(s) \/ ReadReceipts(s) \/ Stage(s)

UpdNext ==
  \/ \E k \in Key : FileReport(k) \/ \E v \in Verdict : Judge(k, v)
  \/ Publish
  \/ \E s \in Sync : Serve(s) \/ Fail(s)
  \/ Reload \/ CrashGame

UpdSpec == UpdInit /\ [][UpdNext]_updateVars

\* The companion asks again and again (at the latest when the game closes), a
\* request goes on, not every answer is lost, and the player logs in again.
UpdFairness ==
  /\ \A s \in Sync : WF_updateVars(Serve(s))
  /\ SF_updateVars(\E s \in Sync : Stage(s))
  /\ WF_updateVars(Reload)

FairUpdSpec == UpdSpec /\ UpdFairness

-----------------------------------------------------------------------------
(***************************************************************************)
(* Properties                                                              *)
(***************************************************************************)

\* A report that the addon calls acknowledged, and will not export any more,
\* is on file at the server under this very installation, and its match has
\* been corroborated at some time (Import.lua compares the installation).
AckIsGenuine ==
  \A n \in Nonce : "acked" \in {db.report[n], saved.report[n]} =>
    /\ InTable(<<Home, n>>, Table)
    /\ \E v \in 1..Now : history[v].verdict[<<Home, n>>] \in Acks

\* However requests overlap and files are overwritten, the verdicts on display
\* are those of one moment, no earlier than the draw of the newest number the
\* addon has imported: the number is drawn before anything is read, and older
\* numbers are refused (Import.lua: "monotonic per account").
ShownSince(d, v) ==
  \A n \in Nonce : <<Home, n>> \in FirstPage(history[v]) =>
    d.status[n] = history[v].verdict[<<Home, n>>]

DisplayIsRecent ==
  \A d \in {db, saved} : d.last # 0 => \E v \in d.since..Now : ShownSince(d, v)

\* A rating is shown under its own generation or under a later one, never an
\* earlier one: rows are read before the generation they are labelled with.
LabelNotBefore ==
  \A r \in Row : db.ladder[r].gen # 0 =>
    /\ db.ladder[r].gen <= db.ladder[r].label
    /\ db.ladder[r].label <= Table.head
    /\ r \in Standing[db.ladder[r].gen]

\* In the end the addon shows what the server says: the verdicts on the first
\* MaxReceipts reports and the active generation's rows, under its name.  (A
\* report beyond the first page never gets its receipt, and a row that a later
\* generation drops stays on display.)
UpToDate ==
  /\ ShownSince(db, Now)
  /\ Table.head # 0 => \A r \in Standing[Table.head] :
       db.ladder[r] = [gen |-> Table.head, label |-> Table.head]

CaughtUp == <>[]UpToDate

-----------------------------------------------------------------------------
(***************************************************************************)
(* What bundles, databases and the server's tables know of each other at   *)
(* every step.                                                             *)
(***************************************************************************)

\* The receipts of the first page as the tables had them at moment v.
PageAt(v) == {[key |-> k, status |-> history[v].verdict[k]] : k \in FirstPage(history[v])}

\* What was on file stays on file.
HistoryInv == \A v \in 1..Now : \A k \in Key : InTable(k, history[v]) => InTable(k, Table)

\* Rows come from a generation the server has published, labels from a later one.
RowsInv(b) ==
  \A x \in b.rows :
    /\ x.gen <= Table.head /\ x.row \in Standing[x.gen]
    /\ x.label # 0 => x.gen <= x.label /\ x.label <= Table.head

Labelled(b) == \A x \in b.rows : x.label # 0

\* All receipts of a bundle were read at one moment after its number was drawn.
ReadOnce(b) == \E v \in b.since..Now : b.receipts = PageAt(v)

Whole(b) == b.since \in 1..Now /\ RowsInv(b) /\ Labelled(b) /\ ReadOnce(b)

ServedInv ==
  \A s \in Sync : LET b == sync[s].bundle IN
    /\ sync[s].pc # "idle" => b.since \in 1..Now /\ RowsInv(b)
    /\ sync[s].pc \in {"receipts", "answer"} => Labelled(b)
    /\ sync[s].pc = "answer" => ReadOnce(b)

StagedInv == staged.seq # 0 => Whole(staged)

Genuine(n) ==
  /\ InTable(<<Home, n>>, Table)
  /\ \E v \in 1..Now : history[v].verdict[<<Home, n>>] \in Acks

DatabaseInv(d) ==
  /\ \A n \in Nonce : d.report[n] = "acked" => Genuine(n)
  /\ \A r \in Row : d.ladder[r].gen # 0 =>
       /\ d.ladder[r].gen <= d.ladder[r].label /\ d.ladder[r].label <= Table.head
       /\ r \in Standing[d.ladder[r].gen]
  /\ d.since \in 0..Now
  /\ d.last # 0 => d.since # 0 /\ \E v \in d.since..Now : ShownSince(d, v)

\* Numbers, wherever they are kept, are in the order of the moments at which
\* they were drawn.
Drawn ==
  {[seq |-> sync[s].bundle.seq, since |-> sync[s].bundle.since] : s \in Sync}
    \cup {[seq |-> staged.seq, since |-> staged.since],
          [seq |-> db.last, since |-> db.since], [seq |-> saved.last, since |-> saved.since]}

OrderInv ==
  \A p \in Drawn : p.since <= Now /\ \A q \in Drawn : p.seq < q.seq => p.since <= q.since

\* The inductive invariant.
UpdInv ==
  /\ UpdTypeOK
  /\ HistoryInv /\ ServedInv /\ StagedInv
  /\ DatabaseInv(db) /\ DatabaseInv(saved)
  /\ OrderInv
=============================================================================
