---------------------------- MODULE UpdatesProofs ----------------------------
(***************************************************************************)
(* Theorems about Updates: what the addon shows of the server's tables,    *)
(* whatever happens to them while a bundle is built, delivered, imported   *)
(* and forgotten again by a game that is killed.                           *)
(***************************************************************************)
EXTENDS Updates, FiniteSetTheorems, TLAPS

LEMMA Assumption ==
  /\ Home \in Inst /\ MaxGen \in Nat /\ MaxReceipts \in Nat
  /\ Verdict \subseteq {"awaiting_peer", "disputed", "rating_pending", "corroborated"}
  /\ "awaiting_peer" \in Verdict
  /\ Standing \in [1..MaxGen -> SUBSET Row]
  /\ IsFiniteSet(Sync)
BY UpdatesAssumption

Slot == [pc: {"idle", "rows", "labels", "receipts", "answer"}, bundle: Bundle]

-----------------------------------------------------------------------------
(* The server's tables. *)

LEMMA Moments ==
  ASSUME UpdTypeOK
  PROVE  /\ Now \in Nat \ {0}
         /\ \A v \in 1..Now : history[v] \in Tables
         /\ Table \in Tables
         /\ Table.head \in 0..MaxGen
<1>1. history \in Seq(Tables) /\ history # <<>>
  BY DEF UpdTypeOK
<1>2. Now \in Nat \ {0} /\ \A v \in 1..Now : history[v] \in Tables
  BY <1>1 DEF Now
<1>3. Now \in 1..Now
  BY <1>2
<1>4. Table \in Tables
  BY <1>2, <1>3 DEF Table
<1> QED
  BY <1>2, <1>4 DEF Tables

LEMMA Appended ==
  ASSUME UpdTypeOK, NEW t \in Tables, history' = Append(history, t)
  PROVE  /\ history' \in Seq(Tables) /\ history' # <<>>
         /\ Now' = Now + 1
         /\ \A v \in 1..Now : history'[v] = history[v]
         /\ Table' = t
         /\ \A v \in 1..Now' : v \in 1..Now \/ history'[v] = t
<1>1. history \in Seq(Tables) /\ history # <<>>
  BY DEF UpdTypeOK
<1>2. Len(history) \in Nat /\ Len(history') = Len(history) + 1 /\ history' \in Seq(Tables)
      /\ history' # <<>>
  BY <1>1
<1>3. \A v \in 1..Len(history) : history'[v] = history[v]
  BY <1>1
<1>4. history'[Len(history) + 1] = t
  BY <1>1
<1>5. \A v \in 1..(Len(history) + 1) : v \in 1..Len(history) \/ v = Len(history) + 1
  BY <1>2
<1> QED
  BY <1>2, <1>3, <1>4, <1>5 DEF Now, Table

LEMMA OnPage ==
  ASSUME NEW t \in Tables, NEW k \in FirstPage(t)
  PROVE  k \in Key /\ InTable(k, t)
<1>1. PICK i \in 1..Len(t.filed) : k = t.filed[i]
  BY DEF FirstPage
<1>2. t.filed \in Seq(Key)
  BY DEF Tables
<1> QED
  BY <1>1, <1>2 DEF InTable

LEMMA PageReceipts ==
  ASSUME UpdTypeOK, NEW v \in 1..Now
  PROVE  /\ PageAt(v) \subseteq [key: Key, status: Verdict]
         /\ \A x \in PageAt(v) : x.key \in FirstPage(history[v])
                                   /\ x.status = history[v].verdict[x.key]
         /\ \A k \in FirstPage(history[v]) :
              [key |-> k, status |-> history[v].verdict[k]] \in PageAt(v)
<1>1. history[v] \in Tables
  BY Moments
<1>2. \A k \in FirstPage(history[v]) : k \in Key
  BY <1>1, OnPage
<1>3. history[v].verdict \in [Key -> Verdict]
  BY <1>1 DEF Tables
<1> QED
  BY <1>2, <1>3 DEF PageAt

LEMMA DrawnTypes ==
  ASSUME UpdTypeOK
  PROVE  /\ \A p \in Drawn : p.seq \in Nat /\ p.since \in Nat
         /\ \A s \in Sync : sync[s] \in Slot /\ sync[s].bundle \in Bundle
<1>1. \A s \in Sync : sync[s] \in Slot /\ sync[s].bundle \in Bundle
  BY DEF UpdTypeOK, Slot
<1>2. \A b \in Bundle : b.seq \in Nat /\ b.since \in Nat
  BY DEF Bundle
<1>3. staged \in Bundle /\ \A d \in {db, saved} : d.last \in Nat /\ d.since \in Nat
  BY DEF UpdTypeOK, Database
<1>4. \A s \in Sync : sync[s].bundle.seq \in Nat /\ sync[s].bundle.since \in Nat
  BY <1>1, <1>2
<1>5. ASSUME NEW p \in Drawn PROVE p.seq \in Nat /\ p.since \in Nat
  <2>1. CASE p \in {[seq |-> sync[s].bundle.seq, since |-> sync[s].bundle.since] : s \in Sync}
    BY <1>4, <2>1
  <2>2. CASE p = [seq |-> staged.seq, since |-> staged.since]
    BY <1>2, <1>3, <2>2
  <2>3. CASE p \in {[seq |-> db.last, since |-> db.since], [seq |-> saved.last, since |-> saved.since]}
    BY <1>3, <2>3
  <2> QED
    BY <2>1, <2>2, <2>3 DEF Drawn
<1> QED
  BY <1>1, <1>5

-----------------------------------------------------------------------------
(* The addon. *)

\* An import is of a bundle drawn since the newest one, and shows its moment.
LEMMA ImportKeeps ==
  ASSUME UpdTypeOK, HistoryInv, NEW d \in Database, NEW b \in Bundle, DatabaseInv(d),
         b.seq # 0 => Whole(b), d.last < b.seq => d.since <= b.since
  PROVE  /\ Import(d, b) \in Database /\ DatabaseInv(Import(d, b))
         /\ \/ Import(d, b) = d
            \/ Import(d, b).last = b.seq /\ Import(d, b).since = b.since
<1>1. CASE b.seq <= d.last
  BY <1>1 DEF Import
<1>2. CASE ~(b.seq <= d.last)
  <2> DEFINE u == Upsert(d, b)
  <2>1. d.last \in Nat /\ d.since \in Nat /\ b.seq \in Nat /\ b.since \in Nat
        /\ d.report \in [Nonce -> {"pending", "acked"}]
        /\ d.status \in [Nonce -> Verdict \cup {"none"}] /\ d.ladder \in [Row -> Shown]
        /\ b.rows \subseteq [row: Row, gen: 1..MaxGen, label: 0..MaxGen]
    BY DEF Database, Bundle
  <2>2. d.last < b.seq /\ b.seq # 0
    BY <1>2, <2>1
  <2>3. Whole(b) /\ d.since <= b.since
    BY <2>2
  <2>4. b.since \in 1..Now /\ RowsInv(b) /\ Labelled(b) /\ Now \in Nat
    BY <2>3, Moments DEF Whole
  <2>5. PICK v \in b.since..Now : b.receipts = PageAt(v)
    BY <2>3 DEF Whole, ReadOnce
  <2>6. v \in 1..Now
    BY <2>4
  <2>7. ASSUME NEW n \in Nonce
        PROVE  Mine(b, n) = IF <<Home, n>> \in FirstPage(history[v])
                            THEN {history[v].verdict[<<Home, n>>]} ELSE {}
    BY <2>5, <2>6, PageReceipts DEF Mine
  <2>8. ASSUME NEW n \in Nonce
        PROVE  <<Home, n>> \in Key /\ Mine(b, n) \subseteq Verdict
    <3>1. <<Home, n>> \in Key
      BY Assumption DEF Key
    <3>2. history[v].verdict \in [Key -> Verdict]
      BY <2>6, Moments DEF Tables
    <3> QED
      BY <2>7, <3>1, <3>2
  <2>9. Newest(d.since, b.since) = b.since
    BY <2>1, <2>3 DEF Newest
  <2>10. /\ u.report = [n \in Nonce |-> IF Mine(b, n) \cap Acks # {} THEN "acked" ELSE d.report[n]]
         /\ u.status = [n \in Nonce |-> IF Mine(b, n) # {} THEN CHOOSE w \in Mine(b, n) : TRUE
                                        ELSE d.status[n]]
         /\ u.ladder = [r \in Row |-> IF \E x \in b.rows : x.row = r
                                      THEN LET x == CHOOSE y \in b.rows : y.row = r
                                           IN [gen |-> x.gen, label |-> x.label]
                                      ELSE d.ladder[r]]
         /\ u.last = b.seq /\ u.since = b.since
    BY <2>9 DEF Upsert
  <2>11. u = [report |-> u.report, status |-> u.status, ladder |-> u.ladder, last |-> u.last,
              since |-> u.since]
    BY DEF Upsert
  <2>12. Import(d, b) = u
    BY <1>2 DEF Import
  <2> HIDE DEF u
  <2>13. u.report \in [Nonce -> {"pending", "acked"}]
    BY <2>1, <2>10
  <2>14. u.status \in [Nonce -> Verdict \cup {"none"}]
    <3>1. ASSUME NEW n \in Nonce, Mine(b, n) # {}
          PROVE  (CHOOSE w \in Mine(b, n) : TRUE) \in Verdict
      <4>1. (CHOOSE w \in Mine(b, n) : TRUE) \in Mine(b, n)
        BY <3>1
      <4> QED
        BY <2>8, <4>1
    <3>2. ASSUME NEW n \in Nonce PROVE u.status[n] \in Verdict \cup {"none"}
      BY <2>1, <2>10, <3>1
    <3>3. u.status = [n \in Nonce |-> u.status[n]]
      BY <2>10
    <3> QED
      BY <3>2, <3>3
  <2>15. ASSUME NEW r \in Row
         PROVE  \/ \E x \in b.rows : x.row = r /\ u.ladder[r] = [gen |-> x.gen, label |-> x.label]
                \/ u.ladder[r] = d.ladder[r]
    <3>1. CASE \E x \in b.rows : x.row = r
      <4> DEFINE x == CHOOSE y \in b.rows : y.row = r
      <4>1. x \in b.rows /\ x.row = r
        BY <3>1
      <4>2. u.ladder[r] = [gen |-> x.gen, label |-> x.label]
        BY <2>10, <3>1
      <4> QED
        BY <4>1, <4>2
    <3>2. CASE ~\E x \in b.rows : x.row = r
      BY <2>10, <3>2
    <3> QED
      BY <3>1, <3>2
  <2>16. u.ladder \in [Row -> Shown]
    <3>1. ASSUME NEW r \in Row PROVE u.ladder[r] \in Shown
      <4>1. CASE u.ladder[r] = d.ladder[r]
        BY <2>1, <4>1
      <4>2. ASSUME NEW x \in b.rows, u.ladder[r] = [gen |-> x.gen, label |-> x.label]
            PROVE  u.ladder[r] \in Shown
        <5>1. x.gen \in 0..MaxGen /\ x.label \in 0..MaxGen
          BY <2>1, Assumption
        <5> QED
          BY <4>2, <5>1 DEF Shown
      <4> QED
        BY <2>15, <4>1, <4>2
    <3>2. u.ladder = [r \in Row |-> u.ladder[r]]
      BY <2>10
    <3> QED
      BY <3>1, <3>2
  <2>17. u \in Database
    BY <2>1, <2>10, <2>11, <2>13, <2>14, <2>16 DEF Database
  <2>18. ASSUME NEW n \in Nonce, u.report[n] = "acked"
         PROVE  Genuine(n)
    <3>1. CASE Mine(b, n) \cap Acks # {}
      <4>1. <<Home, n>> \in FirstPage(history[v]) /\ history[v].verdict[<<Home, n>>] \in Acks
        BY <2>7, <3>1
      <4>2. InTable(<<Home, n>>, history[v])
        BY <2>6, <4>1, Moments, OnPage
      <4>3. InTable(<<Home, n>>, Table)
        BY <2>6, <2>8, <4>2 DEF HistoryInv
      <4> QED
        BY <2>6, <4>1, <4>3 DEF Genuine
    <3>2. CASE ~(Mine(b, n) \cap Acks # {})
      <4>1. d.report[n] = "acked"
        BY <2>10, <2>18, <3>2
      <4> QED
        BY <4>1 DEF DatabaseInv
    <3> QED
      BY <3>1, <3>2
  <2>19. ASSUME NEW r \in Row, u.ladder[r].gen # 0
         PROVE  /\ u.ladder[r].gen <= u.ladder[r].label /\ u.ladder[r].label <= Table.head
                /\ r \in Standing[u.ladder[r].gen]
    <3>1. CASE u.ladder[r] = d.ladder[r]
      BY <2>19, <3>1 DEF DatabaseInv
    <3>2. CASE \E x \in b.rows : x.row = r /\ u.ladder[r] = [gen |-> x.gen, label |-> x.label]
      <4>1. PICK x \in b.rows : x.row = r /\ u.ladder[r] = [gen |-> x.gen, label |-> x.label]
        BY <3>2
      <4>2. /\ x.row \in Standing[x.gen]
            /\ x.gen <= x.label /\ x.label <= Table.head
        BY <2>4 DEF RowsInv, Labelled
      <4> QED
        BY <4>1, <4>2
    <3> QED
      BY <2>15, <3>1, <3>2
  <2>20. ShownSince(u, v)
    <3> SUFFICES ASSUME NEW n \in Nonce, <<Home, n>> \in FirstPage(history[v])
                 PROVE  u.status[n] = history[v].verdict[<<Home, n>>]
      BY DEF ShownSince
    <3>1. Mine(b, n) = {history[v].verdict[<<Home, n>>]}
      BY <2>7
    <3>2. u.status[n] = CHOOSE w \in Mine(b, n) : TRUE
      BY <2>10, <3>1
    <3>3. (CHOOSE w \in Mine(b, n) : TRUE) \in Mine(b, n)
      BY <3>1
    <3> QED
      BY <3>1, <3>2, <3>3
  <2>21. u.since \in 0..Now /\ u.since # 0 /\ \E w \in u.since..Now : ShownSince(u, w)
    BY <2>4, <2>10, <2>20
  <2>22. DatabaseInv(u)
    BY <2>18, <2>19, <2>21 DEF DatabaseInv
  <2> QED
    BY <2>10, <2>12, <2>17, <2>22
<1> QED
  BY <1>1, <1>2

-----------------------------------------------------------------------------
(***************************************************************************)
(* The tables change.                                                      *)
(***************************************************************************)

\* A later history says the same of earlier moments.
LEMMA Earlier ==
  ASSUME NEW v \in 1..Now, history'[v] = history[v]
  PROVE  /\ PageAt(v)' = PageAt(v)
         /\ \A d : ShownSince(d, v)' <=> ShownSince(d, v)
<1>1. PageAt(v)' = PageAt(v)
  BY DEF PageAt
<1>2. \A d : ShownSince(d, v)' <=> ShownSince(d, v)
  BY DEF ShownSince
<1> QED
  BY <1>1, <1>2

\* What was known of bundles and databases is known later.
LEMMA BundleGrows ==
  ASSUME UpdTypeOK, NEW b, Now' = Now + 1, \A v \in 1..Now : history'[v] = history[v],
         Table'.head \in 0..MaxGen, Table.head <= Table'.head, b.since \in 1..Now,
         b.rows \subseteq [row: Row, gen: 1..MaxGen, label: 0..MaxGen], RowsInv(b)
  PROVE  RowsInv(b)' /\ b.since \in 1..Now' /\ (ReadOnce(b) => ReadOnce(b)')
<1>1. Now \in Nat \ {0} /\ Table.head \in 0..MaxGen /\ MaxGen \in Nat
  BY Moments, Assumption
<1>2. RowsInv(b)'
  <2> SUFFICES ASSUME NEW x \in b.rows
               PROVE  /\ x.gen <= Table'.head /\ x.row \in Standing[x.gen]
                      /\ x.label # 0 => x.gen <= x.label /\ x.label <= Table'.head
    BY DEF RowsInv
  <2>1. x.gen \in 1..MaxGen /\ x.label \in 0..MaxGen
    OBVIOUS
  <2>2. /\ x.gen <= Table.head /\ x.row \in Standing[x.gen]
        /\ x.label # 0 => x.gen <= x.label /\ x.label <= Table.head
    BY DEF RowsInv
  <2> QED
    BY <1>1, <2>1, <2>2
<1>3. ASSUME ReadOnce(b) PROVE ReadOnce(b)'
  <2>1. PICK v \in b.since..Now : b.receipts = PageAt(v)
    BY <1>3 DEF ReadOnce
  <2>2. v \in 1..Now /\ v \in b.since..Now'
    BY <1>1, <2>1
  <2>3. PageAt(v)' = PageAt(v)
    BY <2>2, Earlier
  <2> QED
    BY <2>1, <2>2, <2>3 DEF ReadOnce
<1> QED
  BY <1>1, <1>2, <1>3

LEMMA DatabaseGrows ==
  ASSUME UpdTypeOK, NEW d \in Database, Now' = Now + 1,
         \A v \in 1..Now : history'[v] = history[v],
         Table'.head \in 0..MaxGen, Table.head <= Table'.head,
         \A k : InTable(k, Table) => InTable(k, Table'),
         DatabaseInv(d)
  PROVE  DatabaseInv(d)'
<1>1. Now \in Nat \ {0} /\ Table.head \in 0..MaxGen /\ MaxGen \in Nat
  BY Moments, Assumption
<1>2. ASSUME NEW n \in Nonce, d.report[n] = "acked" PROVE Genuine(n)'
  <2>1. Genuine(n)
    BY <1>2 DEF DatabaseInv
  <2>2. InTable(<<Home, n>>, Table')
    BY <2>1 DEF Genuine
  <2>3. PICK v \in 1..Now : history[v].verdict[<<Home, n>>] \in Acks
    BY <2>1 DEF Genuine
  <2>4. v \in 1..Now' /\ history'[v].verdict[<<Home, n>>] \in Acks
    BY <1>1, <2>3
  <2> QED
    BY <2>2, <2>4 DEF Genuine, Acks, InTable
<1>3. ASSUME NEW r \in Row, d.ladder[r].gen # 0
      PROVE  /\ d.ladder[r].gen <= d.ladder[r].label /\ d.ladder[r].label <= Table'.head
             /\ r \in Standing[d.ladder[r].gen]
  <2>1. /\ d.ladder[r].gen <= d.ladder[r].label /\ d.ladder[r].label <= Table.head
        /\ r \in Standing[d.ladder[r].gen]
    BY <1>3 DEF DatabaseInv
  <2>2. d.ladder[r].label \in 0..MaxGen
    BY DEF Database, Shown
  <2> QED
    BY <1>1, <2>1, <2>2
<1>4. d.since \in 0..Now
  BY DEF DatabaseInv
<1>5. ASSUME d.last # 0 PROVE d.since # 0 /\ \E v \in d.since..Now' : ShownSince(d, v)'
  <2>1. d.since # 0 /\ \E v \in d.since..Now : ShownSince(d, v)
    BY <1>5 DEF DatabaseInv
  <2>2. PICK v \in d.since..Now : ShownSince(d, v)
    BY <2>1
  <2>3. v \in 1..Now /\ v \in d.since..Now'
    BY <1>1, <1>4, <2>1, <2>2
  <2>4. ShownSince(d, v)'
    BY <2>2, <2>3, Earlier
  <2> QED
    BY <2>1, <2>3, <2>4
<1>6. d.since \in 0..Now'
  BY <1>1, <1>4
<1> QED
  BY <1>2, <1>3, <1>5, <1>6 DEF DatabaseInv

LEMMA ChangeKeeps ==
  ASSUME UpdInv, NEW t \in Tables, Change(t), Table.head <= t.head,
         \A k : InTable(k, Table) => InTable(k, t)
  PROVE  UpdInv'
<1>1. UpdTypeOK
  BY DEF UpdInv
<1>2. history' = Append(history, t) /\ sync' = sync /\ staged' = staged /\ db' = db /\ saved' = saved
  BY DEF Change
<1>3. /\ history' \in Seq(Tables) /\ history' # <<>> /\ Now' = Now + 1
      /\ \A v \in 1..Now : history'[v] = history[v]
      /\ Table' = t
      /\ \A v \in 1..Now' : v \in 1..Now \/ history'[v] = t
  BY <1>1, <1>2, Appended
<1>4. Table'.head \in 0..MaxGen /\ Table.head <= Table'.head
      /\ \A k : InTable(k, Table) => InTable(k, Table')
  BY <1>3 DEF Tables
<1>5. UpdTypeOK'
  BY <1>1, <1>2, <1>3 DEF UpdTypeOK
<1>6. HistoryInv'
  <2> SUFFICES ASSUME NEW v \in 1..Now', NEW k \in Key, InTable(k, history'[v])
               PROVE  InTable(k, t)
    BY <1>3 DEF HistoryInv, InTable
  <2>1. CASE v \in 1..Now
    <3>1. InTable(k, history[v])
      BY <1>3, <2>1
    <3>2. InTable(k, Table)
      BY <2>1, <3>1 DEF UpdInv, HistoryInv
    <3> QED
      BY <3>2
  <2>2. CASE history'[v] = t
    BY <2>2
  <2> QED
    BY <1>3, <2>1, <2>2
<1>7. ServedInv'
  <2> SUFFICES ASSUME NEW s \in Sync
               PROVE  (LET b == sync[s].bundle IN
                       /\ sync[s].pc # "idle" => b.since \in 1..Now /\ RowsInv(b)
                       /\ sync[s].pc \in {"receipts", "answer"} => Labelled(b)
                       /\ sync[s].pc = "answer" => ReadOnce(b))'
    BY DEF ServedInv
  <2>1. PICK b : b = sync[s].bundle
    OBVIOUS
  <2>2. b.rows \subseteq [row: Row, gen: 1..MaxGen, label: 0..MaxGen]
    BY <1>1, <2>1 DEF UpdTypeOK, Bundle
  <2>3. /\ sync[s].pc # "idle" => b.since \in 1..Now /\ RowsInv(b)
        /\ sync[s].pc \in {"receipts", "answer"} => Labelled(b)
        /\ sync[s].pc = "answer" => ReadOnce(b)
    BY <2>1 DEF UpdInv, ServedInv
  <2>4. sync[s].pc # "idle" => b.since \in 1..Now' /\ RowsInv(b)' /\ (ReadOnce(b) => ReadOnce(b)')
    BY <1>1, <1>3, <1>4, <2>2, <2>3, BundleGrows
  <2>5. sync[s].pc # "idle" => (RowsInv(sync[s].bundle))'
    BY <1>2, <2>1, <2>4 DEF RowsInv
  <2>6. sync[s].pc = "answer" => (ReadOnce(sync[s].bundle))'
    BY <1>2, <2>1, <2>3, <2>4 DEF ReadOnce
  <2>7. sync[s].pc \in {"receipts", "answer"} => (Labelled(sync[s].bundle))'
    BY <1>2, <2>1, <2>3 DEF Labelled
  <2> QED
    BY <1>2, <2>1, <2>4, <2>5, <2>6, <2>7
<1>8. StagedInv'
  <2> SUFFICES ASSUME staged.seq # 0 PROVE Whole(staged)'
    BY <1>2 DEF StagedInv
  <2>1. PICK b : b = staged
    OBVIOUS
  <2>2. Whole(b) /\ b.rows \subseteq [row: Row, gen: 1..MaxGen, label: 0..MaxGen]
    BY <1>1, <2>1 DEF UpdInv, StagedInv, UpdTypeOK, Bundle
  <2>3. b.since \in 1..Now' /\ RowsInv(b)' /\ Labelled(b) /\ ReadOnce(b)'
    BY <1>1, <1>3, <1>4, <2>2, BundleGrows DEF Whole
  <2>4. RowsInv(staged)'
    BY <1>2, <2>1, <2>3 DEF RowsInv
  <2>5. ReadOnce(staged)'
    BY <1>2, <2>1, <2>3 DEF ReadOnce
  <2>6. Labelled(staged)'
    BY <1>2, <2>1, <2>3 DEF Labelled
  <2> QED
    BY <1>2, <2>1, <2>3, <2>4, <2>5, <2>6 DEF Whole
<1>9. ASSUME NEW d, d \in {db, saved} PROVE DatabaseInv(d)'
  <2>1. d \in Database /\ DatabaseInv(d)
    BY <1>1, <1>9 DEF UpdInv, UpdTypeOK
  <2> QED
    BY <1>1, <1>3, <1>4, <2>1, DatabaseGrows
<1>10. DatabaseInv(db)' /\ DatabaseInv(saved)'
  <2>1. PICK d : d = db
    OBVIOUS
  <2>2. PICK e : e = saved
    OBVIOUS
  <2>3. DatabaseInv(d)' /\ DatabaseInv(e)'
    BY <1>9, <2>1, <2>2
  <2>4. DatabaseInv(db)'
    BY <1>2, <2>1, <2>3 DEF DatabaseInv, ShownSince
  <2>5. DatabaseInv(saved)'
    BY <1>2, <2>2, <2>3 DEF DatabaseInv, ShownSince
  <2> QED
    BY <2>4, <2>5
<1>11. OrderInv'
  <2>1. Drawn' = Drawn
    BY <1>2 DEF Drawn
  <2>2. \A p \in Drawn : p.since <= Now' /\ \A q \in Drawn : p.seq < q.seq => p.since <= q.since
    <3>1. Now \in Nat /\ \A p \in Drawn : p.since \in Nat
      BY <1>1, Moments, DrawnTypes
    <3>2. \A p \in Drawn : p.since <= Now /\ \A q \in Drawn : p.seq < q.seq => p.since <= q.since
      BY DEF UpdInv, OrderInv
    <3> QED
      BY <1>3, <3>1, <3>2
  <2> QED
    BY <2>1, <2>2 DEF OrderInv
<1> QED
  BY <1>5, <1>6, <1>7, <1>8, <1>10, <1>11 DEF UpdInv

LEMMA FileReportKeeps ==
  ASSUME UpdInv, NEW k \in Key, FileReport(k)
  PROVE  UpdInv'
<1> DEFINE t == [Table EXCEPT !.filed = Append(@, k)]
<1>1. Table \in Tables /\ Table.filed \in Seq(Key)
  BY Moments DEF UpdInv, Tables
<1>2. t \in Tables /\ t.head = Table.head /\ t.filed = Append(Table.filed, k)
  BY <1>1 DEF Tables
<1>3. Table.head <= t.head
  BY <1>1, <1>2, Assumption DEF Tables
<1>4. ASSUME NEW x, InTable(x, Table) PROVE InTable(x, t)
  <2>1. PICK i \in 1..Len(Table.filed) : Table.filed[i] = x
    BY <1>4 DEF InTable
  <2>2. i \in 1..Len(t.filed) /\ t.filed[i] = x
    BY <1>1, <1>2, <2>1
  <2> QED
    BY <2>2 DEF InTable
<1>5. Change(t)
  BY DEF FileReport
<1> HIDE DEF t
<1> QED
  BY <1>2, <1>3, <1>4, <1>5, ChangeKeeps

LEMMA JudgeKeeps ==
  ASSUME UpdInv, NEW k \in Key, NEW v \in Verdict, Judge(k, v)
  PROVE  UpdInv'
<1> DEFINE t == [Table EXCEPT !.verdict[k] = v]
<1>1. Table \in Tables
  BY Moments DEF UpdInv
<1>2. t \in Tables /\ t.head = Table.head /\ t.filed = Table.filed
  BY <1>1 DEF Tables
<1>3. Table.head <= t.head
  BY <1>1, <1>2, Assumption DEF Tables
<1>4. \A x : InTable(x, Table) => InTable(x, t)
  BY <1>2 DEF InTable
<1>5. Change(t)
  BY DEF Judge
<1> HIDE DEF t
<1> QED
  BY <1>2, <1>3, <1>4, <1>5, ChangeKeeps

LEMMA PublishKeeps ==
  ASSUME UpdInv, Publish
  PROVE  UpdInv'
<1> DEFINE t == [Table EXCEPT !.head = @ + 1]
<1>1. Table \in Tables /\ Table.head \in 0..MaxGen /\ Table.head < MaxGen /\ MaxGen \in Nat
  BY Moments, Assumption DEF UpdInv, Publish
<1>2. t \in Tables /\ t.head = Table.head + 1 /\ t.filed = Table.filed
  BY <1>1 DEF Tables
<1>3. Table.head <= t.head
  BY <1>1, <1>2
<1>4. \A x : InTable(x, Table) => InTable(x, t)
  BY <1>2 DEF InTable
<1>5. Change(t)
  BY DEF Publish
<1> HIDE DEF t
<1> QED
  BY <1>2, <1>3, <1>4, <1>5, ChangeKeeps

-----------------------------------------------------------------------------
(***************************************************************************)
(* A number is drawn.                                                      *)
(***************************************************************************)

LEMMA NumbersFinite ==
  ASSUME UpdTypeOK
  PROVE  IsFiniteSet(Numbers) /\ Numbers \subseteq Nat \ {0}
<1> DEFINE Image == {sync[s].bundle.seq : s \in Sync}
           f == [s \in Sync |-> sync[s].bundle.seq]
           T == {staged.seq, db.last, saved.last}
<1>1. IsFiniteSet(Image)
  <2>1. f \in Surjection(Sync, Image)
    BY DEF Surjection
  <2> HIDE DEF f, Image
  <2> QED
    BY <2>1, Assumption, FS_Surjection
<1>2. IsFiniteSet(T)
  <2>1. IsFiniteSet({staged.seq}) /\ IsFiniteSet({db.last}) /\ IsFiniteSet({saved.last})
    BY FS_Singleton
  <2>2. IsFiniteSet({staged.seq} \cup {db.last})
    BY <2>1, FS_Union
  <2>3. IsFiniteSet(({staged.seq} \cup {db.last}) \cup {saved.last})
    BY <2>1, <2>2, FS_Union
  <2>4. T = ({staged.seq} \cup {db.last}) \cup {saved.last}
    OBVIOUS
  <2> QED
    BY <2>3, <2>4
<1>3. IsFiniteSet(Image \cup T)
  BY <1>1, <1>2, FS_Union
<1>4. Numbers \in SUBSET (Image \cup T)
  BY DEF Numbers
<1>5. \A s \in Sync : sync[s].bundle.seq \in Nat
  <2>1. \A s \in Sync : sync[s].bundle \in Bundle
    BY DrawnTypes
  <2> QED
    BY <2>1 DEF Bundle
<1>6. staged.seq \in Nat /\ db.last \in Nat /\ saved.last \in Nat
  BY DEF UpdTypeOK, Bundle, Database
<1>7. Numbers \subseteq Nat \ {0}
  BY <1>5, <1>6 DEF Numbers
<1> QED
  BY <1>3, <1>4, <1>7, FS_Subset

\* Ranks keep the order.
LEMMA Ranks ==
  ASSUME UpdTypeOK
  PROVE  /\ \A p : Rank(p) \in Nat /\ Rank(p) <= Cardinality(Numbers)
         /\ Rank(0) = 0
         /\ \A p, q \in Nat : Rank(p) < Rank(q) => p < q
         /\ Cardinality(Numbers) \in Nat
<1>1. IsFiniteSet(Numbers) /\ Numbers \subseteq Nat \ {0} /\ Cardinality(Numbers) \in Nat
  BY NumbersFinite, FS_CardinalityType
<1>6. \A p \in Numbers : p \in Nat /\ ~(p <= 0)
  BY <1>1
<1> DEFINE Below(q) == {p \in Numbers : p <= q}
<1>2. ASSUME NEW q
      PROVE  IsFiniteSet(Below(q)) /\ Rank(q) = Cardinality(Below(q)) /\ Rank(q) \in Nat
             /\ Rank(q) <= Cardinality(Numbers)
  <2>1. Below(q) \in SUBSET Numbers /\ Rank(q) = Cardinality(Below(q))
    BY DEF Rank
  <2> HIDE DEF Below
  <2> QED
    BY <1>1, <2>1, FS_Subset, FS_CardinalityType
<1>3. Rank(0) = 0
  <2>1. \A p \in Below(0) : FALSE
    BY <1>6
  <2> HIDE DEF Below
  <2>2. Below(0) = {}
    BY <2>1
  <2> QED
    BY <1>2, <2>2, FS_EmptySet
<1>4. ASSUME NEW p \in Nat, NEW q \in Nat, q <= p
      PROVE  Rank(q) <= Rank(p)
  <2>1. \A n \in Nat : n <= q => n <= p
    BY <1>4
  <2>3. Below(q) \in SUBSET Below(p)
    BY <1>6, <2>1
  <2> HIDE DEF Below
  <2> QED
    BY <1>2, <2>3, FS_Subset
<1>5. ASSUME NEW p \in Nat, NEW q \in Nat, Rank(p) < Rank(q)
      PROVE  p < q
  <2>1. Rank(p) \in Nat /\ Rank(q) \in Nat
    BY <1>2
  <2>2. q <= p => Rank(q) <= Rank(p)
    BY <1>4
  <2> QED
    BY <1>5, <2>1, <2>2
<1> QED
  BY <1>1, <1>2, <1>3, <1>5

\* What does not depend on the numbers.
LEMMA Renumbered ==
  ASSUME UpdTypeOK, history' = history
  PROVE  /\ Now' = Now /\ Table' = Table
         /\ \A b : (RowsInv(b)' <=> RowsInv(b)) /\ (ReadOnce(b)' <=> ReadOnce(b))
         /\ \A d : DatabaseInv(d)' <=> DatabaseInv(d)
         /\ HistoryInv' <=> HistoryInv
<1>1. Now' = Now /\ Table' = Table
  BY DEF Now, Table
<1>2. \A b : RowsInv(b)' <=> RowsInv(b)
  BY <1>1 DEF RowsInv
<1>3. \A b : ReadOnce(b)' <=> ReadOnce(b)
  BY <1>1 DEF ReadOnce, PageAt
<1>4. ASSUME NEW d PROVE DatabaseInv(d)' <=> DatabaseInv(d)
  <2>1. (\A n \in Nonce : d.report[n] = "acked" => Genuine(n)')
          <=> (\A n \in Nonce : d.report[n] = "acked" => Genuine(n))
    BY <1>1 DEF Genuine, InTable, Acks
  <2>2. (\E v \in d.since..Now' : ShownSince(d, v)') <=> (\E v \in d.since..Now : ShownSince(d, v))
    BY <1>1 DEF ShownSince
  <2> QED
    BY <1>1, <2>1, <2>2 DEF DatabaseInv
<1>5. HistoryInv' <=> HistoryInv
  BY <1>1 DEF HistoryInv, InTable
<1> QED
  BY <1>1, <1>2, <1>3, <1>4, <1>5

LEMMA ServedStep ==
  ASSUME UpdInv, NEW s \in Sync, NEW x \in Slot, sync' = [sync EXCEPT ![s] = x], history' = history,
         x.pc # "idle" => x.bundle.since \in 1..Now /\ RowsInv(x.bundle),
         x.pc \in {"receipts", "answer"} => Labelled(x.bundle),
         x.pc = "answer" => ReadOnce(x.bundle)
  PROVE  /\ sync' \in [Sync -> Slot] /\ ServedInv' /\ HistoryInv'
         /\ sync'[s] = x /\ \A u \in Sync : u # s => sync'[u] = sync[u]
<1>1. UpdTypeOK /\ ServedInv /\ HistoryInv /\ sync \in [Sync -> Slot]
  BY DEF UpdInv, UpdTypeOK, Slot
<1>2. sync' \in [Sync -> Slot] /\ sync'[s] = x /\ \A u \in Sync : u # s => sync'[u] = sync[u]
  BY <1>1
<1>3. Now' = Now /\ HistoryInv'
  BY <1>1, Renumbered
<1>4. \A b : (RowsInv(b)' <=> RowsInv(b)) /\ (ReadOnce(b)' <=> ReadOnce(b))
  BY <1>1, Renumbered
<1>5. ServedInv'
  <2> SUFFICES ASSUME NEW u \in Sync
               PROVE  (LET b == sync[u].bundle IN
                       /\ sync[u].pc # "idle" => b.since \in 1..Now /\ RowsInv(b)
                       /\ sync[u].pc \in {"receipts", "answer"} => Labelled(b)
                       /\ sync[u].pc = "answer" => ReadOnce(b))'
    BY DEF ServedInv
  <2>1. PICK y : y = sync'[u]
    OBVIOUS
  <2>2. /\ y.pc # "idle" => y.bundle.since \in 1..Now /\ RowsInv(y.bundle)
        /\ y.pc \in {"receipts", "answer"} => Labelled(y.bundle)
        /\ y.pc = "answer" => ReadOnce(y.bundle)
    <3>1. CASE u = s
      BY <1>2, <2>1, <3>1
    <3>2. CASE u # s
      <4>1. y = sync[u]
        BY <1>2, <2>1, <3>2
      <4> QED
        BY <1>1, <4>1 DEF ServedInv
    <3> QED
      BY <3>1, <3>2
  <2>3. PICK b : b = y.bundle
    OBVIOUS
  <2>4. y.pc # "idle" => RowsInv(b)'
    BY <1>4, <2>2, <2>3
  <2>5. y.pc = "answer" => ReadOnce(b)'
    BY <1>4, <2>2, <2>3
  <2>6. y.pc # "idle" => (RowsInv(sync[u].bundle))'
    BY <2>1, <2>3, <2>4 DEF RowsInv
  <2>7. y.pc = "answer" => (ReadOnce(sync[u].bundle))'
    BY <2>1, <2>3, <2>5 DEF ReadOnce
  <2>8. y.pc \in {"receipts", "answer"} => (Labelled(sync[u].bundle))'
    BY <2>1, <2>2 DEF Labelled
  <2> QED
    BY <1>3, <2>1, <2>2, <2>6, <2>7, <2>8
<1> QED
  BY <1>2, <1>3, <1>5

\* A file that is there stays as good as it was.
LEMMA StagedKept ==
  ASSUME UpdTypeOK, StagedInv, history' = history, staged' = staged
  PROVE  StagedInv'
<1> SUFFICES ASSUME staged.seq # 0 PROVE Whole(staged)'
  BY DEF StagedInv
<1>1. PICK b : b = staged
  OBVIOUS
<1>2. Whole(b)
  BY <1>1 DEF StagedInv
<1>3. RowsInv(b)' /\ ReadOnce(b)' /\ Now' = Now
  BY <1>2, Renumbered DEF Whole
<1>4. RowsInv(staged)'
  BY <1>1, <1>3 DEF RowsInv
<1>5. ReadOnce(staged)'
  BY <1>1, <1>3 DEF ReadOnce
<1>6. Labelled(staged)' /\ staged'.since \in 1..Now'
  BY <1>1, <1>2, <1>3 DEF Whole, Labelled
<1> QED
  BY <1>4, <1>5, <1>6 DEF Whole

LEMMA DatabasesKept ==
  ASSUME UpdTypeOK, DatabaseInv(db), DatabaseInv(saved), history' = history, db' = db, saved' = saved
  PROVE  DatabaseInv(db)' /\ DatabaseInv(saved)'
<1>1. PICK d : d = db
  OBVIOUS
<1>2. PICK e : e = saved
  OBVIOUS
<1>3. DatabaseInv(d)' /\ DatabaseInv(e)'
  BY <1>1, <1>2, Renumbered
<1>4. DatabaseInv(db)'
  BY <1>1, <1>3 DEF DatabaseInv, ShownSince
<1>5. DatabaseInv(saved)'
  BY <1>2, <1>3 DEF DatabaseInv, ShownSince
<1> QED
  BY <1>4, <1>5

LEMMA OrderKept ==
  ASSUME UpdInv, history' = history, Drawn' \subseteq Drawn
  PROVE  OrderInv'
<1>1. Now' = Now
  BY DEF Now
<1>2. \A p \in Drawn : p.since <= Now /\ \A q \in Drawn : p.seq < q.seq => p.since <= q.since
  BY DEF UpdInv, OrderInv
<1> QED
  BY <1>1, <1>2 DEF OrderInv

\* A read puts something into a bundle and leaves its number and moment.
LEMMA ReadKeeps ==
  ASSUME UpdInv, NEW s \in Sync, UNCHANGED <<history, db, saved>>, staged' = staged,
         NEW pc \in {"labels", "receipts", "answer"}, NEW b \in Bundle, Step(s, pc, b),
         b.seq = sync[s].bundle.seq, b.since = sync[s].bundle.since,
         b.since \in 1..Now /\ RowsInv(b),
         pc \in {"receipts", "answer"} => Labelled(b), pc = "answer" => ReadOnce(b)
  PROVE  UpdInv'
<1> DEFINE x == [pc |-> pc, bundle |-> b]
<1>1. x \in Slot /\ x.pc = pc /\ x.bundle = b
  BY DEF Slot
<1>2. sync' = [sync EXCEPT ![s] = x]
  BY DEF Step
<1>3. history' = history /\ db' = db /\ saved' = saved
  OBVIOUS
<1> HIDE DEF x
<1>4. /\ sync' \in [Sync -> Slot] /\ ServedInv' /\ HistoryInv'
      /\ sync'[s] = x /\ \A u \in Sync : u # s => sync'[u] = sync[u]
  BY <1>1, <1>2, <1>3, ServedStep
<1>5. UpdTypeOK'
  BY <1>3, <1>4 DEF UpdInv, UpdTypeOK, Slot
<1>6. StagedInv'
  BY <1>3, StagedKept DEF UpdInv
<1>7. DatabaseInv(db)' /\ DatabaseInv(saved)'
  BY <1>3, DatabasesKept DEF UpdInv
<1>8. OrderInv'
  <2>1. \A u \in Sync : sync'[u].bundle.seq = sync[u].bundle.seq
                          /\ sync'[u].bundle.since = sync[u].bundle.since
    BY <1>1, <1>4
  <2>2. Drawn' \subseteq Drawn
    BY <1>3, <2>1 DEF Drawn
  <2> QED
    BY <1>3, <2>2, OrderKept
<1> QED
  BY <1>4, <1>5, <1>6, <1>7, <1>8 DEF UpdInv

\* Where a call is.
LEMMA Under ==
  ASSUME UpdInv, NEW s \in Sync, sync[s].pc # "idle"
  PROVE  /\ sync[s].bundle \in Bundle /\ sync[s].bundle.since \in 1..Now /\ RowsInv(sync[s].bundle)
         /\ sync[s].bundle.rows \subseteq [row: Row, gen: 1..MaxGen, label: 0..MaxGen]
         /\ sync[s].bundle.receipts \subseteq [key: Key, status: Verdict]
         /\ sync[s].bundle.seq \in Nat /\ sync[s].bundle.since \in Nat
         /\ sync[s].pc \in {"receipts", "answer"} => Labelled(sync[s].bundle)
         /\ sync[s].pc = "answer" => ReadOnce(sync[s].bundle)
         /\ Table.head \in 0..MaxGen /\ MaxGen \in Nat /\ Now \in Nat \ {0}
<1>1. sync[s].bundle \in Bundle /\ UpdTypeOK
  BY DrawnTypes DEF UpdInv
<1>2. /\ sync[s].bundle.since \in 1..Now /\ RowsInv(sync[s].bundle)
      /\ sync[s].pc \in {"receipts", "answer"} => Labelled(sync[s].bundle)
      /\ sync[s].pc = "answer" => ReadOnce(sync[s].bundle)
  BY DEF UpdInv, ServedInv
<1> QED
  BY <1>1, <1>2, Moments, Assumption DEF Bundle

LEMMA ReadRowsKeeps ==
  ASSUME UpdInv, NEW s \in Sync, ReadRows(s)
  PROVE  UpdInv'
<1> DEFINE g == Table.head
           found == IF g = 0 THEN {} ELSE Standing[g]
           rows == {[row |-> r, gen |-> g, label |-> 0] : r \in found}
           b == [sync[s].bundle EXCEPT !.rows = rows]
           pc == IF found = {} THEN "receipts" ELSE "labels"
<1>1. At(s, "rows") /\ Step(s, pc, b) /\ staged' = staged
  BY DEF ReadRows
<1>2. sync[s].pc = "rows" /\ UNCHANGED <<history, db, saved>>
  BY <1>1 DEF At
<1>3. /\ sync[s].bundle \in Bundle /\ sync[s].bundle.since \in 1..Now
      /\ Table.head \in 0..MaxGen /\ MaxGen \in Nat
  BY <1>2, Under
<1>4. found \subseteq Row /\ (g = 0 => found = {}) /\ (g # 0 => g \in 1..MaxGen /\ found = Standing[g])
  BY <1>3, Assumption
<1> HIDE DEF found
<1>5. rows \subseteq [row: Row, gen: 1..MaxGen, label: 0..MaxGen]
  BY <1>3, <1>4
<1>6. \A x \in rows : x.gen = Table.head /\ x.row \in Standing[x.gen] /\ x.label = 0
  BY <1>3, <1>4
<1>7. found = {} => rows = {}
  OBVIOUS
<1> HIDE DEF rows
<1>8. b \in Bundle /\ b.seq = sync[s].bundle.seq /\ b.since = sync[s].bundle.since /\ b.rows = rows
  BY <1>3, <1>5 DEF Bundle
<1> HIDE DEF b
<1>9. RowsInv(b)
  BY <1>3, <1>6, <1>8 DEF RowsInv
<1>10. pc \in {"labels", "receipts", "answer"} /\ (pc \in {"receipts", "answer"} => Labelled(b))
       /\ pc # "answer"
  BY <1>7, <1>8 DEF Labelled
<1> HIDE DEF pc
<1> QED
  BY <1>1, <1>2, <1>3, <1>8, <1>9, <1>10, ReadKeeps

LEMMA LabelKeeps ==
  ASSUME UpdInv, NEW s \in Sync, Label(s)
  PROVE  UpdInv'
<1> DEFINE rest(x) == sync[s].bundle.rows \ {x}
           rows(x) == rest(x) \cup {[x EXCEPT !.label = Active(s)]}
           pc(x) == IF \A y \in rest(x) : y.label # 0 THEN "receipts" ELSE "labels"
<1>1. At(s, "labels") /\ staged' = staged
  BY DEF Label
<1>2. PICK x \in sync[s].bundle.rows :
        x.label = 0 /\ Step(s, pc(x), [sync[s].bundle EXCEPT !.rows = rows(x)])
  BY DEF Label
<1> DEFINE b == [sync[s].bundle EXCEPT !.rows = rows(x)]
           y == [x EXCEPT !.label = Table.head]
<1>3. sync[s].pc = "labels" /\ UNCHANGED <<history, db, saved>>
  BY <1>1 DEF At
<1>4. /\ sync[s].bundle \in Bundle /\ sync[s].bundle.since \in 1..Now /\ RowsInv(sync[s].bundle)
      /\ sync[s].bundle.rows \subseteq [row: Row, gen: 1..MaxGen, label: 0..MaxGen]
      /\ Table.head \in 0..MaxGen /\ MaxGen \in Nat
  BY <1>3, Under
<1>5. x \in [row: Row, gen: 1..MaxGen, label: 0..MaxGen]
  BY <1>2, <1>4
<1>6. y \in [row: Row, gen: 1..MaxGen, label: 0..MaxGen]
      /\ y.row = x.row /\ y.gen = x.gen /\ y.label = Table.head
  BY <1>4, <1>5
<1>7. rows(x) = rest(x) \cup {y}
  BY DEF Active
<1>8. x.gen <= Table.head /\ x.row \in Standing[x.gen]
  BY <1>2, <1>4 DEF RowsInv
<1>9. y.label # 0 /\ y.gen <= y.label /\ y.label <= Table.head /\ y.gen <= Table.head
      /\ y.row \in Standing[y.gen]
  BY <1>4, <1>5, <1>6, <1>8
<1> HIDE DEF y
<1>10. rows(x) \subseteq [row: Row, gen: 1..MaxGen, label: 0..MaxGen]
  BY <1>4, <1>6, <1>7
<1>11. \A z \in rows(x) : z \in sync[s].bundle.rows \/ z = y
  BY <1>7
<1> HIDE DEF rows
<1>12. b \in Bundle /\ b.seq = sync[s].bundle.seq /\ b.since = sync[s].bundle.since
       /\ b.rows = rows(x)
  BY <1>4, <1>10 DEF Bundle
<1> HIDE DEF b
<1>13. RowsInv(b)
  BY <1>4, <1>9, <1>11, <1>12 DEF RowsInv
<1>14. pc(x) \in {"labels", "receipts", "answer"} /\ pc(x) # "answer"
       /\ (pc(x) \in {"receipts", "answer"} => Labelled(b))
  BY <1>7, <1>9, <1>12 DEF Labelled
<1>15. Step(s, pc(x), b)
  BY <1>2 DEF b
<1> HIDE DEF pc
<1> QED
  BY <1>1, <1>3, <1>4, <1>12, <1>13, <1>14, <1>15, ReadKeeps

LEMMA ReadReceiptsKeeps ==
  ASSUME UpdInv, NEW s \in Sync, ReadReceipts(s)
  PROVE  UpdInv'
<1> DEFINE receipts == {[key |-> k, status |-> Table.verdict[k]] : k \in FirstPage(Table)}
           b == [sync[s].bundle EXCEPT !.receipts = receipts]
<1>1. At(s, "receipts") /\ Step(s, "answer", b) /\ staged' = staged
  BY DEF ReadReceipts
<1>2. sync[s].pc = "receipts" /\ UNCHANGED <<history, db, saved>>
  BY <1>1 DEF At
<1>3. /\ sync[s].bundle \in Bundle /\ sync[s].bundle.since \in 1..Now /\ RowsInv(sync[s].bundle)
      /\ Labelled(sync[s].bundle) /\ Now \in Nat \ {0}
  BY <1>2, Under
<1>4. receipts = PageAt(Now) /\ Now \in 1..Now
  BY <1>3 DEF PageAt, Table
<1>5. receipts \subseteq [key: Key, status: Verdict]
  BY <1>4, PageReceipts DEF UpdInv
<1> HIDE DEF receipts
<1>6. b \in Bundle /\ b.seq = sync[s].bundle.seq /\ b.since = sync[s].bundle.since
      /\ b.rows = sync[s].bundle.rows /\ b.receipts = receipts
  BY <1>3, <1>5 DEF Bundle
<1> HIDE DEF b
<1>7. RowsInv(b) /\ Labelled(b)
  BY <1>3, <1>6 DEF RowsInv, Labelled
<1>8. ReadOnce(b)
  BY <1>3, <1>4, <1>6 DEF ReadOnce
<1> QED
  BY <1>1, <1>2, <1>3, <1>6, <1>7, <1>8, ReadKeeps

LEMMA Nothing ==
  NoBundle \in Bundle /\ NoBundle.seq = 0 /\ NoBundle.since = 0
  /\ [pc |-> "idle", bundle |-> NoBundle] \in Slot
BY DEF NoBundle, Bundle, Slot

\* A call ends; its bundle may be the staged one from now on.
LEMMA EndKeeps ==
  ASSUME UpdInv, NEW s \in Sync, At(s, "answer"), Step(s, "idle", NoBundle),
         staged' = staged \/ staged' = sync[s].bundle,
         NoBundle.seq = 0
  PROVE  UpdInv'
<1> DEFINE x == [pc |-> "idle", bundle |-> NoBundle]
<1>1. x \in Slot /\ x.pc = "idle" /\ x.bundle = NoBundle /\ sync' = [sync EXCEPT ![s] = x]
  BY Nothing DEF Step
<1>2. sync[s].pc = "answer" /\ history' = history /\ db' = db /\ saved' = saved
  BY DEF At
<1> HIDE DEF x
<1>3. /\ sync' \in [Sync -> Slot] /\ ServedInv' /\ HistoryInv'
      /\ sync'[s] = x /\ \A u \in Sync : u # s => sync'[u] = sync[u]
  BY <1>1, <1>2, ServedStep
<1>4. /\ sync[s].bundle \in Bundle /\ sync[s].bundle.since \in 1..Now /\ RowsInv(sync[s].bundle)
      /\ Labelled(sync[s].bundle) /\ ReadOnce(sync[s].bundle)
  BY <1>2, Under
<1>5. UpdTypeOK'
  BY <1>2, <1>3, <1>4 DEF UpdInv, UpdTypeOK, Slot
<1>6. StagedInv'
  <2>1. CASE staged' = staged
    BY <1>2, <2>1, StagedKept DEF UpdInv
  <2>2. CASE staged' = sync[s].bundle
    <3>1. PICK b : b = sync[s].bundle
      OBVIOUS
    <3>2. RowsInv(b)' /\ ReadOnce(b)' /\ Now' = Now
      BY <1>2, <1>4, <3>1, Renumbered DEF UpdInv
    <3>3. RowsInv(staged)'
      BY <2>2, <3>1, <3>2 DEF RowsInv
    <3>4. ReadOnce(staged)'
      BY <2>2, <3>1, <3>2 DEF ReadOnce
    <3>5. Labelled(staged)'
      BY <1>4, <2>2 DEF Labelled
    <3>6. staged'.since \in 1..Now'
      BY <1>4, <2>2, <3>2
    <3> QED
      BY <3>3, <3>4, <3>5, <3>6 DEF StagedInv, Whole
  <2> QED
    BY <2>1, <2>2
<1>7. DatabaseInv(db)' /\ DatabaseInv(saved)'
  BY <1>2, DatabasesKept DEF UpdInv
<1>8. OrderInv'
  <2>1. Now' = Now
    BY <1>2 DEF Now
  <2>2. \A p \in Drawn' : p \in Drawn \/ p = [seq |-> 0, since |-> 0]
    <3>1. ASSUME NEW u \in Sync
          PROVE  [seq |-> sync'[u].bundle.seq, since |-> sync'[u].bundle.since]
                   \in Drawn \cup {[seq |-> 0, since |-> 0]}
      <4>1. CASE u = s
        BY <1>1, <1>3, <4>1, Nothing
      <4>2. CASE u # s
        BY <1>3, <4>2 DEF Drawn
      <4> QED
        BY <4>1, <4>2
    <3>2. [seq |-> staged'.seq, since |-> staged'.since] \in Drawn
      BY DEF Drawn
    <3> QED
      BY <1>2, <3>1, <3>2 DEF Drawn
  <2>3. \A p \in Drawn : p.seq \in Nat /\ p.since \in Nat
    BY DrawnTypes DEF UpdInv
  <2>4. \A p \in Drawn : p.since <= Now /\ \A q \in Drawn : p.seq < q.seq => p.since <= q.since
    BY DEF UpdInv, OrderInv
  <2>5. Now \in Nat
    BY Moments DEF UpdInv
  <2>6. \A p \in Drawn' : p.since <= Now
    BY <2>2, <2>4, <2>5
  <2>7. \A p, q \in Drawn' : p.seq < q.seq => p.since <= q.since
    BY <2>2, <2>3, <2>4
  <2> QED
    BY <2>1, <2>6, <2>7 DEF OrderInv
<1> QED
  BY <1>3, <1>5, <1>6, <1>7, <1>8 DEF UpdInv

LEMMA StageKeeps ==
  ASSUME UpdInv, NEW s \in Sync, Stage(s) \/ Fail(s)
  PROVE  UpdInv'
BY EndKeeps, Nothing DEF Stage, Fail

-----------------------------------------------------------------------------
(* The addon loads. *)

\* The database is what an import made of one of the two.
LEMMA LoadKeeps ==
  ASSUME UpdInv, NEW d, d \in {db, saved}, db' = Import(d, staged),
         saved' \in {db, saved}, UNCHANGED <<history, sync>>, staged' = staged
  PROVE  UpdInv'
<1>1. UpdTypeOK /\ HistoryInv /\ StagedInv /\ staged \in Bundle /\ db \in Database /\ saved \in Database
      /\ DatabaseInv(db) /\ DatabaseInv(saved)
  BY DEF UpdInv, UpdTypeOK
<1>2. history' = history /\ sync' = sync
  OBVIOUS
<1>3. d.last < staged.seq => d.since <= staged.since
  <2>1. [seq |-> d.last, since |-> d.since] \in Drawn
        /\ [seq |-> staged.seq, since |-> staged.since] \in Drawn
    BY DEF Drawn
  <2> QED
    BY <2>1 DEF UpdInv, OrderInv
<1>4. PICK b : b = staged
  OBVIOUS
<1>5. d \in Database /\ DatabaseInv(d) /\ b \in Bundle /\ (b.seq # 0 => Whole(b))
  BY <1>1, <1>4 DEF StagedInv
<1>6. /\ Import(d, b) \in Database /\ DatabaseInv(Import(d, b))
      /\ \/ Import(d, b) = d
         \/ Import(d, b).last = b.seq /\ Import(d, b).since = b.since
  BY <1>1, <1>3, <1>4, <1>5, ImportKeeps
<1>7. PICK e : e = Import(d, b)
  OBVIOUS
<1>8. e \in Database /\ DatabaseInv(e) /\ db' = e
  BY <1>4, <1>6, <1>7
<1>9. PICK f : f = saved'
  OBVIOUS
<1>10. f \in Database /\ DatabaseInv(f)
  <2>1. f = db \/ f = saved
    BY <1>9
  <2>2. CASE f = db
    BY <1>1, <2>2
  <2>3. CASE f = saved
    BY <1>1, <2>3
  <2> QED
    BY <2>1, <2>2, <2>3
<1>11. UpdTypeOK'
  BY <1>1, <1>2, <1>8, <1>9, <1>10 DEF UpdTypeOK
<1>12. Now' = Now /\ Table' = Table /\ HistoryInv' /\ DatabaseInv(e)' /\ DatabaseInv(f)'
  BY <1>1, <1>2, <1>8, <1>10, Renumbered
<1>13. DatabaseInv(db)'
  BY <1>8, <1>12 DEF DatabaseInv, ShownSince
<1>14. DatabaseInv(saved)'
  BY <1>9, <1>12 DEF DatabaseInv, ShownSince
<1>15. StagedInv'
  BY <1>1, <1>2, StagedKept
<1>16. ServedInv'
  <2>1. \A x : (RowsInv(x)' <=> RowsInv(x)) /\ (ReadOnce(x)' <=> ReadOnce(x))
    BY <1>1, <1>2, Renumbered
  <2> SUFFICES ASSUME NEW u \in Sync
               PROVE  (LET x == sync[u].bundle IN
                       /\ sync[u].pc # "idle" => x.since \in 1..Now /\ RowsInv(x)
                       /\ sync[u].pc \in {"receipts", "answer"} => Labelled(x)
                       /\ sync[u].pc = "answer" => ReadOnce(x))'
    BY DEF ServedInv
  <2>2. PICK y : y = sync[u]
    OBVIOUS
  <2>3. PICK x : x = y.bundle
    OBVIOUS
  <2>4. /\ y.pc # "idle" => x.since \in 1..Now /\ RowsInv(x)
        /\ y.pc \in {"receipts", "answer"} => Labelled(x)
        /\ y.pc = "answer" => ReadOnce(x)
    BY <2>2, <2>3 DEF UpdInv, ServedInv
  <2>5. (y.pc # "idle" => RowsInv(x)') /\ (y.pc = "answer" => ReadOnce(x)')
    BY <2>1, <2>4
  <2>6. y.pc # "idle" => (RowsInv(sync[u].bundle))'
    BY <1>2, <2>2, <2>3, <2>5 DEF RowsInv
  <2>7. y.pc = "answer" => (ReadOnce(sync[u].bundle))'
    BY <1>2, <2>2, <2>3, <2>5 DEF ReadOnce
  <2>8. y.pc \in {"receipts", "answer"} => (Labelled(sync[u].bundle))'
    BY <1>2, <2>2, <2>3, <2>4 DEF Labelled
  <2> QED
    BY <1>2, <1>12, <2>2, <2>3, <2>4, <2>6, <2>7, <2>8
<1>17. OrderInv'
  <2>1. [seq |-> e.last, since |-> e.since] \in Drawn
    <3>1. CASE e = d
      BY <3>1 DEF Drawn
    <3>2. CASE e.last = b.seq /\ e.since = b.since
      BY <1>4, <3>2 DEF Drawn
    <3> QED
      BY <1>6, <1>7, <3>1, <3>2
  <2>2. [seq |-> f.last, since |-> f.since] \in Drawn
    BY <1>9 DEF Drawn
  <2>3. Drawn' \subseteq Drawn
    BY <1>2, <1>8, <1>9, <2>1, <2>2 DEF Drawn
  <2> QED
    BY <1>2, <2>3, OrderKept
<1> QED
  BY <1>11, <1>12, <1>13, <1>14, <1>15, <1>16, <1>17 DEF UpdInv

LEMMA ReloadKeeps ==
  ASSUME UpdInv, Reload
  PROVE  UpdInv'
<1>1. PICK d : d = db
  OBVIOUS
<1>2. db' = Import(d, staged) /\ saved' \in {db, saved} /\ UNCHANGED <<history, sync>>
      /\ staged' = staged
  BY <1>1 DEF Reload
<1> QED
  BY <1>1, <1>2, LoadKeeps

LEMMA CrashGameKeeps ==
  ASSUME UpdInv, CrashGame
  PROVE  UpdInv'
<1>1. PICK d : d = saved
  OBVIOUS
<1>2. db' = Import(d, staged) /\ saved' \in {db, saved} /\ UNCHANGED <<history, sync>>
      /\ staged' = staged
  BY <1>1 DEF CrashGame
<1> QED
  BY <1>1, <1>2, LoadKeeps

-----------------------------------------------------------------------------
(* A call begins: all numbers in use become their ranks. *)

LEMMA SameBundle ==
  ASSUME NEW b, NEW c, c.since = b.since, c.rows = b.rows, c.receipts = b.receipts
  PROVE  /\ RowsInv(b) => RowsInv(c)
         /\ Labelled(b) => Labelled(c)
         /\ ReadOnce(b) => ReadOnce(c)
         /\ Whole(b) => Whole(c)
<1>1. RowsInv(b) => RowsInv(c)
  BY DEF RowsInv
<1>2. Labelled(b) => Labelled(c)
  BY DEF Labelled
<1>3. ReadOnce(b) => ReadOnce(c)
  BY DEF ReadOnce
<1> QED
  BY <1>1, <1>2, <1>3 DEF Whole

LEMMA SameDatabase ==
  ASSUME NEW d, NEW e, e.since = d.since, e.report = d.report, e.status = d.status,
         e.ladder = d.ladder, d.last = 0 => e.last = 0, DatabaseInv(d)
  PROVE  DatabaseInv(e)
<1>1. \A v : ShownSince(d, v) <=> ShownSince(e, v)
  BY DEF ShownSince
<1> QED
  BY <1>1 DEF DatabaseInv

\* The database that is now e holds of the new state what e held of the old.
LEMMA RankedDatabase ==
  ASSUME UpdTypeOK, history' = history, NEW d \in Database, DatabaseInv(d), NEW e,
         e = [d EXCEPT !.last = Rank(@)]
  PROVE  /\ e \in Database /\ e.last = Rank(d.last) /\ e.since = d.since
         /\ DatabaseInv(e)'
<1>1. d.last \in Nat /\ Rank(d.last) \in Nat /\ Rank(0) = 0
  BY Ranks DEF Database
<1>2. PICK q \in Nat : q = Rank(d.last)
  BY <1>1
<1>3. e = [d EXCEPT !.last = q]
  BY <1>2
<1>4. /\ e \in Database /\ e.last = q /\ e.since = d.since
      /\ e.report = d.report /\ e.status = d.status /\ e.ladder = d.ladder
  BY <1>3 DEF Database
<1>5. d.last = 0 => e.last = 0
  BY <1>1, <1>2, <1>4
<1>6. DatabaseInv(e)
  BY <1>4, <1>5, SameDatabase
<1> QED
  BY <1>2, <1>4, <1>6, Renumbered

LEMMA RankedBundle ==
  ASSUME UpdTypeOK, NEW b \in Bundle, NEW c, c = [b EXCEPT !.seq = Rank(@)]
  PROVE  /\ c \in Bundle /\ c.seq = Rank(b.seq) /\ (b.seq = 0 => c.seq = 0)
         /\ c.since = b.since /\ c.rows = b.rows /\ c.receipts = b.receipts
<1>1. b.seq \in Nat /\ Rank(b.seq) \in Nat /\ Rank(0) = 0
  BY Ranks DEF Bundle
<1>2. PICK q \in Nat : q = Rank(b.seq)
  BY <1>1
<1>3. c = [b EXCEPT !.seq = q]
  BY <1>2
<1>4. c \in Bundle /\ c.seq = q /\ c.since = b.since /\ c.rows = b.rows /\ c.receipts = b.receipts
  BY <1>3 DEF Bundle
<1> QED
  BY <1>1, <1>2, <1>4

\* What a call that has just begun holds.
LEMMA FirstBundle ==
  ASSUME UpdTypeOK, NEW b, b = [NoBundle EXCEPT !.seq = Cardinality(Numbers) + 1, !.since = Now]
  PROVE  /\ b \in Bundle /\ b.seq = Cardinality(Numbers) + 1 /\ b.since = Now /\ b.rows = {}
         /\ RowsInv(b)
<1>1. PICK q \in Nat : q = Cardinality(Numbers) + 1
  BY Ranks
<1>2. PICK n \in Nat : n = Now
  BY Moments
<1>3. b = [NoBundle EXCEPT !.seq = q, !.since = n]
  BY <1>1, <1>2
<1>4. b \in Bundle /\ b.seq = q /\ b.since = n /\ b.rows = {}
  BY <1>3 DEF NoBundle, Bundle
<1> QED
  BY <1>1, <1>2, <1>4 DEF RowsInv

LEMMA DrawNumberKeeps ==
  ASSUME UpdInv, NEW s \in Sync, DrawNumber(s)
  PROVE  UpdInv'
<1>1. /\ UpdTypeOK /\ HistoryInv /\ ServedInv /\ StagedInv /\ DatabaseInv(db) /\ DatabaseInv(saved)
      /\ staged \in Bundle /\ db \in Database /\ saved \in Database /\ history' = history
  BY DEF UpdInv, UpdTypeOK, DrawNumber
<1>2. PICK first : first = [NoBundle EXCEPT !.seq = Cardinality(Numbers) + 1, !.since = Now]
  OBVIOUS
<1>3. /\ first \in Bundle /\ first.seq = Cardinality(Numbers) + 1 /\ first.since = Now
      /\ RowsInv(first)
  BY <1>1, <1>2, FirstBundle
<1>4. Now' = Now /\ Now \in Nat \ {0} /\ HistoryInv'
  BY <1>1, Moments, Renumbered
<1>5. /\ DOMAIN sync' = Sync
      /\ sync'[s] = [pc |-> "rows", bundle |-> first]
      /\ \A u \in Sync : u # s => sync'[u] = [sync[u] EXCEPT !.bundle.seq = Rank(@)]
      /\ sync' = [u \in Sync |-> sync'[u]]
  BY <1>2 DEF DrawNumber
<1>6. ASSUME NEW u \in Sync, u # s
      PROVE  /\ sync'[u] \in Slot /\ sync'[u].pc = sync[u].pc
             /\ sync'[u].bundle \in Bundle
             /\ sync'[u].bundle.seq = Rank(sync[u].bundle.seq)
             /\ sync'[u].bundle.since = sync[u].bundle.since
             /\ sync'[u].bundle.rows = sync[u].bundle.rows
             /\ sync'[u].bundle.receipts = sync[u].bundle.receipts
    <2>1. sync[u] \in Slot /\ sync[u].bundle \in Bundle
      BY <1>1, DrawnTypes
    <2>2. PICK c : c = [sync[u].bundle EXCEPT !.seq = Rank(@)]
      OBVIOUS
    <2>3. sync'[u] = [sync[u] EXCEPT !.bundle = c]
      BY <1>5, <1>6, <2>2
    <2>4. c \in Bundle /\ c.seq = Rank(sync[u].bundle.seq) /\ c.since = sync[u].bundle.since
          /\ c.rows = sync[u].bundle.rows /\ c.receipts = sync[u].bundle.receipts
      BY <1>1, <2>1, <2>2, RankedBundle
    <2>5. sync'[u] \in Slot /\ sync'[u].pc = sync[u].pc /\ sync'[u].bundle = c
      BY <2>1, <2>3, <2>4 DEF Slot
    <2> QED
      BY <2>4, <2>5
<1>7. sync'[s] \in Slot /\ sync'[s].pc = "rows" /\ sync'[s].bundle = first
  BY <1>3, <1>5 DEF Slot
<1>8. sync' \in [Sync -> Slot]
  BY <1>5, <1>6, <1>7
<1>9. PICK st : st = staged'
  OBVIOUS
<1>10. st \in Bundle /\ st.seq = Rank(staged.seq) /\ (staged.seq = 0 => st.seq = 0)
       /\ st.since = staged.since /\ st.rows = staged.rows /\ st.receipts = staged.receipts
  <2>1. st = [staged EXCEPT !.seq = Rank(@)]
    BY <1>9 DEF DrawNumber
  <2> QED
    BY <1>1, <2>1, RankedBundle
<1>11. PICK d : d = db'
  OBVIOUS
<1>12. d \in Database /\ d.last = Rank(db.last) /\ d.since = db.since /\ DatabaseInv(d)'
  <2>1. d = [db EXCEPT !.last = Rank(@)]
    BY <1>11 DEF DrawNumber
  <2> QED
    BY <1>1, <2>1, RankedDatabase
<1>13. PICK e : e = saved'
  OBVIOUS
<1>14. e \in Database /\ e.last = Rank(saved.last) /\ e.since = saved.since /\ DatabaseInv(e)'
  <2>1. e = [saved EXCEPT !.last = Rank(@)]
    BY <1>13 DEF DrawNumber
  <2> QED
    BY <1>1, <2>1, RankedDatabase
<1>15. UpdTypeOK'
  BY <1>1, <1>8, <1>9, <1>10, <1>11, <1>12, <1>13, <1>14 DEF UpdTypeOK, Slot
<1>16. DatabaseInv(db)' /\ DatabaseInv(saved)'
  <2>1. DatabaseInv(db)'
    BY <1>11, <1>12 DEF DatabaseInv, ShownSince
  <2>2. DatabaseInv(saved)'
    BY <1>13, <1>14 DEF DatabaseInv, ShownSince
  <2> QED
    BY <2>1, <2>2
<1>17. StagedInv'
  <2> SUFFICES ASSUME st.seq # 0 PROVE Whole(staged)'
    BY <1>9 DEF StagedInv
  <2>1. Whole(staged)
    BY <1>1, <1>10 DEF StagedInv
  <2>2. Whole(st)
    BY <1>10, <2>1, SameBundle
  <2>3. RowsInv(st)' /\ ReadOnce(st)'
    BY <1>1, <2>2, Renumbered DEF Whole
  <2>4. RowsInv(staged)'
    BY <1>9, <2>3 DEF RowsInv
  <2>5. ReadOnce(staged)'
    BY <1>9, <2>3 DEF ReadOnce
  <2>6. Labelled(staged)' /\ staged'.since \in 1..Now'
    BY <1>4, <1>9, <2>2 DEF Whole, Labelled
  <2> QED
    BY <2>4, <2>5, <2>6 DEF Whole
<1>18. ServedInv'
  <2> SUFFICES ASSUME NEW u \in Sync
               PROVE  (LET b == sync[u].bundle IN
                       /\ sync[u].pc # "idle" => b.since \in 1..Now /\ RowsInv(b)
                       /\ sync[u].pc \in {"receipts", "answer"} => Labelled(b)
                       /\ sync[u].pc = "answer" => ReadOnce(b))'
    BY DEF ServedInv
  <2>1. PICK y : y = sync'[u]
    OBVIOUS
  <2>2. PICK b : b = y.bundle
    OBVIOUS
  <2>3. /\ y.pc # "idle" => b.since \in 1..Now /\ RowsInv(b)
        /\ y.pc \in {"receipts", "answer"} => Labelled(b)
        /\ y.pc = "answer" => ReadOnce(b)
    <3>1. CASE u = s
      <4>1. y.pc = "rows" /\ b = first
        BY <1>7, <2>1, <2>2, <3>1
      <4> QED
        BY <1>3, <1>4, <4>1
    <3>2. CASE u # s
      <4>1. PICK z : z = sync[u].bundle
        OBVIOUS
      <4>2. y.pc = sync[u].pc /\ b.since = z.since /\ b.rows = z.rows /\ b.receipts = z.receipts
        BY <1>6, <2>1, <2>2, <3>2, <4>1
      <4>3. /\ y.pc # "idle" => z.since \in 1..Now /\ RowsInv(z)
            /\ y.pc \in {"receipts", "answer"} => Labelled(z)
            /\ y.pc = "answer" => ReadOnce(z)
        BY <1>1, <4>1, <4>2 DEF ServedInv
      <4> QED
        BY <4>2, <4>3, SameBundle
    <3> QED
      BY <3>1, <3>2
  <2>4. (y.pc # "idle" => RowsInv(b)') /\ (y.pc = "answer" => ReadOnce(b)')
    BY <1>1, <2>3, Renumbered
  <2>5. y.pc # "idle" => (RowsInv(sync[u].bundle))'
    BY <2>1, <2>2, <2>4 DEF RowsInv
  <2>6. y.pc = "answer" => (ReadOnce(sync[u].bundle))'
    BY <2>1, <2>2, <2>4 DEF ReadOnce
  <2>7. y.pc \in {"receipts", "answer"} => (Labelled(sync[u].bundle))'
    BY <2>1, <2>2, <2>3 DEF Labelled
  <2> QED
    BY <1>4, <2>1, <2>2, <2>3, <2>5, <2>6, <2>7
<1>19. OrderInv'
  <2> DEFINE top == [seq |-> Cardinality(Numbers) + 1, since |-> Now]
             Old(p) == p = top \/ \E o \in Drawn : p = [seq |-> Rank(o.seq), since |-> o.since]
  <2>1. ASSUME NEW u \in Sync
        PROVE  Old([seq |-> sync'[u].bundle.seq, since |-> sync'[u].bundle.since])
    <3>1. CASE u = s
      BY <1>3, <1>7, <3>1
    <3>2. CASE u # s
      <4>1. PICK o : o = [seq |-> sync[u].bundle.seq, since |-> sync[u].bundle.since]
        OBVIOUS
      <4>2. o \in Drawn
        BY <4>1 DEF Drawn
      <4>3. [seq |-> sync'[u].bundle.seq, since |-> sync'[u].bundle.since]
              = [seq |-> Rank(o.seq), since |-> o.since]
        BY <1>6, <3>2, <4>1
      <4> QED
        BY <4>2, <4>3
    <3> QED
      BY <3>1, <3>2
  <2>2. /\ Old([seq |-> staged'.seq, since |-> staged'.since])
        /\ Old([seq |-> db'.last, since |-> db'.since])
        /\ Old([seq |-> saved'.last, since |-> saved'.since])
    <3>1. /\ [seq |-> staged.seq, since |-> staged.since] \in Drawn
          /\ [seq |-> db.last, since |-> db.since] \in Drawn
          /\ [seq |-> saved.last, since |-> saved.since] \in Drawn
      BY DEF Drawn
    <3>2. PICK o1 \in Drawn : o1 = [seq |-> staged.seq, since |-> staged.since]
      BY <3>1
    <3>3. PICK o2 \in Drawn : o2 = [seq |-> db.last, since |-> db.since]
      BY <3>1
    <3>4. PICK o3 \in Drawn : o3 = [seq |-> saved.last, since |-> saved.since]
      BY <3>1
    <3>5. Old([seq |-> staged'.seq, since |-> staged'.since])
      BY <1>9, <1>10, <3>2
    <3>6. Old([seq |-> db'.last, since |-> db'.since])
      BY <1>11, <1>12, <3>3
    <3>7. Old([seq |-> saved'.last, since |-> saved'.since])
      BY <1>13, <1>14, <3>4
    <3> QED
      BY <3>5, <3>6, <3>7
  <2> HIDE DEF Old
  <2>3. \A p \in Drawn' : Old(p)
    BY <2>1, <2>2 DEF Drawn
  <2>4. \A o \in Drawn : o.seq \in Nat /\ o.since \in Nat
    BY <1>1, DrawnTypes
  <2>5. \A o \in Drawn : o.since <= Now /\ \A q \in Drawn : o.seq < q.seq => o.since <= q.since
    BY DEF UpdInv, OrderInv
  <2>6. /\ \A p : Rank(p) \in Nat /\ Rank(p) <= Cardinality(Numbers)
        /\ \A p, q \in Nat : Rank(p) < Rank(q) => p < q
        /\ Cardinality(Numbers) \in Nat
    BY <1>1, Ranks
  <2>7. ASSUME NEW p, Old(p)
        PROVE  p.since <= Now
    <3>1. CASE p = top
      BY <1>4, <3>1
    <3>2. CASE \E o \in Drawn : p = [seq |-> Rank(o.seq), since |-> o.since]
      BY <2>5, <3>2
    <3> QED
      BY <2>7, <3>1, <3>2 DEF Old
  <2>8. ASSUME NEW p, NEW q, Old(p), Old(q), p.seq < q.seq
        PROVE  p.since <= q.since
    <3>1. CASE q = top
      BY <2>7, <2>8, <3>1
    <3>2. ASSUME NEW o \in Drawn, q = [seq |-> Rank(o.seq), since |-> o.since]
          PROVE  p.since <= q.since
      <4>1. CASE p = top
        <5>1. p.seq = Cardinality(Numbers) + 1 /\ q.seq = Rank(o.seq)
          BY <3>2, <4>1
        <5>2. Rank(o.seq) \in Nat /\ Rank(o.seq) <= Cardinality(Numbers) /\ Cardinality(Numbers) \in Nat
          BY <2>6
        <5> QED
          BY <2>8, <5>1, <5>2
      <4>2. ASSUME NEW r \in Drawn, p = [seq |-> Rank(r.seq), since |-> r.since]
            PROVE  p.since <= q.since
        <5>1. Rank(r.seq) < Rank(o.seq)
          BY <2>8, <3>2, <4>2
        <5>2. r.seq < o.seq
          BY <2>4, <2>6, <5>1
        <5> QED
          BY <2>5, <3>2, <4>2, <5>2
      <4> QED
        BY <2>8, <4>1, <4>2 DEF Old
    <3> QED
      BY <2>8, <3>1, <3>2 DEF Old
  <2> QED
    BY <1>4, <2>3, <2>7, <2>8 DEF OrderInv
<1> QED
  BY <1>4, <1>15, <1>16, <1>17, <1>18, <1>19 DEF UpdInv

-----------------------------------------------------------------------------
(* Every step. *)

LEMMA UpdInitially ==
  ASSUME UpdInit
  PROVE  UpdInv
<1>1. /\ history = <<[filed |-> <<>>, verdict |-> [k \in Key |-> "awaiting_peer"], head |-> 0]>>
      /\ sync = [s \in Sync |-> [pc |-> "idle", bundle |-> NoBundle]]
      /\ staged = NoBundle /\ db = EmptyDb /\ saved = EmptyDb
  BY DEF UpdInit
<1>2. [k \in Key |-> "awaiting_peer"] \in [Key -> Verdict] /\ 0 \in 0..MaxGen
  BY Assumption
<1>3. PICK t : t = [filed |-> <<>>, verdict |-> [k \in Key |-> "awaiting_peer"], head |-> 0]
  OBVIOUS
<1>4. t \in Tables /\ t.filed = <<>> /\ history = <<t>>
  BY <1>1, <1>2, <1>3 DEF Tables
<1>5. history \in Seq(Tables) /\ history # <<>> /\ Now = 1 /\ Table = t
  BY <1>4 DEF Now, Table
<1>6. /\ EmptyDb \in Database /\ EmptyDb.last = 0 /\ EmptyDb.since = 0
      /\ \A n \in Nonce : EmptyDb.report[n] = "pending"
      /\ \A r \in Row : EmptyDb.ladder[r].gen = 0
  <2>1. NoStanding \in Shown /\ NoStanding.gen = 0
    BY Assumption DEF NoStanding, Shown
  <2> QED
    BY <2>1 DEF EmptyDb, Database
<1>7. sync \in [Sync -> Slot] /\ \A s \in Sync : sync[s].pc = "idle" /\ sync[s].bundle = NoBundle
  BY <1>1, Nothing
<1>8. UpdTypeOK
  BY <1>1, <1>5, <1>6, <1>7, Nothing DEF UpdTypeOK, Slot
<1>9. HistoryInv
  <2>1. \A v \in 1..Now : history[v] = Table
    BY <1>4, <1>5
  <2> QED
    BY <2>1 DEF HistoryInv
<1>10. ServedInv
  BY <1>7 DEF ServedInv
<1>11. StagedInv
  BY <1>1, Nothing DEF StagedInv
<1>12. DatabaseInv(EmptyDb)
  BY <1>5, <1>6 DEF DatabaseInv
<1>13. DatabaseInv(db) /\ DatabaseInv(saved)
  BY <1>1, <1>12
<1>14. OrderInv
  <2>1. \A p \in Drawn : p = [seq |-> 0, since |-> 0]
    BY <1>1, <1>6, <1>7, Nothing DEF Drawn
  <2> QED
    BY <1>5, <2>1 DEF OrderInv
<1> QED
  BY <1>8, <1>9, <1>10, <1>11, <1>13, <1>14 DEF UpdInv

LEMMA UpdIdles ==
  ASSUME UpdInv, UNCHANGED updateVars
  PROVE  UpdInv'
<1>1. UpdTypeOK /\ HistoryInv /\ ServedInv /\ StagedInv /\ DatabaseInv(db) /\ DatabaseInv(saved)
      /\ history' = history /\ sync' = sync /\ staged' = staged /\ db' = db /\ saved' = saved
  BY DEF UpdInv, updateVars
<1>2. UpdTypeOK'
  BY <1>1 DEF UpdTypeOK
<1>3. HistoryInv' /\ Now' = Now
  BY <1>1, Renumbered
<1>4. StagedInv' /\ DatabaseInv(db)' /\ DatabaseInv(saved)'
  BY <1>1, StagedKept, DatabasesKept
<1>5. OrderInv'
  <2>1. Drawn' \subseteq Drawn
    BY <1>1 DEF Drawn
  <2> QED
    BY <1>1, <2>1, OrderKept
<1>6. ServedInv'
  BY <1>1 DEF ServedInv, RowsInv, ReadOnce, Labelled, PageAt, Now, Table
<1> QED
  BY <1>2, <1>3, <1>4, <1>5, <1>6 DEF UpdInv

\* However requests for updates overlap with each other, with reports, verdicts
\* and generations, and whenever the game is reloaded or killed: bundles, files
\* and databases know of the server's tables what UpdInv says (snapshot.ts,
\* service.ts, Import.lua).
THEOREM UpdatesInvariant == UpdSpec => []UpdInv
<1>1. UpdInit => UpdInv
  BY UpdInitially
<1>2. UpdInv /\ [UpdNext]_updateVars => UpdInv'
  <2> SUFFICES ASSUME UpdInv, [UpdNext]_updateVars PROVE UpdInv'
    OBVIOUS
  <2>1. ASSUME NEW k \in Key, FileReport(k) \/ \E v \in Verdict : Judge(k, v)
        PROVE  UpdInv'
    BY <2>1, FileReportKeeps, JudgeKeeps
  <2>2. CASE Publish
    BY <2>2, PublishKeeps
  <2>3. ASSUME NEW s \in Sync, Serve(s) \/ Fail(s)
        PROVE  UpdInv'
    <3>1. CASE DrawNumber(s)
      BY <3>1, DrawNumberKeeps
    <3>2. CASE ReadRows(s)
      BY <3>2, ReadRowsKeeps
    <3>3. CASE Label(s)
      BY <3>3, LabelKeeps
    <3>4. CASE ReadReceipts(s)
      BY <3>4, ReadReceiptsKeeps
    <3>5. CASE Stage(s) \/ Fail(s)
      BY <3>5, StageKeeps
    <3> QED
      BY <2>3, <3>1, <3>2, <3>3, <3>4, <3>5 DEF Serve
  <2>4. CASE Reload
    BY <2>4, ReloadKeeps
  <2>5. CASE CrashGame
    BY <2>5, CrashGameKeeps
  <2>6. CASE UNCHANGED updateVars
    BY <2>6, UpdIdles
  <2> QED
    BY <2>1, <2>2, <2>3, <2>4, <2>5, <2>6 DEF UpdNext
<1> QED
  BY <1>1, <1>2, PTL DEF UpdSpec

-----------------------------------------------------------------------------
(***************************************************************************)
(* What the addon's player may believe.                                    *)
(***************************************************************************)

\* Tables, bundles and databases hold what their types say: receipts are of
\* reports of the account, rows of its characters (buildAddonUpdate, Import).
THEOREM UpdatesTypeCorrect == UpdSpec => []UpdTypeOK
<1>1. UpdInv => UpdTypeOK
  BY DEF UpdInv
<1> QED
  BY <1>1, UpdatesInvariant, PTL

\* A report the addon will not export any more, because a bundle said it was
\* acknowledged, is on file under this very installation and has been
\* corroborated, also in the copy a killed game falls back to (applyReceipt).
THEOREM AckGenuine == UpdSpec => []AckIsGenuine
<1>1. ASSUME UpdInv PROVE AckIsGenuine
  <2>1. DatabaseInv(db) /\ DatabaseInv(saved)
    BY <1>1 DEF UpdInv
  <2> QED
    BY <2>1 DEF DatabaseInv, Genuine, AckIsGenuine
<1> QED
  BY <1>1, UpdatesInvariant, PTL

\* The verdicts on display are those of one moment, not before the draw of the
\* newest number the addon has imported, whichever answers overtake each other
\* and whichever writes of the database are lost (Import.apply).
THEOREM DisplayRecent == UpdSpec => []DisplayIsRecent
<1>1. ASSUME UpdInv PROVE DisplayIsRecent
  <2> SUFFICES ASSUME NEW d \in {db, saved}, d.last # 0
               PROVE  \E v \in d.since..Now : ShownSince(d, v)
    BY DEF DisplayIsRecent
  <2>1. DatabaseInv(d)
    <3>1. CASE d = db
      BY <1>1, <3>1 DEF UpdInv
    <3>2. CASE d = saved
      BY <1>1, <3>2 DEF UpdInv
    <3> QED
      BY <3>1, <3>2
  <2> QED
    BY <2>1 DEF DatabaseInv
<1> QED
  BY <1>1, UpdatesInvariant, PTL

\* A rating is shown under the generation it is of or under a later one, and
\* that generation has been published (ladderRows, generationForSeason).
THEOREM LabelsNotBefore == UpdSpec => []LabelNotBefore
<1>1. ASSUME UpdInv PROVE LabelNotBefore
  <2>1. DatabaseInv(db)
    BY <1>1 DEF UpdInv
  <2> QED
    BY <2>1 DEF DatabaseInv, LabelNotBefore
<1> QED
  BY <1>1, UpdatesInvariant, PTL
=============================================================================
