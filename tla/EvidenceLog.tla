----------------------------- MODULE EvidenceLog -----------------------------
(***************************************************************************)
(* What report ingestion promises about the evidence, without handlers,    *)
(* requests or a database: sessions are bound to one contract for good,    *)
(* accepted reports are never changed, dropped or counted twice, matches   *)
(* are numbered once in order of arrival, and a match is given a result    *)
(* only when two different participants have claimed it, and then for good *)
(* (docs/06 "Server behavior", docs/09 "Ordering", README.md).             *)
(***************************************************************************)
EXTENDS Naturals

CONSTANTS Match, Doc, Report, Account, Claim, Owner, NoDoc, NoClaim

VARIABLES
  docket,   \* the contract a session is bound to
  filed,    \* the accepted reports, each with the account that filed it
  number,   \* place of a match in the order of first receipts (0: none yet)
  last,     \* the highest number given
  result    \* the agreed winner list of a match

evidenceVars == <<docket, filed, number, last, result>>

EvidenceInit ==
  /\ docket = [m \in Match |-> NoDoc]
  /\ filed = {}
  /\ number = [m \in Match |-> 0]
  /\ last = 0
  /\ result = [m \in Match |-> NoClaim]

Bind(m, d) ==
  /\ docket[m] = NoDoc
  /\ d.session = m
  /\ docket' = [docket EXCEPT ![m] = d]
  /\ UNCHANGED <<filed, number, last, result>>

SameSlot(e, f) ==
  e.by = f.by /\ e.body.inst = f.body.inst /\ e.body.nonce = f.body.nonce

\* A report is accepted for the contract it names, from the owner of its
\* origin character, unless its nonce was used before.
Accept(body, a) ==
  LET e == [body |-> body, by |-> a]
  IN /\ docket[body.session] = body.hash
     /\ Owner[body.origin] = a
     /\ \A f \in filed : ~SameSlot(e, f)
     /\ filed' = filed \union {e}
     /\ UNCHANGED <<docket, number, last, result>>

\* Only a match with a report on file is numbered.
GiveNumber(m) ==
  /\ number[m] = 0
  /\ \E e \in filed : e.body.session = m
  /\ last' = last + 1
  /\ number' = [number EXCEPT ![m] = last + 1]
  /\ UNCHANGED <<docket, filed, result>>

\* Two participants, one claim.
Corroborates(m, w) ==
  \E e, f \in filed :
    /\ e.body.session = m /\ f.body.session = m
    /\ e.by # f.by
    /\ {e.by, f.by} = {Owner[c] : c \in docket[m].players}
    /\ e.body.claim = w /\ f.body.claim = w

Decide(m, w) ==
  /\ docket[m] # NoDoc
  /\ result[m] = NoClaim
  /\ number[m] # 0
  /\ Corroborates(m, w)
  /\ result' = [result EXCEPT ![m] = w]
  /\ UNCHANGED <<docket, filed, number, last>>

EvidenceNext ==
  \/ \E m \in Match, d \in Doc : Bind(m, d)
  \/ \E body \in Report, a \in Account : Accept(body, a)
  \/ \E m \in Match : GiveNumber(m)
  \/ \E m \in Match, w \in Claim : Decide(m, w)

EvidenceSpec == EvidenceInit /\ [][EvidenceNext]_evidenceVars
=============================================================================
