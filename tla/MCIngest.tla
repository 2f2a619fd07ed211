------------------------------ MODULE MCIngest ------------------------------
(***************************************************************************)
(* Small instances of Ingest.  A duel m1 between a1 (account A) and b1     *)
(* (account B), known under two contract documents; a second session m2    *)
(* between two characters of account A; an onlooker c1 (account C).        *)
(***************************************************************************)
EXTENDS Ingest, TLC

CONSTANTS A, B, C, a1, a2, b1, c1, m1, m2, iA, iB, iC, n1, n2, x, y, r1, r2

MCOwner == a1 :> A @@ a2 :> A @@ b1 :> B @@ c1 :> C

Duel    == [session |-> m1, players |-> {a1, b1}, ranked |-> TRUE]
Variant == [Duel EXCEPT !.ranked = FALSE]
Mirror  == [session |-> m2, players |-> {a1, a2}, ranked |-> TRUE]

InstallationOf == A :> iA @@ B :> iB @@ C :> iC

Body(d, c, n, w) ==
  [session |-> d.session, hash |-> d, origin |-> c, inst |-> InstallationOf[MCOwner[c]],
   nonce |-> n, claim |-> w, finished |-> TRUE, peer |-> FALSE]

\* One duel: both sides agree; B also files a contradicting second report; A
\* re-uses a nonce for another body; B reports under the other contract.
DuelDoc == {Duel, Variant}
DuelReport ==
  {Body(Duel, a1, n1, x), Body(Duel, b1, n1, x), Body(Duel, b1, n2, y),
   [Body(Duel, a1, n1, x) EXCEPT !.finished = FALSE], Body(Variant, b1, n1, x)}

\* Two sessions: A also meets itself in m2 and re-uses the nonce of m1.
SessionsReport ==
  {Body(Duel, a1, n1, x), Body(Duel, b1, n1, x),
   Body(Mirror, a1, n1, x), Body(Mirror, a2, n2, x)}

\* Everything at once, for one handler: an onlooker reports the duel before and
\* after registering, and one report carries a peer digest.
CrowdDoc == {Duel, Variant, Mirror}
CrowdReport ==
  SessionsReport \union
  {Body(Duel, c1, n1, y), [Body(Duel, b1, n2, x) EXCEPT !.peer = TRUE],
   Body(Variant, b1, n1, x)}

\* Two reports that agree and nothing else, one of an unfinished series.
PairReport == {Body(Duel, a1, n1, x), [Body(Duel, b1, n1, x) EXCEPT !.finished = FALSE]}

Bearer(a, i) == [account |-> a, inst |-> i]
DuelCredential     == {Bearer(A, iA), Bearer(B, NoInst)}
CrowdCredential    == {Bearer(A, iA), Bearer(B, iB), Bearer(C, iC)}

AllWitnessed == [c \in Character |-> "witnessed"]
Newcomers    == [c \in Character |-> IF c = c1 THEN "none" ELSE IF c = b1 THEN "claimed" ELSE "witnessed"]

\* The behaviours of Spec in which nothing ends the process: no two handlers
\* open one session, or write its games, at the same time, and nobody kills it.
QuietSpec == Init /\ [][\E r \in Request : Begin(r) \/ Step(r) \/ End(r)]_vars

\* Handlers are interchangeable.
HandlerSymmetry == Permutations(Request)
=============================================================================
