---------------------------- MODULE MCGeneration ----------------------------
(***************************************************************************)
(* Small instances of Generation, on the duel of MCIngest and its return   *)
(* match m2 between the same characters.                                   *)
(***************************************************************************)
EXTENDS Generation, TLC

CONSTANTS A, B, C, a1, b1, c1, m1, m2, iA, iB, iC, n1, n2, x, z, r1, r2

MCOwner == a1 :> A @@ b1 :> B @@ c1 :> C

\* x: a1 won the series.  z: the games played decide nothing.
MCWinnerOf == x :> a1 @@ z :> NoWinner

Duel    == [session |-> m1, players |-> {a1, b1}, ranked |-> TRUE]
Return  == [Duel EXCEPT !.session = m2]
Mirror  == [Return EXCEPT !.ranked = FALSE]

\* a1 and b1 are of different classes.
MirrorOnly == {Mirror}

InstallationOf == A :> iA @@ B :> iB @@ C :> iC

Body(d, c, n, w) ==
  [session |-> d.session, hash |-> d, origin |-> c, inst |-> InstallationOf[MCOwner[c]],
   nonce |-> n, claim |-> w, finished |-> TRUE, peer |-> FALSE]

\* One match, reported once by each side.
OneDoc    == {Duel}
OneReport == {Body(Duel, a1, n1, x), Body(Duel, b1, n1, x)}

\* One match whose session is first opened either as the duel or, by a report
\* of one side, as a mirror match of two classes; an onlooker reports it too.
Unranked     == [Duel EXCEPT !.ranked = FALSE]
UnrankedOnly == {Unranked}
EitherDoc    == {Duel, Unranked}
CrowdReport  == OneReport \union {Body(Duel, c1, n1, z), Body(Unranked, a1, n2, x)}

\* One match, and an unranked one on the mirror ladder that only one side reports.
MirrorDoc    == {Duel, Mirror}
MirrorReport == OneReport \union {Body(Mirror, a1, n2, x)}

Bearer(a, i) == [account |-> a, inst |-> i]
PairCredential  == {Bearer(A, iA), Bearer(B, iB)}
CrowdCredential == PairCredential \union {Bearer(C, iC)}

AllWitnessed == [c \in Character |-> "witnessed"]
LateCheckIn  == [c \in Character |-> IF c = b1 THEN "none" ELSE "witnessed"]

HandlerSymmetry == Permutations(Request)
=============================================================================
