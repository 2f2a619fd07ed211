----------------------------- MODULE MCCompanion -----------------------------
(***************************************************************************)
(* Small instances of Companion.                                           *)
(***************************************************************************)
EXTENDS Companion, TLC

CONSTANTS r1, r2, t1, t2

\* Calls are interchangeable, and so are reports.
CompanionSymmetry == Permutations(Task) \union Permutations(Report)
=============================================================================
