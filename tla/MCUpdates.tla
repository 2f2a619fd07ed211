------------------------------ MODULE MCUpdates ------------------------------
(***************************************************************************)
(* Small instance of Updates: one report of one player whose companion is  *)
(* i1, another player's report, and one ladder row in two generations.     *)
(***************************************************************************)
EXTENDS Updates, TLC

CONSTANTS i1, i2, n1, k1

MCStanding == 1 :> {k1} @@ 2 :> {k1}
=============================================================================
