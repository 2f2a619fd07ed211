------------------------------ MODULE MCPairing ------------------------------
(***************************************************************************)
(* Small instance of Pairing: one companion, two codes, two accounts that  *)
(* may approve them, and two requests at a time.                           *)
(***************************************************************************)
EXTENDS Pairing

CONSTANTS A, B, i1, c1, c2, h1, h2
=============================================================================
