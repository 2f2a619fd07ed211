---------------------------- MODULE MCLifecycle ----------------------------
(***************************************************************************)
(* Small instance of Lifecycle: one report, a watcher's call and the one   *)
(* at the end of a session.                                                *)
(***************************************************************************)
EXTENDS Lifecycle

CONSTANTS r1, t1, d
=============================================================================
