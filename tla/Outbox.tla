------------------------------- MODULE Outbox -------------------------------
(***************************************************************************)
(* The report outbox of the addon (Sync/Outbox.lua, Sync/Export.lua): what *)
(* the game client holds in memory and what its SavedVariables file holds. *)
(* The file is written only when the player reloads the interface or logs  *)
(* out, and is read again when the interface loads.                        *)
(*                                                                         *)
(* A report is its nonce.  The order of db.reportOrder only decides which  *)
(* acknowledged reports are trimmed first, and is left open.               *)
(***************************************************************************)
EXTENDS Naturals, FiniteSets

CONSTANTS
  Report,      \* report nonces
  Retention    \* ACKED_REPORT_RETENTION

ASSUME OutboxAssumption == IsFiniteSet(Report) /\ Retention \in Nat

VARIABLES
  reports,     \* db.reports in the memory of the game client
  disk,        \* db.reports in the SavedVariables file
  received     \* reports the server has read and given a verdict on

outboxVars == <<reports, disk, received>>

Status == {"none", "unsynced", "saved", "acked"}    \* "none": no record

OutboxTypeOK ==
  /\ reports \in [Report -> Status]
  /\ disk \in [Report -> Status]
  /\ received \subseteq Report

OutboxInit ==
  /\ reports = [r \in Report |-> "none"]
  /\ disk = [r \in Report |-> "none"]
  /\ received = {}

-----------------------------------------------------------------------------
\* Outbox.enqueue: the player confirmed a result.  Nonces are fresh.
Enqueue(r) ==
  /\ reports[r] = "none" /\ disk[r] = "none" /\ r \notin received
  /\ reports' = [reports EXCEPT ![r] = "unsynced"]
  /\ UNCHANGED <<disk, received>>

\* Outbox.applyReceipt, from an update bundle of the server.
ApplyReceipt(r) ==
  /\ r \in received /\ reports[r] # "none"
  /\ reports' = [reports EXCEPT ![r] = "acked"]
  /\ UNCHANGED <<disk, received>>

\* Mutant of Trims: the records themselves are counted.
TrimsAny(gone) ==
  /\ gone \subseteq {r \in Report : reports[r] # "none"}
  /\ Cardinality({r \in Report : reports[r] # "none"} \ gone) = Retention

Acked == {r \in Report : reports[r] = "acked"}

\* Outbox.trimAcked: acknowledged reports beyond the retention go.
Trims(gone) ==
  /\ gone \subseteq Acked
  /\ IF Cardinality(Acked) > Retention
     THEN Cardinality(Acked \ gone) = Retention
     ELSE gone = {}

\* Export.flushNow: trim, mark what is pending as saved, reload the interface.
FlushNow ==
  /\ \E gone \in SUBSET Report :
       /\ Trims(gone)
       /\ reports' = [r \in Report |-> IF r \in gone THEN "none"
                                       ELSE IF reports[r] = "unsynced" THEN "saved"
                                       ELSE reports[r]]
  /\ disk' = reports'
  /\ UNCHANGED received

\* The game writes the file when the player logs out, without the addon.
Logout ==
  /\ disk' = reports
  /\ UNCHANGED <<reports, received>>

\* The game crashes: what was not written is lost.
GameCrash ==
  /\ reports' = disk
  /\ UNCHANGED <<disk, received>>

Play ==
  \/ \E r \in Report : Enqueue(r) \/ ApplyReceipt(r)
  \/ FlushNow \/ Logout \/ GameCrash
=============================================================================
