----------------------------- MODULE Companion -----------------------------
(***************************************************************************)
(* The companion (apps/uploader/src/service.ts, spool.ts, client.ts): it   *)
(* reads the SavedVariables file, spools what is pending there and uploads *)
(* it.  The spool survives the process; acknowledged nonces, the uploading *)
(* guard and the calls in progress do not.                                 *)
(*                                                                         *)
(* t \in Task is a call of onStableFile or flushQueue in progress; it is   *)
(* suspended at the credential lookup, at the upload, and after an upload  *)
(* while the update bundle is fetched or the loop paces itself.  A spool   *)
(* entry is the set of nonces it holds.  Entries are tried in any order.   *)
(***************************************************************************)
EXTENDS Outbox

CONSTANTS
  Task,        \* calls in progress at the same time
  MaxBody      \* the most reports the server accepts in a body (1 MiB)

VARIABLES
  spool,       \* status of each entry, in memory and on disk
  acked,       \* Spool.acked
  uploading,   \* the guard of flushQueue
  paused,      \* config.paused
  paired,      \* the credential store has a valid credential
  task         \* local variables of each call

companionVars == <<spool, acked, uploading, paused, paired, task>>
allVars == <<outboxVars, companionVars>>

Batch == (SUBSET Report) \ {{}}

\* "backoff": pending with nextAttemptAtMs in the future.
EntryStatus == {"none", "pending", "backoff", "uploading", "done", "quarantined"}

Call == [pc    : {"idle", "credential", "sent", "answered", "between"},
         due   : SUBSET Batch,      \* entries of the loop still to be tried
         batch : SUBSET Report]     \* the entry being uploaded

CompanionTypeOK ==
  /\ OutboxTypeOK
  /\ spool \in [Batch -> EntryStatus]
  /\ acked \subseteq Report
  /\ uploading \in BOOLEAN
  /\ paused \in BOOLEAN
  /\ paired \in BOOLEAN
  /\ task \in [Task -> Call]

Idle == [pc |-> "idle", due |-> {}, batch |-> {}]

CompanionInit ==
  /\ OutboxInit
  /\ spool = [S \in Batch |-> "none"]
  /\ acked = {}
  /\ uploading = FALSE
  /\ paused = FALSE
  /\ paired \in BOOLEAN
  /\ task = [t \in Task |-> Idle]

-----------------------------------------------------------------------------
In(t, pcs) == task[t].pc \in pcs
Suspend(t, pc) == task' = [task EXCEPT ![t].pc = pc]
Return(t)  == task' = [task EXCEPT ![t] = Idle]
Mark(S, status) == spool' = [spool EXCEPT ![S] = status]

\* extractPendingReports: the addon calls them saved.
Pending == {r \in Report : disk[r] = "saved"}

\* flushQueue up to the credential lookup: what is due is computed here.
StartFlush(t, entries) ==
  IF uploading \/ paused THEN UNCHANGED task
  ELSE task' = [task EXCEPT ![t] = [pc |-> "credential", batch |-> {},
                                    due |-> {S \in Batch : entries[S] = "pending"}]]

\* onStableFile: a poll, or the final sweep, reads the file.
Scan(t) ==
  /\ In(t, {"idle"})
  /\ LET fresh == Pending \ acked
     IN /\ fresh # {}
        /\ spool' = [spool EXCEPT ![fresh] = IF @ = "none" THEN "pending" ELSE @]
        /\ StartFlush(t, spool')
  /\ UNCHANGED <<outboxVars, acked, uploading, paused, paired>>

\* flushQueue on its own, when the game has closed.
Flush(t) ==
  /\ In(t, {"idle"})
  /\ StartFlush(t, spool)
  /\ UNCHANGED <<outboxVars, spool, acked, uploading, paused, paired>>

\* Nothing to send, or no session: stay quiet.
Quiet(t) ==
  /\ In(t, {"credential"})
  /\ ~paired \/ task[t].due = {}
  /\ Return(t)
  /\ UNCHANGED <<outboxVars, spool, acked, uploading, paused, paired>>

\* The next entry of the loop is marked and sent.
Upload(t, S) ==
  /\ S \in task[t].due
  /\ \/ In(t, {"credential"}) /\ paired
     \/ In(t, {"between"})
  /\ uploading' = (In(t, {"credential"}) \/ uploading)
  /\ Mark(S, "uploading")
  /\ task' = [task EXCEPT ![t] = [pc |-> "sent", due |-> @.due \ {S}, batch |-> S]]
  /\ UNCHANGED <<outboxVars, acked, paused, paired>>

\* The loop is over.
Drained(t) ==
  /\ In(t, {"between"}) /\ task[t].due = {}
  /\ uploading' = FALSE
  /\ Return(t)
  /\ UNCHANGED <<outboxVars, spool, acked, paused, paired>>

\* The server reads the batch; accepted, duplicate and rejected reports alike
\* are answered with success.
Receive(t) ==
  /\ In(t, {"sent"})
  /\ Cardinality(task[t].batch) <= MaxBody
  /\ received' = received \union task[t].batch
  /\ Suspend(t, "answered")
  /\ UNCHANGED <<reports, disk, spool, acked, uploading, paused, paired>>

\* Mutant of Acknowledge: the spooled nonces are acknowledged with it.
AcknowledgeSpooled(t) ==
  /\ In(t, {"answered"})
  /\ Mark(task[t].batch, "done")
  /\ acked' = acked \union UNION {S \in Batch : spool[S] # "none"}
  /\ Suspend(t, "between")
  /\ UNCHANGED <<outboxVars, uploading, paused, paired>>

\* markDone.
Acknowledge(t) ==
  /\ In(t, {"answered"})
  /\ Mark(task[t].batch, "done")
  /\ acked' = acked \union task[t].batch
  /\ Suspend(t, "between")
  /\ UNCHANGED <<outboxVars, uploading, paused, paired>>

\* A permanent refusal: the body is too large.
Quarantine(t) ==
  /\ In(t, {"sent"})
  /\ Cardinality(task[t].batch) > MaxBody
  /\ Mark(task[t].batch, "quarantined")
  /\ Suspend(t, "between")
  /\ UNCHANGED <<outboxVars, acked, uploading, paused, paired>>

\* Mutant of GiveUp: returns from the loop without the finally.
GiveUpEarly(t) ==
  /\ In(t, {"sent", "answered"})
  /\ Mark(task[t].batch, "backoff")
  /\ Return(t)
  /\ UNCHANGED <<outboxVars, acked, uploading, paused, paired>>

\* The request or its answer is lost, the server is busy, or the credential is
\* refused: markRetry, and the loop stops.
GiveUp(t) ==
  /\ In(t, {"sent", "answered"})
  /\ Mark(task[t].batch, "backoff")
  /\ uploading' = FALSE
  /\ Return(t)
  /\ UNCHANGED <<outboxVars, acked, paused, paired>>

\* The answer does not parse: markRetry, and the loop goes on.
Garbled(t) ==
  /\ In(t, {"answered"})
  /\ Mark(task[t].batch, "backoff")
  /\ Suspend(t, "between")
  /\ UNCHANGED <<outboxVars, acked, uploading, paused, paired>>

-----------------------------------------------------------------------------
\* nextAttemptAtMs passes.
Elapse(S) ==
  /\ spool[S] = "backoff"
  /\ Mark(S, "pending")
  /\ UNCHANGED <<outboxVars, acked, uploading, paused, paired, task>>

\* pair, revoke and the expiry of the credential; setPaused.
Pair ==
  /\ paired' = ~paired
  /\ UNCHANGED <<outboxVars, spool, acked, uploading, paused, task>>

SetPaused ==
  /\ paused' = ~paused
  /\ UNCHANGED <<outboxVars, spool, acked, uploading, paired, task>>

\* Mutant of Restart: entries are loaded as they are.
RestartVerbatim ==
  /\ acked' = UNION {S \in Batch : spool[S] = "done"}
  /\ uploading' = FALSE
  /\ paused' \in BOOLEAN
  /\ task' = [t \in Task |-> Idle]
  /\ UNCHANGED <<outboxVars, spool, paired>>

\* The companion is killed and started again: Spool.load.
Restart ==
  /\ spool' = [S \in Batch |-> IF spool[S] = "uploading" THEN "pending" ELSE spool[S]]
  /\ acked' = UNION {S \in Batch : spool[S] = "done"}
  /\ uploading' = FALSE
  /\ paused' \in BOOLEAN
  /\ task' = [t \in Task |-> Idle]
  /\ UNCHANGED <<outboxVars, paired>>

CompanionNext ==
  \/ Play /\ UNCHANGED companionVars
  \/ \E t \in Task :
       \/ Scan(t) \/ Flush(t) \/ Quiet(t) \/ Drained(t) \/ Receive(t)
       \/ Acknowledge(t) \/ Quarantine(t) \/ GiveUp(t) \/ Garbled(t)
       \/ \E S \in Batch : Upload(t, S)
  \/ \E S \in Batch : Elapse(S)
  \/ Pair \/ SetPaused \/ Restart

CompanionSpec == CompanionInit /\ [][CompanionNext]_allVars

-----------------------------------------------------------------------------
(***************************************************************************)
(* Properties                                                              *)
(***************************************************************************)

\* Nothing is acknowledged that the server has not read, on either side: not
\* by the spool, whatever calls overlap, answers get lost and restarts happen,
\* and not by the addon (spool.ts: "acknowledged by the server").
AckedIsReceived ==
  /\ acked \subseteq received
  /\ \A S \in Batch : spool[S] = "done" => S \subseteq acked
  /\ \A r \in Report : "acked" \in {reports[r], disk[r]} => r \in received

\* The companion never stops itself: the guard is up, or an entry is being
\* uploaded, only while a call is in the loop to take it down again.
WorkHasOwner ==
  /\ uploading => \E t \in Task : In(t, {"sent", "answered", "between"})
  /\ \A S \in Batch : spool[S] = "uploading" =>
       \E t \in Task : In(t, {"sent", "answered"}) /\ task[t].batch = S

\* An answered batch has been read, and what is in the file is also in memory
\* or has been read: with these the two properties are inductive.
AnsweredIsReceived == \A t \in Task : In(t, {"answered"}) => task[t].batch \subseteq received

FileIsLoaded == \A r \in Report : disk[r] # "none" /\ reports[r] = "none" => r \in received

\* The inductive invariant: the spool and the outbox agree with the server, and
\* every upload has a call behind it.
CompanionInv ==
  /\ CompanionTypeOK
  /\ AckedIsReceived
  /\ AnsweredIsReceived
  /\ FileIsLoaded
  /\ WorkHasOwner

\* A report that is in the file stays there until the server has read it,
\* whatever is trimmed, lost or imported (Outbox.lua: "unsynced records are
\* NEVER trimmed").
EvidenceKept ==
  [][\A r \in Report : disk[r] # "none" /\ disk'[r] = "none" => r \in received]_allVars
=============================================================================
