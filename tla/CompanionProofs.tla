--------------------------- MODULE CompanionProofs ---------------------------
(***************************************************************************)
(* Theorems about Companion, and Lifecycle over it, for every set of       *)
(* reports, any number of calls in progress, and every retention and size  *)
(* limit.                                                                  *)
(***************************************************************************)
EXTENDS Lifecycle, TLAPS

-----------------------------------------------------------------------------
(***************************************************************************)
(* The invariant holds initially, and every action preserves it.           *)
(***************************************************************************)

LEMMA CompanionInitially == CompanionInit => CompanionInv
<1> SUFFICES ASSUME CompanionInit PROVE CompanionInv
  OBVIOUS
<1>1. CompanionTypeOK
  BY DEF CompanionInit, CompanionTypeOK, OutboxInit, OutboxTypeOK, Status, EntryStatus,
         Call, Idle
<1>2. AckedIsReceived /\ FileIsLoaded
  BY DEF CompanionInit, OutboxInit, AckedIsReceived, FileIsLoaded
<1>3. AnsweredIsReceived /\ WorkHasOwner
  BY DEF CompanionInit, Idle, AnsweredIsReceived, WorkHasOwner, In
<1> QED BY <1>1, <1>2, <1>3 DEF CompanionInv

\* What the player and the game do: the companion does not move.
LEMMA PlayKeeps ==
  ASSUME CompanionInv, Play, UNCHANGED companionVars
  PROVE  CompanionInv'
<1> USE DEF CompanionInv, companionVars
<1>1. CompanionTypeOK'
  <2>1. OutboxTypeOK'
    <3>1. ASSUME NEW r \in Report, Enqueue(r) PROVE OutboxTypeOK'
      BY <3>1 DEF Enqueue, CompanionTypeOK, OutboxTypeOK, Status
    <3>2. ASSUME NEW r \in Report, ApplyReceipt(r) PROVE OutboxTypeOK'
      BY <3>2 DEF ApplyReceipt, CompanionTypeOK, OutboxTypeOK, Status
    <3>3. CASE FlushNow
      BY <3>3 DEF FlushNow, CompanionTypeOK, OutboxTypeOK, Status
    <3>4. CASE Logout
      BY <3>4 DEF Logout, CompanionTypeOK, OutboxTypeOK
    <3>5. CASE GameCrash
      BY <3>5 DEF GameCrash, CompanionTypeOK, OutboxTypeOK
    <3> QED BY <3>1, <3>2, <3>3, <3>4, <3>5 DEF Play
  <2> QED BY <2>1 DEF CompanionTypeOK
<1>2. received' = received
  BY DEF Play, Enqueue, ApplyReceipt, FlushNow, Logout, GameCrash
<1>4. AckedIsReceived'
  <2>1. ASSUME NEW q \in Report, Enqueue(q) PROVE AckedIsReceived'
    BY <2>1 DEF Enqueue, CompanionTypeOK, OutboxTypeOK, AckedIsReceived
  <2>2. ASSUME NEW q \in Report, ApplyReceipt(q) PROVE AckedIsReceived'
    BY <2>2 DEF ApplyReceipt, CompanionTypeOK, OutboxTypeOK, AckedIsReceived
  <2>3. CASE FlushNow
    BY <2>3 DEF FlushNow, CompanionTypeOK, OutboxTypeOK, AckedIsReceived
  <2>4. CASE Logout
    BY <2>4 DEF Logout, AckedIsReceived
  <2>5. CASE GameCrash
    BY <2>5 DEF GameCrash, AckedIsReceived
  <2> QED BY <2>1, <2>2, <2>3, <2>4, <2>5 DEF Play
<1>5. AnsweredIsReceived'
  BY <1>2 DEF AnsweredIsReceived, In
<1>6. FileIsLoaded'
  <2>1. ASSUME NEW q \in Report, Enqueue(q) PROVE FileIsLoaded'
    BY <2>1 DEF Enqueue, CompanionTypeOK, OutboxTypeOK, FileIsLoaded
  <2>2. ASSUME NEW q \in Report, ApplyReceipt(q) PROVE FileIsLoaded'
    BY <2>2 DEF ApplyReceipt, CompanionTypeOK, OutboxTypeOK, FileIsLoaded
  <2>3. CASE FlushNow \/ Logout \/ GameCrash
    BY <2>3 DEF FlushNow, Logout, GameCrash, FileIsLoaded
  <2> QED BY <2>1, <2>2, <2>3 DEF Play
<1>7. WorkHasOwner'
  BY DEF WorkHasOwner, In
<1> QED BY <1>1, <1>4, <1>5, <1>6, <1>7

-----------------------------------------------------------------------------
(***************************************************************************)
(* What the companion's calls do.                                          *)
(***************************************************************************)

\* A poll spools an entry and may begin a flush.
LEMMA ScanKeeps ==
  ASSUME CompanionInv, NEW t \in Task, Scan(t)
  PROVE  CompanionInv'
<1>1. spool' \in [Batch -> EntryStatus]
  BY DEF CompanionInv, CompanionTypeOK, Scan, EntryStatus
<1>2. \A S \in Batch : spool'[S] \in {spool[S], "pending"}
  BY DEF CompanionInv, CompanionTypeOK, Scan
<1>3. \/ task' = task
      \/ \E due \in SUBSET Batch :
           task' = [task EXCEPT ![t] = [pc |-> "credential", batch |-> {}, due |-> due]]
  BY DEF Scan, StartFlush
<1>4. task' \in [Task -> Call]
  BY <1>3 DEF CompanionInv, CompanionTypeOK, Call
<1>5. \A u \in Task : In(u, {"sent", "answered", "between"}) => task'[u] = task[u]
  BY <1>3 DEF CompanionInv, CompanionTypeOK, Scan, In
<1>6. CompanionTypeOK'
  BY <1>1, <1>4 DEF CompanionInv, CompanionTypeOK, OutboxTypeOK, Scan, outboxVars
<1>7. AckedIsReceived'
  BY <1>2 DEF CompanionInv, AckedIsReceived, Scan, outboxVars
<1>8. AnsweredIsReceived'
  BY <1>3 DEF CompanionInv, CompanionTypeOK, AnsweredIsReceived, In, Scan, outboxVars
<1>9. FileIsLoaded'
  BY DEF CompanionInv, FileIsLoaded, Scan, outboxVars
<1>10. WorkHasOwner'
  <2>1. uploading' => \E u \in Task : In(u, {"sent", "answered", "between"})'
    BY <1>5 DEF CompanionInv, WorkHasOwner, In, Scan
  <2>2. ASSUME NEW S \in Batch, spool'[S] = "uploading"
        PROVE  \E u \in Task : In(u, {"sent", "answered"})' /\ task'[u].batch = S
    BY <1>2, <1>5, <2>2 DEF CompanionInv, WorkHasOwner, In
  <2> QED BY <2>1, <2>2 DEF WorkHasOwner, In
<1> QED BY <1>6, <1>7, <1>8, <1>9, <1>10 DEF CompanionInv

\* A flush begins.
LEMMA FlushKeeps ==
  ASSUME CompanionInv, NEW t \in Task, Flush(t)
  PROVE  CompanionInv'
<1>1. CompanionTypeOK'
  BY DEF CompanionInv, CompanionTypeOK, Flush, outboxVars, OutboxTypeOK, Call,
         EntryStatus, StartFlush
<1>2. AckedIsReceived'
  BY DEF CompanionInv, CompanionTypeOK, Flush, outboxVars, AckedIsReceived, StartFlush
<1>3. AnsweredIsReceived'
  BY DEF CompanionInv, CompanionTypeOK, Flush, outboxVars, AnsweredIsReceived, In,
         Call, Idle, StartFlush
<1>4. FileIsLoaded'
  BY DEF CompanionInv, FileIsLoaded, Flush, outboxVars
<1>5. WorkHasOwner'
  BY DEF CompanionInv, CompanionTypeOK, Flush, outboxVars, WorkHasOwner, In, Call,
         Idle, StartFlush
<1> QED BY <1>1, <1>2, <1>3, <1>4, <1>5 DEF CompanionInv

\* A flush has nothing to do.
LEMMA QuietKeeps ==
  ASSUME CompanionInv, NEW t \in Task, Quiet(t)
  PROVE  CompanionInv'
<1>1. CompanionTypeOK'
  BY DEF CompanionInv, CompanionTypeOK, Quiet, outboxVars, OutboxTypeOK, Call,
         EntryStatus, Return, Idle
<1>2. AckedIsReceived'
  BY DEF CompanionInv, CompanionTypeOK, Quiet, outboxVars, AckedIsReceived, Return
<1>3. AnsweredIsReceived'
  BY DEF CompanionInv, CompanionTypeOK, Quiet, outboxVars, AnsweredIsReceived, In,
         Call, Idle, Return
<1>4. FileIsLoaded'
  BY DEF CompanionInv, FileIsLoaded, Quiet, outboxVars
<1>5. WorkHasOwner'
  BY DEF CompanionInv, CompanionTypeOK, Quiet, outboxVars, WorkHasOwner, In, Call,
         Idle, Return
<1> QED BY <1>1, <1>2, <1>3, <1>4, <1>5 DEF CompanionInv

\* An entry is marked and sent: its owner is the call that sends it.
LEMMA UploadKeeps ==
  ASSUME CompanionInv, NEW t \in Task, NEW S \in Batch, Upload(t, S)
  PROVE  CompanionInv'
<1>1. CompanionTypeOK'
  BY DEF CompanionInv, CompanionTypeOK, Upload, outboxVars, OutboxTypeOK, Call,
         EntryStatus, Mark, Batch
<1>2. AckedIsReceived'
  BY DEF CompanionInv, CompanionTypeOK, Upload, outboxVars, AckedIsReceived, Mark
<1>3. AnsweredIsReceived'
  BY DEF CompanionInv, CompanionTypeOK, Upload, outboxVars, AnsweredIsReceived, In,
         Call, Idle, Mark
<1>4. FileIsLoaded'
  BY DEF CompanionInv, FileIsLoaded, Upload, outboxVars
<1>5. WorkHasOwner'
  BY DEF CompanionInv, CompanionTypeOK, Upload, outboxVars, WorkHasOwner, In, Call,
         Idle, Mark
<1> QED BY <1>1, <1>2, <1>3, <1>4, <1>5 DEF CompanionInv

\* A loop ends; no call is in a loop that it does not know of.
LEMMA DrainedKeeps ==
  ASSUME CompanionInv, NEW t \in Task, Drained(t)
  PROVE  CompanionInv'
<1>1. CompanionTypeOK'
  BY DEF CompanionInv, CompanionTypeOK, Drained, outboxVars, OutboxTypeOK, Call,
         EntryStatus, Return, Idle
<1>2. AckedIsReceived'
  BY DEF CompanionInv, CompanionTypeOK, Drained, outboxVars, AckedIsReceived, Return
<1>3. AnsweredIsReceived'
  BY DEF CompanionInv, CompanionTypeOK, Drained, outboxVars, AnsweredIsReceived, In,
         Call, Idle, Return
<1>4. FileIsLoaded'
  BY DEF CompanionInv, FileIsLoaded, Drained, outboxVars
<1>5. WorkHasOwner'
  BY DEF CompanionInv, CompanionTypeOK, Drained, outboxVars, WorkHasOwner, In, Call,
         Idle, Return
<1> QED BY <1>1, <1>2, <1>3, <1>4, <1>5 DEF CompanionInv

\* The server reads a batch.
LEMMA ReceiveKeeps ==
  ASSUME CompanionInv, NEW t \in Task, Receive(t)
  PROVE  CompanionInv'
<1>1. CompanionTypeOK'
  BY DEF CompanionInv, CompanionTypeOK, Receive, outboxVars, OutboxTypeOK, Call,
         EntryStatus, Suspend
<1>2. AckedIsReceived'
  BY DEF CompanionInv, CompanionTypeOK, Receive, outboxVars, AckedIsReceived, Suspend
<1>3. AnsweredIsReceived'
  BY DEF CompanionInv, CompanionTypeOK, Receive, outboxVars, AnsweredIsReceived, In,
         Call, Idle, Suspend
<1>4. FileIsLoaded'
  BY DEF CompanionInv, FileIsLoaded, Receive, outboxVars
<1>5. WorkHasOwner'
  BY DEF CompanionInv, CompanionTypeOK, Receive, outboxVars, WorkHasOwner, In, Call,
         Idle, Suspend
<1> QED BY <1>1, <1>2, <1>3, <1>4, <1>5 DEF CompanionInv

\* An answered batch is acknowledged: it has been read.
LEMMA AcknowledgeKeeps ==
  ASSUME CompanionInv, NEW t \in Task, Acknowledge(t)
  PROVE  CompanionInv'
<1>1. CompanionTypeOK'
  BY DEF CompanionInv, CompanionTypeOK, Acknowledge, outboxVars, OutboxTypeOK, Call,
         EntryStatus, Suspend, Mark
<1>2. AckedIsReceived'
  <2>1. task[t].batch \subseteq received
    BY DEF CompanionInv, AnsweredIsReceived, Acknowledge
  <2>2. \A S \in Batch : spool'[S] = "done" => S = task[t].batch \/ spool[S] = "done"
    BY DEF CompanionInv, CompanionTypeOK, Acknowledge, Mark
  <2> QED BY <2>1, <2>2 DEF CompanionInv, AckedIsReceived, Acknowledge, outboxVars
<1>3. AnsweredIsReceived'
  BY DEF CompanionInv, CompanionTypeOK, Acknowledge, outboxVars, AnsweredIsReceived,
         In, Call, Idle, Suspend, Mark
<1>4. FileIsLoaded'
  BY DEF CompanionInv, FileIsLoaded, Acknowledge, outboxVars
<1>5. WorkHasOwner'
  BY DEF CompanionInv, CompanionTypeOK, Acknowledge, outboxVars, WorkHasOwner, In,
         Call, Idle, Suspend, Mark
<1> QED BY <1>1, <1>2, <1>3, <1>4, <1>5 DEF CompanionInv

\* A batch that is too large is set aside.
LEMMA QuarantineKeeps ==
  ASSUME CompanionInv, NEW t \in Task, Quarantine(t)
  PROVE  CompanionInv'
<1>1. CompanionTypeOK'
  BY DEF CompanionInv, CompanionTypeOK, Quarantine, outboxVars, OutboxTypeOK, Call,
         EntryStatus, Suspend, Mark
<1>2. AckedIsReceived'
  BY DEF CompanionInv, CompanionTypeOK, Quarantine, outboxVars, AckedIsReceived,
         Suspend, Mark
<1>3. AnsweredIsReceived'
  BY DEF CompanionInv, CompanionTypeOK, Quarantine, outboxVars, AnsweredIsReceived, In,
         Call, Idle, Suspend, Mark
<1>4. FileIsLoaded'
  BY DEF CompanionInv, FileIsLoaded, Quarantine, outboxVars
<1>5. WorkHasOwner'
  BY DEF CompanionInv, CompanionTypeOK, Quarantine, outboxVars, WorkHasOwner, In, Call,
         Idle, Suspend, Mark
<1> QED BY <1>1, <1>2, <1>3, <1>4, <1>5 DEF CompanionInv

\* An upload is given up and its loop left.
LEMMA GiveUpKeeps ==
  ASSUME CompanionInv, NEW t \in Task, GiveUp(t)
  PROVE  CompanionInv'
<1>1. CompanionTypeOK'
  BY DEF CompanionInv, CompanionTypeOK, GiveUp, outboxVars, OutboxTypeOK, Call,
         EntryStatus, Return, Mark, Idle
<1>2. AckedIsReceived'
  BY DEF CompanionInv, CompanionTypeOK, GiveUp, outboxVars, AckedIsReceived, Return,
         Mark
<1>3. AnsweredIsReceived'
  BY DEF CompanionInv, CompanionTypeOK, GiveUp, outboxVars, AnsweredIsReceived, In,
         Call, Idle, Return, Mark
<1>4. FileIsLoaded'
  BY DEF CompanionInv, FileIsLoaded, GiveUp, outboxVars
<1>5. WorkHasOwner'
  BY DEF CompanionInv, CompanionTypeOK, GiveUp, outboxVars, WorkHasOwner, In, Call,
         Idle, Return, Mark
<1> QED BY <1>1, <1>2, <1>3, <1>4, <1>5 DEF CompanionInv

\* An upload is put back and the loop goes on.
LEMMA GarbledKeeps ==
  ASSUME CompanionInv, NEW t \in Task, Garbled(t)
  PROVE  CompanionInv'
<1>1. CompanionTypeOK'
  BY DEF CompanionInv, CompanionTypeOK, Garbled, outboxVars, OutboxTypeOK, Call,
         EntryStatus, Suspend, Mark
<1>2. AckedIsReceived'
  BY DEF CompanionInv, CompanionTypeOK, Garbled, outboxVars, AckedIsReceived, Suspend,
         Mark
<1>3. AnsweredIsReceived'
  BY DEF CompanionInv, CompanionTypeOK, Garbled, outboxVars, AnsweredIsReceived, In,
         Call, Idle, Suspend, Mark
<1>4. FileIsLoaded'
  BY DEF CompanionInv, FileIsLoaded, Garbled, outboxVars
<1>5. WorkHasOwner'
  BY DEF CompanionInv, CompanionTypeOK, Garbled, outboxVars, WorkHasOwner, In, Call,
         Idle, Suspend, Mark
<1> QED BY <1>1, <1>2, <1>3, <1>4, <1>5 DEF CompanionInv

-----------------------------------------------------------------------------
(***************************************************************************)
(* What happens around them.                                               *)
(***************************************************************************)

\* Backoffs end, credentials come and go, the player pauses the companion.
LEMMA SurroundingsKeep ==
  ASSUME CompanionInv, Pair \/ SetPaused \/ \E S \in Batch : Elapse(S)
  PROVE  CompanionInv'
<1>1. UNCHANGED <<outboxVars, acked, uploading, task>>
  BY DEF Pair, SetPaused, Elapse
<1>2. /\ spool' \in [Batch -> EntryStatus]
      /\ \A S \in Batch : spool'[S] \in {spool[S], "pending"}
  BY DEF CompanionInv, CompanionTypeOK, Pair, SetPaused, Elapse, Mark, EntryStatus
<1>3. paused' \in BOOLEAN /\ paired' \in BOOLEAN
  BY DEF CompanionInv, CompanionTypeOK, Pair, SetPaused, Elapse
<1> QED
  BY <1>1, <1>2, <1>3 DEF CompanionInv, CompanionTypeOK, OutboxTypeOK, outboxVars,
     AckedIsReceived, AnsweredIsReceived, FileIsLoaded, WorkHasOwner, In

\* A restart forgets what was only in memory, and acknowledges no more than
\* was acknowledged before.
LEMMA RestartKeeps ==
  ASSUME CompanionInv, Restart
  PROVE  CompanionInv'
<1>1. UNCHANGED outboxVars
  BY DEF Restart
<1>2. acked' \subseteq acked
  BY DEF Restart, CompanionInv, AckedIsReceived
<1>3. CompanionTypeOK'
  BY <1>1, <1>2 DEF Restart, CompanionInv, CompanionTypeOK, OutboxTypeOK, outboxVars,
     EntryStatus, Call, Idle
<1>4. AckedIsReceived'
  <2>1. \A S \in Batch : spool'[S] = "done" => S \subseteq acked'
    BY DEF Restart
  <2> QED BY <1>1, <1>2, <2>1 DEF CompanionInv, AckedIsReceived, outboxVars
<1>5. AnsweredIsReceived' /\ FileIsLoaded' /\ WorkHasOwner'
  BY <1>1 DEF Restart, Idle, CompanionInv, AnsweredIsReceived, FileIsLoaded, WorkHasOwner,
     In, outboxVars
<1> QED BY <1>3, <1>4, <1>5 DEF CompanionInv

\* Every step preserves the invariant.
LEMMA CompanionStep == CompanionInv /\ [CompanionNext]_allVars => CompanionInv'
<1> SUFFICES ASSUME CompanionInv, [CompanionNext]_allVars PROVE CompanionInv'
  OBVIOUS
<1>1. CASE Play /\ UNCHANGED companionVars
  BY <1>1, PlayKeeps
<1>2. ASSUME NEW t \in Task,
             \/ Scan(t) \/ Flush(t) \/ Quiet(t) \/ Drained(t) \/ Receive(t)
             \/ Acknowledge(t) \/ Quarantine(t) \/ GiveUp(t) \/ Garbled(t)
             \/ \E S \in Batch : Upload(t, S)
      PROVE  CompanionInv'
  BY <1>2, ScanKeeps, FlushKeeps, QuietKeeps, DrainedKeeps, ReceiveKeeps, AcknowledgeKeeps,
     QuarantineKeeps, GiveUpKeeps, GarbledKeeps, UploadKeeps
<1>3. CASE Pair \/ SetPaused \/ \E S \in Batch : Elapse(S)
  BY <1>3, SurroundingsKeep
<1>4. CASE Restart
  BY <1>4, RestartKeeps
<1>5. CASE UNCHANGED allVars
  BY <1>5 DEF allVars, outboxVars, companionVars, CompanionInv, CompanionTypeOK, OutboxTypeOK,
     AckedIsReceived, AnsweredIsReceived, FileIsLoaded, WorkHasOwner, In
<1> QED BY <1>1, <1>2, <1>3, <1>4, <1>5 DEF CompanionNext

-----------------------------------------------------------------------------
(***************************************************************************)
(* The theorems.                                                           *)
(***************************************************************************)

\* The invariant of the outbox and the spool holds in every reachable state.
THEOREM CompanionInvariant == CompanionSpec => []CompanionInv
BY CompanionInitially, CompanionStep, PTL DEF CompanionSpec

\* Whatever calls overlap, answers get lost and restarts happen, neither the
\* spool nor the addon takes a report for acknowledged that the server has not
\* read (Spool.markDone, Spool.load, Outbox.applyReceipt).
THEOREM NothingAcknowledgedUnread == CompanionSpec => []AckedIsReceived
<1>1. CompanionInv => AckedIsReceived
  BY DEF CompanionInv
<1> QED BY <1>1, CompanionInvariant, PTL

\* The guard of flushQueue is up, and an entry is marked as being uploaded,
\* only while some call is there to take them down (service.ts, flushQueue).
THEOREM NoOrphanedUpload == CompanionSpec => []WorkHasOwner
<1>1. CompanionInv => WorkHasOwner
  BY DEF CompanionInv
<1> QED BY <1>1, CompanionInvariant, PTL

\* No step but a trim of acknowledged, and therefore read, reports removes one
\* from the file (Outbox.trimAcked).
THEOREM EvidenceIsKept == CompanionSpec => EvidenceKept
<1>1. CompanionInv /\ [CompanionNext]_allVars =>
        [\A r \in Report : disk[r] # "none" /\ disk'[r] = "none" => r \in received]_allVars
  <2> SUFFICES ASSUME CompanionInv, [CompanionNext]_allVars, NEW r \in Report,
                      disk[r] # "none", disk'[r] = "none"
               PROVE  r \in received
    OBVIOUS
  <2>1. FlushNow \/ Logout
    BY DEF CompanionNext, Play, Enqueue, ApplyReceipt, GameCrash, Scan, Flush, Quiet,
           Drained,
       Receive, Acknowledge, Quarantine, GiveUp, Garbled, Upload, Elapse, Pair, SetPaused,
       Restart, outboxVars, allVars
  <2>2. CASE FlushNow
    <3>1. PICK gone \in SUBSET Report :
            /\ Trims(gone)
            /\ reports'[r] = IF r \in gone THEN "none"
                             ELSE IF reports[r] = "unsynced" THEN "saved" ELSE reports[r]
      BY <2>2 DEF FlushNow
    <3>2. CASE r \in gone
      BY <3>1, <3>2 DEF Trims, Acked, CompanionInv, AckedIsReceived
    <3>3. CASE r \notin gone
      BY <2>2, <3>1, <3>3 DEF FlushNow, CompanionInv, FileIsLoaded
    <3> QED BY <3>2, <3>3
  <2>3. CASE Logout
    BY <2>3 DEF Logout, CompanionInv, FileIsLoaded
  <2> QED BY <2>1, <2>2, <2>3
<1> QED BY <1>1, CompanionInvariant, PTL DEF CompanionSpec, EvidenceKept

-----------------------------------------------------------------------------
(***************************************************************************)
(* The companion as a process is a companion: whatever the player, the     *)
(* game and the four commands do, what is shown of the service holds.      *)
(***************************************************************************)

\* Steps of the game: steps of the addon's outbox, or none.
LEMMA GameSteps ==
  ASSUME StartGame \/ InGame \/ CloseGame
  PROVE  [CompanionNext]_allVars
<1>1. CASE StartGame
  BY <1>1 DEF StartGame
<1>2. CASE InGame
  BY <1>2 DEF InGame, Play, CompanionNext
<1>3. CASE CloseGame
  BY <1>3 DEF CloseGame, Play, CompanionNext
<1> QED BY <1>1, <1>2, <1>3

\* Steps of the command: it starts, waits, sweeps and drains with a call of the
\* service, and leaves.
LEMMA CommandSteps ==
  ASSUME \/ \E m \in Mode : Launch(m)
         \/ GameUp \/ GameDown \/ Sweep \/ Drain \/ Stop \/ Leave \/ Interrupt \/ Kill
  PROVE  [CompanionNext]_allVars
<1>1. CASE (\E m \in Mode : Launch(m)) \/ GameUp \/ GameDown \/ Interrupt
  BY <1>1 DEF Launch, GameUp, GameDown, Interrupt
<1>2. CASE Sweep
  <2>1. Scan(Drainer) \/ UNCHANGED allVars
    BY <1>2 DEF Sweep
  <2> QED BY <2>1, LifecycleAssumption DEF CompanionNext
<1>3. CASE Drain
  <2>1. Flush(Drainer)
    BY <1>3 DEF Drain
  <2> QED BY <2>1, LifecycleAssumption DEF CompanionNext
<1>4. CASE Stop \/ Leave \/ Kill
  <2>1. Restart \/ UNCHANGED allVars
    BY <1>4 DEF Stop, Leave, Kill
  <2> QED BY <2>1 DEF CompanionNext
<1> QED BY <1>1, <1>2, <1>3, <1>4

\* Steps of the service, and of what is around it.
LEMMA ServiceSteps ==
  ASSUME (\E t \in Task : Poll(t) \/ Continue(t)) \/ Around
  PROVE  [CompanionNext]_allVars
<1>1. ASSUME NEW t \in Task, Poll(t)
      PROVE  CompanionNext
  BY <1>1 DEF Poll, CompanionNext
<1>2. ASSUME NEW t \in Task, Continue(t)
      PROVE  CompanionNext
  BY <1>2 DEF Continue, CompanionNext
<1>3. ASSUME Around
      PROVE  CompanionNext
  BY <1>3 DEF Around, CompanionNext
<1> QED BY <1>1, <1>2, <1>3

-----------------------------------------------------------------------------
\* The process is a companion: every command, exit, kill and relaunch is a step
\* of the service's specification or leaves the service as it is (lifecycle.ts,
\* cli.ts run and play).
THEOREM LifecycleImplements == LifecycleSpec => CompanionSpec
<1>1. LifecycleInit => CompanionInit
  BY DEF LifecycleInit
<1>2. [LifecycleNext]_lifeVars => [CompanionNext]_allVars
  <2>1. CASE UNCHANGED lifeVars
    BY <2>1 DEF lifeVars
  <2>2. CASE LifecycleNext
    BY <2>2, GameSteps, CommandSteps, ServiceSteps DEF LifecycleNext
  <2> QED BY <2>1, <2>2
<1> QED BY <1>1, <1>2, PTL DEF LifecycleSpec, CompanionSpec

\* No exit, kill or relaunch in the middle of an upload makes the companion or
\* the addon take for acknowledged what the server has not read.
THEOREM LifecycleAcknowledges == LifecycleSpec => []AckedIsReceived
BY LifecycleImplements, NothingAcknowledgedUnread, PTL

\* None leaves an upload without a call that ends it.
THEOREM LifecycleOwnsUploads == LifecycleSpec => []WorkHasOwner
BY LifecycleImplements, NoOrphanedUpload, PTL

\* And none removes an unread report from the file.
THEOREM LifecycleKeepsEvidence == LifecycleSpec => EvidenceKept
BY LifecycleImplements, EvidenceIsKept, PTL
=============================================================================
