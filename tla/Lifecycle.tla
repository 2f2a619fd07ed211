----------------------------- MODULE Lifecycle -----------------------------
(***************************************************************************)
(* The companion process and the game (apps/uploader/src/lifecycle.ts and  *)
(* the commands run and play of cli.ts).                                   *)
(*                                                                         *)
(*   run             watches the SavedVariables file until interrupted     *)
(*   run --with-wow  waits for the game, watches while it runs, sweeps and *)
(*                   drains when it has closed, and waits again            *)
(*   ... --once      leaves after the first session                        *)
(*   play            starts the game itself and leaves with it             *)
(*                                                                         *)
(* The service is the one of Companion.tla.  Polls of the watcher run in   *)
(* any task but Drainer, which is the call that the end of a session is    *)
(* waiting for.                                                            *)
(***************************************************************************)
EXTENDS Companion

CONSTANT Drainer   \* the call awaited by onDown, and by play after the game

ASSUME LifecycleAssumption == Drainer \in Task

VARIABLES
  game,     \* the game is running
  file,     \* the game has written a SavedVariables file
  listed,   \* CompanionService.files has it
  mode,     \* the command; "stopping" once run --with-wow was interrupted
  life      \* where the command is

processVars == <<listed, mode, life>>
lifeVars == <<allVars, game, file, processVars>>

Mode == {"run", "with-wow", "once", "play", "stopping"}
Life == {"off", "waiting", "watching", "grace", "sweep", "drain", "leaving"}

LifecycleTypeOK ==
  /\ CompanionTypeOK
  /\ game \in BOOLEAN /\ file \in BOOLEAN /\ listed \in BOOLEAN
  /\ mode \in Mode
  /\ life \in Life

LifecycleInit ==
  /\ CompanionInit
  /\ game = FALSE /\ file \in BOOLEAN
  /\ listed = FALSE /\ mode = "run" /\ life = "off"

-----------------------------------------------------------------------------
(* The player and the game. *)

\* The player starts the game by hand.  (The exit of the game that play has
\* started is noticed before anybody can start another.)
StartGame ==
  /\ ~game
  /\ ~(mode = "play" /\ life = "watching")
  /\ game' = TRUE
  /\ UNCHANGED <<allVars, file, processVars>>

InGame ==
  /\ game
  /\ \/ \E r \in Report : (Enqueue(r) \/ ApplyReceipt(r)) /\ UNCHANGED file
     \/ (FlushNow \/ Logout) /\ file' = TRUE
  /\ UNCHANGED <<companionVars, game, processVars>>

\* The file is written when the game closes, not when it crashes.
CloseGame ==
  /\ game
  /\ game' = FALSE
  /\ \/ Logout /\ file' = TRUE
     \/ GameCrash /\ UNCHANGED file
  /\ UNCHANGED <<companionVars, processVars>>

-----------------------------------------------------------------------------
(* The command. *)

\* svc.start: the files that exist now are listed and watched.
StartService ==
  /\ life' = "watching"
  /\ listed' = file

\* A command is started.  What it loads is what the last one left (Restart).
Launch(m) ==
  /\ life = "off"
  /\ m \in Mode \ {"stopping"}
  /\ m = "play" => ~game
  /\ mode' = m
  /\ game' = (game \/ m = "play")
  /\ IF m \in {"run", "play"} \/ game THEN StartService
     ELSE life' = "waiting" /\ listed' = FALSE
  /\ UNCHANGED <<allVars, file>>

\* The probe of runWithWow finds the game: onUp.  An interrupt is looked at
\* only at the top of the loop, after the sleep and the probe.
GameUp ==
  /\ life = "waiting" /\ game
  /\ StartService
  /\ UNCHANGED <<allVars, game, file, mode>>

\* The probe misses the game, or its exit is reported, or the loop was told to
\* stop: onDown, which begins by waiting for the game to finish its last write.
GameDown ==
  /\ life = "watching" /\ mode # "run"
  /\ ~game \/ mode = "stopping"
  /\ life' = "grace"
  /\ UNCHANGED <<allVars, game, file, listed, mode>>

\* sweepNow: rescan, then the file is read whether or not it has changed.
Sweep ==
  /\ life = "grace"
  /\ life' = "sweep"
  /\ listed' = (listed \/ file)
  /\ \/ listed' /\ Scan(Drainer)
     \/ ~(listed' /\ Pending \ acked # {}) /\ UNCHANGED allVars
  /\ UNCHANGED <<game, file, mode>>

\* When that call has returned, flushQueue.
Drain ==
  /\ life = "sweep" /\ In(Drainer, {"idle"})
  /\ life' = "drain"
  /\ Flush(Drainer)
  /\ UNCHANGED <<game, file, listed, mode>>

\* Mutant of Stop: it waits for the queue to be empty.
StopWhenEmpty ==
  /\ life = "drain" /\ In(Drainer, {"idle"})
  /\ \A S \in Batch : spool[S] \in {"none", "done", "quarantined"}
  /\ \/ mode = "with-wow" /\ life' = "waiting" /\ UNCHANGED allVars
     \/ mode \in {"once", "stopping"} /\ life' = "leaving" /\ UNCHANGED allVars
     \/ mode = "play" /\ life' = "off" /\ Restart
  /\ UNCHANGED <<game, file, listed, mode>>

\* svc.stop.  play exits at once, whatever another call is doing; run --once
\* leaves when nothing keeps the process alive.
Stop ==
  /\ life = "drain" /\ In(Drainer, {"idle"})
  /\ \/ mode = "with-wow" /\ life' = "waiting" /\ UNCHANGED allVars
     \/ mode \in {"once", "stopping"} /\ life' = "leaving" /\ UNCHANGED allVars
     \/ mode = "play" /\ life' = "off" /\ Restart
  /\ UNCHANGED <<game, file, listed, mode>>

Leave ==
  /\ \/ life = "leaving" /\ \A t \in Task : In(t, {"idle"})
     \/ life = "waiting" /\ mode = "stopping" /\ \A t \in Task : In(t, {"idle"})
  /\ life' = "off"
  /\ Restart
  /\ UNCHANGED <<game, file, listed, mode>>

\* Ctrl+C: run --with-wow finishes what it is doing.
Interrupt ==
  /\ life # "off" /\ mode \in {"with-wow", "once"}
  /\ mode' = "stopping"
  /\ UNCHANGED <<allVars, game, file, listed, life>>

\* Ctrl+C in run and play, a crash, the end of the computer session.
Kill ==
  /\ life # "off"
  /\ life' = "off"
  /\ Restart
  /\ UNCHANGED <<game, file, listed, mode>>

-----------------------------------------------------------------------------
(* The service while the process lives. *)

\* The watcher has found the file stable.
Poll(t) ==
  /\ t # Drainer
  /\ life \in {"watching", "grace", "sweep", "drain"}
  /\ listed
  /\ Scan(t)
  /\ UNCHANGED <<game, file, processVars>>

\* A call goes on until the process is gone.
Continue(t) ==
  /\ \/ Quiet(t) \/ Drained(t) \/ Receive(t) \/ Acknowledge(t)
     \/ Quarantine(t) \/ GiveUp(t) \/ Garbled(t)
     \/ \E S \in Batch : Upload(t, S)
  /\ UNCHANGED <<game, file, processVars>>

\* Backoffs end and credentials come and go, with or without the process.
Around ==
  /\ (\E S \in Batch : Elapse(S)) \/ Pair \/ SetPaused
  /\ UNCHANGED <<game, file, processVars>>

LifecycleNext ==
  \/ StartGame \/ InGame \/ CloseGame
  \/ \E m \in Mode : Launch(m)
  \/ GameUp \/ GameDown \/ Sweep \/ Drain \/ Stop \/ Leave \/ Interrupt \/ Kill
  \/ \E t \in Task : Poll(t) \/ Continue(t)
  \/ Around

LifecycleSpec == LifecycleInit /\ [][LifecycleNext]_lifeVars

\* The loop of runWithWow goes on, the watcher polls, a call goes on (a request
\* that gets no answer ends in an error, fetch has a timeout of its own),
\* backoffs end, and the network does not lose every upload of an entry for
\* ever.  The player has to do nothing, nobody has to start the companion or to
\* keep it running.
LifecycleFairness ==
  /\ WF_lifeVars(GameUp \/ GameDown \/ Sweep \/ Drain \/ Stop \/ Leave)
  /\ SF_lifeVars(\E t \in Task : Poll(t))
  /\ \A t \in Task : WF_lifeVars(Continue(t))
  /\ \A S \in Batch :
       /\ WF_lifeVars(Elapse(S) /\ Around)
       /\ SF_lifeVars(\E t \in Task : Upload(t, S) /\ Continue(t))
       /\ SF_lifeVars(\E t \in Task : task[t].batch = S /\ (Receive(t) \/ Quarantine(t))
                                      /\ Continue(t))

FairLifecycleSpec == LifecycleSpec /\ LifecycleFairness

-----------------------------------------------------------------------------
(***************************************************************************)
(* Properties                                                              *)
(***************************************************************************)

Online == paired /\ ~paused
Kept(r) == r \in received \/ \E S \in Batch : r \in S /\ spool[S] = "quarantined"

\* However sessions, exits, relaunches and kills cut the uploads short, a report
\* saved for upload is read by the server in the end, or quarantined, if the
\* companion keeps a credential and is watching its file again and again
\* (lifecycle.ts: "one final flush + drain, then the companion exits too").
PlayedIsReceived ==
  <>[]Online /\ []<>(life = "watching" /\ listed) =>
    \A r \in Report : disk[r] = "saved" ~> Kept(r)

\* Closing the game brings the companion to rest: the sweep and the drain end,
\* with a credential or without, and whatever other calls are in progress, and
\* the process leaves or waits for the next game.
SessionEnds == life \in {"grace", "sweep", "drain", "leaving"} ~> life \in {"off", "waiting"}
=============================================================================
