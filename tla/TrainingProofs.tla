--------------------------- MODULE TrainingProofs ---------------------------
(***************************************************************************)
(* A terminal result file speaks for every process of its training         *)
(* (QuietWhenTerminal), for any number of trainings, deaths, policies and  *)
(* samples, under the whole next-state relation of TrainingMonitor.        *)
(*                                                                         *)
(* The invariant is not inductive: a terminal state is written from what a *)
(* watcher did in an earlier step, or by a recovery that must not meet a   *)
(* launch.  Ordered says how far a launch and a watcher have come.         *)
(*                                                                         *)
(* On top of that: no turn is processed over a training that runs          *)
(* unwatched (UnwatchedKeepsTurnOpen; the strengthening says that a        *)
(* running training with a marker, or with a row at all, has an active     *)
(* monitor), a launch that was interrupted is cancelled (HitFor says which *)
(* side still has to do it), a completed monitor has told how its training *)
(* ended (ToldFor says that nothing comes between the signal and the       *)
(* completion), and no signal of a policy that was replaced is left        *)
(* (SignalsOfPolicy).                                                      *)
(***************************************************************************)
EXTENDS TrainingMonitor, TLAPS

\* A launch that has no record yet has no watcher; a watcher past its stop has
\* left no process; a worker that is down or recovering runs neither.
OrderedFor(t) ==
    /\ call[t] \in {"begun", "started"} => record[t] = "none" /\ watch[t] = "none"
    /\ call[t] = "recorded" => record[t] # "none"
    /\ watch[t] # "none" => record[t] # "none"
    /\ watch[t] \in {"stopping", "writing"} => outcome[t] \in Ended
    /\ watch[t] \in {"writing", "retiring"} => leader[t] # "alive" /\ ~group[t]
    /\ call[t] \in {"started", "recorded"} \/ watch[t] # "none" => t \in own
    /\ phase \in {"recovering", "down"} => call[t] = "idle" /\ watch[t] = "none"

QuietFor(t) ==
    /\ record[t] \in Terminal => leader[t] # "alive" /\ (group[t] => record[t] = "lost")
    /\ phase \in {"up", "closing"} /\ t \notin own /\ leader[t] = "alive" => record[t] = "none"

IInv == TrainingTypeOK /\ \A t \in Training : OrderedFor(t) /\ QuietFor(t)

-----------------------------------------------------------------------------

LEMMA InitIInv == Init => IInv
  BY DEF Init, TrainingInit, IInv, OrderedFor, QuietFor, TrainingTypeOK, Terminal, Ended,
         Recovered, Step

\* The launch: each step moves its own training on.
LEMMA LaunchingKeeps ==
    ASSUME IInv, NEW t \in Training, Launching(t)
    PROVE  IInv'
<1>1. CASE StartProcess(t)
  <2>1. TrainingTypeOK'
    BY <1>1 DEF IInv, StartProcess, TrainingTypeOK, Step
  <2>2. ASSUME NEW u \in Training PROVE OrderedFor(u)' /\ QuietFor(u)'
    BY <1>1, <2>2 DEF IInv, StartProcess, Working, TrainingTypeOK, OrderedFor, QuietFor,
                      Terminal, Ended, Recovered, Step
  <2> QED  BY <2>1, <2>2 DEF IInv
<1>2. CASE RecordRunning(t)
  <2>1. TrainingTypeOK'
    BY <1>2 DEF IInv, RecordRunning, TrainingTypeOK, Step
  <2>2. ASSUME NEW u \in Training PROVE OrderedFor(u)' /\ QuietFor(u)'
    BY <1>2, <2>2 DEF IInv, RecordRunning, Working, TrainingTypeOK, OrderedFor, QuietFor,
                      Terminal, Ended, Recovered, Step
  <2> QED  BY <2>1, <2>2 DEF IInv
<1>3. CASE StartWatching(t)
  <2>1. TrainingTypeOK'
    BY <1>3 DEF IInv, StartWatching, TrainingTypeOK, Step
  <2>2. ASSUME NEW u \in Training PROVE OrderedFor(u)' /\ QuietFor(u)'
    BY <1>3, <2>2 DEF IInv, StartWatching, Working, TrainingTypeOK, OrderedFor, QuietFor,
                      Terminal, Ended, Recovered, Step
  <2> QED  BY <2>1, <2>2 DEF IInv
<1> QED  BY <1>1, <1>2, <1>3 DEF Launching

\* The watcher: whatever it decides, the group is gone before the record says so.
LEMMA WatchingKeeps ==
    ASSUME IInv, NEW t \in Training, Watching(t)
    PROVE  IInv'
<1>1. CASE PublishRun(t)
  <2>1. TrainingTypeOK'
    BY <1>1 DEF IInv, PublishRun, TrainingTypeOK, OrderedFor, QuietFor, Working,
                      Killed, Exited, Decided, Terminal, Ended, Recovered, Step
  <2>2. ASSUME NEW u \in Training PROVE OrderedFor(u)' /\ QuietFor(u)'
    BY <1>1, <2>2 DEF IInv, PublishRun, TrainingTypeOK, OrderedFor, QuietFor, Working,
                      Killed, Exited, Decided, Terminal, Ended, Recovered, Step
  <2> QED  BY <2>1, <2>2 DEF IInv
<1>2. CASE Decide(t)
  <2>1. TrainingTypeOK'
    BY <1>2 DEF IInv, Decide, TrainingTypeOK, OrderedFor, QuietFor, Working,
                      Killed, Exited, Decided, Terminal, Ended, Recovered, Step
  <2>2. ASSUME NEW u \in Training PROVE OrderedFor(u)' /\ QuietFor(u)'
    BY <1>2, <2>2 DEF IInv, Decide, TrainingTypeOK, OrderedFor, QuietFor, Working,
                      Killed, Exited, Decided, Terminal, Ended, Recovered, Step
  <2> QED  BY <2>1, <2>2 DEF IInv
<1>3. CASE Stop(t)
  <2>1. TrainingTypeOK'
    BY <1>3 DEF IInv, Stop, TrainingTypeOK, OrderedFor, QuietFor, Working,
                      Killed, Exited, Decided, Terminal, Ended, Recovered, Step
  <2>2. ASSUME NEW u \in Training PROVE OrderedFor(u)' /\ QuietFor(u)'
    BY <1>3, <2>2 DEF IInv, Stop, TrainingTypeOK, OrderedFor, QuietFor, Working,
                      Killed, Exited, Decided, Terminal, Ended, Recovered, Step
  <2> QED  BY <2>1, <2>2 DEF IInv
<1>4. CASE WriteOutcome(t)
  <2>1. TrainingTypeOK'
    BY <1>4 DEF IInv, WriteOutcome, TrainingTypeOK, OrderedFor, QuietFor, Working,
                      Killed, Exited, Decided, Terminal, Ended, Recovered, Step
  <2>2. ASSUME NEW u \in Training PROVE OrderedFor(u)' /\ QuietFor(u)'
    BY <1>4, <2>2 DEF IInv, WriteOutcome, TrainingTypeOK, OrderedFor, QuietFor, Working,
                      Killed, Exited, Decided, Terminal, Ended, Recovered, Step
  <2> QED  BY <2>1, <2>2 DEF IInv
<1>5. CASE Retire(t)
  <2>1. TrainingTypeOK'
    BY <1>5 DEF IInv, Retire, TrainingTypeOK, OrderedFor, QuietFor, Working,
                      Killed, Exited, Decided, Terminal, Ended, Recovered, Step
  <2>2. ASSUME NEW u \in Training PROVE OrderedFor(u)' /\ QuietFor(u)'
    BY <1>5, <2>2 DEF IInv, Retire, TrainingTypeOK, OrderedFor, QuietFor, Working,
                      Killed, Exited, Decided, Terminal, Ended, Recovered, Step
  <2> QED  BY <2>1, <2>2 DEF IInv
<1> QED  BY <1>1, <1>2, <1>3, <1>4, <1>5 DEF Watching

\* The processes: only a live leader forks.
LEMMA ProcessesKeep ==
    ASSUME IInv, NEW t \in Training, Processes(t)
    PROVE  IInv'
<1>1. CASE Spawn(t)
  <2>1. TrainingTypeOK'
    BY <1>1 DEF IInv, Spawn, TrainingTypeOK, OrderedFor, QuietFor, Working,
                      Killed, Exited, Decided, Terminal, Ended, Recovered, Step
  <2>2. ASSUME NEW u \in Training PROVE OrderedFor(u)' /\ QuietFor(u)'
    BY <1>1, <2>2 DEF IInv, Spawn, TrainingTypeOK, OrderedFor, QuietFor, Working,
                      Killed, Exited, Decided, Terminal, Ended, Recovered, Step
  <2> QED  BY <2>1, <2>2 DEF IInv
<1>2. CASE LeaderExits(t)
  <2>1. TrainingTypeOK'
    BY <1>2 DEF IInv, LeaderExits, TrainingTypeOK, OrderedFor, QuietFor, Working,
                      Killed, Exited, Decided, Terminal, Ended, Recovered, Step
  <2>2. ASSUME NEW u \in Training PROVE OrderedFor(u)' /\ QuietFor(u)'
    BY <1>2, <2>2 DEF IInv, LeaderExits, TrainingTypeOK, OrderedFor, QuietFor, Working,
                      Killed, Exited, Decided, Terminal, Ended, Recovered, Step
  <2> QED  BY <2>1, <2>2 DEF IInv
<1>3. CASE GroupExits(t)
  <2>1. TrainingTypeOK'
    BY <1>3 DEF IInv, GroupExits, TrainingTypeOK, OrderedFor, QuietFor, Working,
                      Killed, Exited, Decided, Terminal, Ended, Recovered, Step
  <2>2. ASSUME NEW u \in Training PROVE OrderedFor(u)' /\ QuietFor(u)'
    BY <1>3, <2>2 DEF IInv, GroupExits, TrainingTypeOK, OrderedFor, QuietFor, Working,
                      Killed, Exited, Decided, Terminal, Ended, Recovered, Step
  <2> QED  BY <2>1, <2>2 DEF IInv
<1> QED  BY <1>1, <1>2, <1>3 DEF Processes

\* A new worker's recovery finds no launch and no watcher.
LEMMA RecoveryKeeps ==
    ASSUME IInv, NEW t \in Training, RecoverRun(t)
    PROVE  IInv'
<1> USE DEF RecoverRun, Killed
<1>1. /\ phase' = phase /\ call' = call /\ watch' = watch /\ outcome' = outcome
      /\ phase = "recovering" /\ record[t] = "running"
      /\ \A u \in Training \ {t} :
            /\ record'[u] = record[u] /\ leader'[u] = leader[u] /\ group'[u] = group[u]
      /\ leader'[t] # "alive"
      /\ record'[t] = IF leader[t] = "alive" THEN "recovered" ELSE "lost"
  BY DEF IInv, TrainingTypeOK
<1>2. group'[t] => record'[t] = "lost"
  <2>1. CASE leader[t] = "alive"
    <3>1. group' = [group EXCEPT ![t] = FALSE]
      BY <2>1
    <3> QED  BY <3>1 DEF IInv, TrainingTypeOK
  <2>2. CASE leader[t] # "alive"
    BY <2>2, <1>1
  <2> QED  BY <2>1, <2>2
<1>3. TrainingTypeOK'
  BY DEF IInv, TrainingTypeOK, Terminal, Ended, Recovered
<1>4. OrderedFor(t)' /\ QuietFor(t)'
  BY <1>1, <1>2 DEF IInv, OrderedFor, QuietFor
<1>5. ASSUME NEW u \in Training \ {t} PROVE OrderedFor(u)' /\ QuietFor(u)'
  BY <1>1, <1>5 DEF IInv, OrderedFor, QuietFor
<1> QED  BY <1>3, <1>4, <1>5 DEF IInv

\* The worker's end, and what its supervisor does.
LEMMA WorkerKeeps ==
    ASSUME IInv, Remember \/ Exit \/ Crash \/ Restart \/ RecoveryDone \/ (Close /\ crashes' \in Nat)
    PROVE  IInv'
<1>1. CASE Remember
  <2>1. TrainingTypeOK'
    BY <1>1 DEF IInv, Remember, TrainingTypeOK, OrderedFor, QuietFor, Working,
                      Killed, Exited, Decided, Terminal, Ended, Recovered, Step
  <2>2. ASSUME NEW u \in Training PROVE OrderedFor(u)' /\ QuietFor(u)'
    BY <1>1, <2>2 DEF IInv, Remember, TrainingTypeOK, OrderedFor, QuietFor, Working,
                      Killed, Exited, Decided, Terminal, Ended, Recovered, Step
  <2> QED  BY <2>1, <2>2 DEF IInv
<1>2. CASE Exit
  <2>1. TrainingTypeOK'
    BY <1>2 DEF IInv, Exit, Forgotten, TrainingTypeOK, OrderedFor, QuietFor, Working,
                      Killed, Exited, Decided, Terminal, Ended, Recovered, Step
  <2>2. ASSUME NEW u \in Training PROVE OrderedFor(u)' /\ QuietFor(u)'
    BY <1>2, <2>2 DEF IInv, Exit, Forgotten, TrainingTypeOK, OrderedFor, QuietFor, Working,
                      Killed, Exited, Decided, Terminal, Ended, Recovered, Step
  <2> QED  BY <2>1, <2>2 DEF IInv
<1>3. CASE Crash
  <2>1. TrainingTypeOK'
    BY <1>3 DEF IInv, Crash, Forgotten, TrainingTypeOK, OrderedFor, QuietFor, Working,
                      Killed, Exited, Decided, Terminal, Ended, Recovered, Step
  <2>2. ASSUME NEW u \in Training PROVE OrderedFor(u)' /\ QuietFor(u)'
    BY <1>3, <2>2 DEF IInv, Crash, Forgotten, TrainingTypeOK, OrderedFor, QuietFor, Working,
                      Killed, Exited, Decided, Terminal, Ended, Recovered, Step
  <2> QED  BY <2>1, <2>2 DEF IInv
<1>4. CASE Restart
  <2>1. TrainingTypeOK'
    BY <1>4 DEF IInv, Restart, TrainingTypeOK, OrderedFor, QuietFor, Working,
                      Killed, Exited, Decided, Terminal, Ended, Recovered, Step
  <2>2. ASSUME NEW u \in Training PROVE OrderedFor(u)' /\ QuietFor(u)'
    BY <1>4, <2>2 DEF IInv, Restart, TrainingTypeOK, OrderedFor, QuietFor, Working,
                      Killed, Exited, Decided, Terminal, Ended, Recovered, Step
  <2> QED  BY <2>1, <2>2 DEF IInv
<1>5. CASE RecoveryDone
  <2>1. TrainingTypeOK'
    BY <1>5 DEF IInv, RecoveryDone, TrainingTypeOK, OrderedFor, QuietFor, Working,
                      Killed, Exited, Decided, Terminal, Ended, Recovered, Step
  <2>2. ASSUME NEW u \in Training PROVE OrderedFor(u)' /\ QuietFor(u)'
    BY <1>5, <2>2 DEF IInv, RecoveryDone, TrainingTypeOK, OrderedFor, QuietFor, Working,
                      Killed, Exited, Decided, Terminal, Ended, Recovered, Step
  <2> QED  BY <2>1, <2>2 DEF IInv
<1>6. CASE Close /\ crashes' \in Nat
  <2>1. TrainingTypeOK'
    BY <1>6 DEF IInv, Close, TrainingTypeOK, OrderedFor, QuietFor, Working,
                      Killed, Exited, Decided, Terminal, Ended, Recovered, Step
  <2>2. ASSUME NEW u \in Training PROVE OrderedFor(u)' /\ QuietFor(u)'
    BY <1>6, <2>2 DEF IInv, Close, TrainingTypeOK, OrderedFor, QuietFor, Working,
                      Killed, Exited, Decided, Terminal, Ended, Recovered, Step
  <2> QED  BY <2>1, <2>2 DEF IInv
<1> QED  BY <1>1, <1>2, <1>3, <1>4, <1>5, <1>6

-----------------------------------------------------------------------------
(* The tools, the controller and W&B around the trainings. *)

LEMMA OthersKeep ==
    ASSUME IInv, UNCHANGED trainingVars
    PROVE  IInv'
  BY DEF IInv, trainingVars, TrainingTypeOK, OrderedFor, QuietFor

\* A tool call that moves on, or a cancellation that is flagged: a launch begins
\* only for a training that has neither record nor watcher.
LEMMA CallKeeps ==
    ASSUME IInv, NEW t \in Training, NEW s \in Step \ {"started", "recorded"},
           phase \in {"up", "closing"},
           s = "begun" => record[t] = "none",
           call' = [call EXCEPT ![t] = s] \/ call' = call,
           cancelled' \subseteq Training, UNCHANGED trainingRest
    PROVE  IInv'
<1>1. TrainingTypeOK'
  BY DEF IInv, TrainingTypeOK, trainingRest
<1>2. ASSUME NEW u \in Training PROVE OrderedFor(u)' /\ QuietFor(u)'
  <2>1. CASE call'[u] = call[u]
    BY <2>1 DEF IInv, OrderedFor, QuietFor, trainingRest
  <2>2. CASE call'[u] # call[u]
    BY <2>2 DEF IInv, OrderedFor, QuietFor, trainingRest, TrainingTypeOK
  <2> QED  BY <2>1, <2>2
<1> QED  BY <1>1, <1>2 DEF IInv

LEMMA ToolsKeep ==
    ASSUME IInv, NEW t \in Training,
           Begin(t) \/ LaunchTool(t) \/ RegisterRaises(t) \/ InterruptCancels(t) \/ CancelTool(t)
    PROVE  IInv'
<1>1. Flagged(t) \subseteq Training /\ cancelled \subseteq Training
  BY DEF IInv, TrainingTypeOK, Flagged
<1>2. CASE Begin(t)
  BY <1>1, <1>2, CallKeeps DEF Begin, Turning, Step, trainingRest
<1>3. CASE Launch(t)
  BY <1>3, LaunchingKeeps DEF Launch
<1>4. CASE Launched(t)
  <2>1. CASE t \in late
    BY <1>1, <1>4, <2>1, CallKeeps DEF Launched, Working, Step
  <2>2. CASE t \notin late
    BY <1>1, <1>4, <2>2, CallKeeps DEF Launched, Working, Step
  <2> QED  BY <2>1, <2>2
<1>5. CASE LaunchCancelled(t)
  BY <1>1, <1>5, CallKeeps DEF LaunchCancelled, Working, Step
<1>6. CASE RegisterDefault(t)
  BY <1>1, <1>6, CallKeeps DEF RegisterDefault, Working, Step
<1>7. CASE MarkDefault(t) \/ RegisterRaises(t)
  BY <1>1, <1>7, CallKeeps DEF MarkDefault, RegisterRaises, Returns, Working, Step
<1>8. CASE InterruptCancels(t) \/ CancelTool(t)
  <2>1. UNCHANGED trainingRest /\ call' = call /\ cancelled' = Flagged(t)
    BY <1>8 DEF InterruptCancels, CancelTool
  <2> QED  BY <1>1, <2>1 DEF IInv, TrainingTypeOK, OrderedFor, QuietFor, trainingRest
<1> QED  BY <1>2, <1>3, <1>4, <1>5, <1>6, <1>7, <1>8 DEF LaunchTool

LEMMA BackgroundKeeps ==
    ASSUME IInv, Background
    PROVE  IInv'
  BY WatchingKeeps, ProcessesKeep, RecoveryKeeps, WorkerKeeps DEF Background

LEMMA ControllingKeeps ==
    ASSUME IInv, Controlling
    PROVE  IInv'
<1>1. CASE \E s \in signals : Refused(s)
  <2>1. Close /\ crashes' \in Nat
    BY <1>1 DEF Refused, IInv, TrainingTypeOK
  <2> QED  BY <2>1, WorkerKeeps
<1>2. CASE ~\E s \in signals : Refused(s)
  <2>1. UNCHANGED trainingVars
    BY <1>2 DEF Controlling, AcknowledgeSignals, AcknowledgeTurn, NewEvents, EnqueueDone, Cycle,
                PollRunning, PollEnded, CompleteRow, CompleteMarker, Enqueue
  <2> QED  BY <2>1, OthersKeep
<1> QED  BY <1>1, <1>2

LEMMA NextKeeps == IInv /\ [Next]_vars => IInv'
<1> SUFFICES ASSUME IInv, [Next]_vars PROVE IInv'
  OBVIOUS
<1>1. CASE Controlling
  BY <1>1, ControllingKeeps
<1>2. CASE StartTurn \/ EndTurn \/ TurnFails \/ NewEvents(TRUE) \/ Interrupt
  BY <1>2, OthersKeep DEF StartTurn, EndTurn, TurnFails, TurnOver, NewEvents, Interrupt
<1>3. ASSUME NEW t \in Training,
             Begin(t) \/ LaunchTool(t) \/ RegisterRaises(t) \/ InterruptCancels(t) \/ CancelTool(t)
      PROVE  IInv'
  BY <1>3, ToolsKeep
<1>4. ASSUME NEW t \in Training,
             \/ CancelEnds(t) \/ MonitorToolMarks(t) \/ (\E p \in Policy : MonitorTool(t, p))
             \/ PollFails(t) \/ LogSample(t)
      PROVE  IInv'
  BY <1>4, OthersKeep DEF CancelEnds, CancelToolCompletes, CancelToolUnlinks, MonitorToolMarks,
                          MonitorTool, PollFails, LogSample
<1>5. CASE Background
  BY <1>5, BackgroundKeeps
<1>6. CASE Shutdown
  <2>1. Close /\ crashes' \in Nat
    BY <1>6 DEF Shutdown, IInv, TrainingTypeOK
  <2> QED  BY <2>1, WorkerKeeps
<1>7. CASE Ends \/ Dies
  BY <1>7, WorkerKeeps DEF Ends, Dies
<1>8. CASE UNCHANGED vars
  BY <1>8, OthersKeep DEF vars
<1> QED  BY <1>1, <1>2, <1>3, <1>4, <1>5, <1>6, <1>7, <1>8 DEF Next

-----------------------------------------------------------------------------

\* The result file of a training that says it is over says so of all of its
\* processes, but for the descendants of one that a restart found gone
\* (training.py:205-318, 101-122; processes.py:23-55).
THEOREM TerminalIsQuiet == Spec => []QuietWhenTerminal
<1>1. IInv => QuietWhenTerminal
  BY DEF IInv, QuietFor, QuietWhenTerminal
<1> QED  BY InitIInv, NextKeeps, <1>1, PTL DEF Spec

\* A process that outlives its worker and the recovery of the next one never got
\* a record (training.py:135-156, 101-122).
THEOREM StraysWereUnrecorded == Spec => []StrayWasUnrecorded
<1>1. IInv => StrayWasUnrecorded
  BY DEF IInv, QuietFor, StrayWasUnrecorded
<1> QED  BY InitIInv, NextKeeps, <1>1, PTL DEF Spec

\* Type correctness of the trainings and their worker.
THEOREM TrainingTypes == Spec => []TrainingTypeOK
<1>1. IInv => TrainingTypeOK
  BY DEF IInv
<1> QED  BY InitIInv, NextKeeps, <1>1, PTL DEF Spec

-----------------------------------------------------------------------------
(* A training that runs unwatched keeps the turn open. *)

\* A training that runs with a marker, is about to get one, or has a row has an
\* active monitor; between turns there is no call that could change that, what
\* the controller completes has ended, and the turn that runs is not processed.
WatchedFor(t) ==
    /\ record[t] = "running" /\ (t \in marker \/ t \in upgrading \/ call[t] = "marking") => on[t]
    /\ record[t] = "running" /\ policy[t] # None => on[t]
    /\ phase = "up" /\ record[t] = "running" /\ ~on[t] => open
    /\ ctl = "turn" => open
    /\ phase = "up" /\ ctl # "turn" => call[t] = "idle" /\ t \notin upgrading
    /\ polling[t] # "none" => record[t] \in Terminal
    /\ phase \in {"recovering", "down"} => t \notin upgrading /\ polling[t] = "none"
    /\ record[t] = "none" =>
        /\ call[t] \in {"idle", "begun", "started"}
        /\ policy[t] = None /\ t \notin marker /\ t \notin upgrading

WTypes ==
    /\ on \in [Training -> BOOLEAN] /\ policy \in [Training -> Policy \cup {None}]
    /\ polling \in [Training -> {"none", "recorded", "completed"}]

WInv == IInv /\ WTypes /\ \A t \in Training : WatchedFor(t)

LEMMA InitWInv == Init => WInv
  BY InitIInv DEF Init, TrainingInit, WInv, WTypes, WatchedFor

LEMMA UpsertOn ==
    ASSUME WTypes, NEW t \in Training, NEW p, Upsert(t, p)
    PROVE  on' = [on EXCEPT ![t] = TRUE] /\ policy' = [policy EXCEPT ![t] = p]
  BY DEF Upsert, Unchanged, WTypes

\* What only the trainings and their worker do.
LEMMA WBackground ==
    ASSUME WInv, Background
    PROVE  WTypes' /\ \A u \in Training : WatchedFor(u)'
<1> USE DEF storeVars, toolVars, launchVars, controllerVars, turnVars, boxVars
<1>1. WTypes'
  BY DEF Background, WInv, WTypes
<1>2. ASSUME NEW t \in Training, Watching(t) \/ Processes(t) \/ RecoverRun(t), NEW u \in Training
      PROVE  WatchedFor(u)'
  <2>1. UNCHANGED <<on, policy, polling, marker, upgrading, ctl, open, call, phase>>
    BY <1>2 DEF Background, Watching, PublishRun, Decide, Stop, WriteOutcome, Retire, Processes,
                Spawn, LeaderExits, GroupExits, RecoverRun
  <2>2. record'[u] = record[u] \/ (record'[u] \in Terminal /\ record[u] # "none")
    <3>1. CASE WriteOutcome(t)
      BY <1>2, <3>1 DEF WInv, IInv, TrainingTypeOK, OrderedFor, WriteOutcome, Terminal, Ended
    <3>2. CASE RecoverRun(t)
      BY <1>2, <3>2 DEF WInv, IInv, TrainingTypeOK, RecoverRun, Terminal, Recovered
    <3>3. CASE ~WriteOutcome(t) /\ ~RecoverRun(t)
      BY <1>2, <3>3 DEF Watching, PublishRun, Decide, Stop, Retire, Processes, Spawn,
                        LeaderExits, GroupExits
    <3> QED  BY <3>1, <3>2, <3>3
  <2> QED  BY <2>1, <2>2 DEF WInv, WatchedFor, Terminal, Ended, Recovered
<1>3. ASSUME Remember \/ Restart, NEW u \in Training
      PROVE  WatchedFor(u)'
  BY <1>3 DEF Background, WInv, WatchedFor, Remember, Restart
<1>4. ASSUME RecoveryDone, NEW u \in Training
      PROVE  WatchedFor(u)'
  BY <1>4 DEF Background, WInv, IInv, OrderedFor, WatchedFor, RecoveryDone
<1> QED  BY <1>1, <1>2, <1>3, <1>4 DEF Background

\* The launch, and what a tool does to a run.
LEMMA WTools ==
    ASSUME WInv, NEW t \in Training,
           \/ Begin(t) \/ LaunchTool(t) \/ RegisterRaises(t) \/ InterruptCancels(t)
           \/ CancelTool(t) \/ CancelEnds(t) \/ MonitorToolMarks(t)
           \/ \E p \in Policy : MonitorTool(t, p)
    PROVE  WTypes' /\ \A u \in Training : WatchedFor(u)'
<1> USE DEF storeVars, storeRest, toolVars, launchVars, controllerVars, turnVars, boxVars,
            trainingRest, trainingVars
<1>1. CASE Begin(t) \/ InterruptCancels(t) \/ CancelTool(t)
  <2>1. WTypes'
    BY <1>1 DEF WInv, WTypes, Begin, InterruptCancels, CancelTool
  <2>2. ASSUME NEW u \in Training PROVE WatchedFor(u)'
    BY <1>1, <2>2 DEF WInv, IInv, TrainingTypeOK, WatchedFor, Begin, InterruptCancels,
                      CancelTool, Turning
  <2> QED  BY <2>1, <2>2
<1>2. CASE Launch(t)
  <2>1. WTypes'
    BY <1>2 DEF WInv, WTypes, Launch
  <2>2. ASSUME NEW u \in Training PROVE WatchedFor(u)'
    <3>1. CASE StartProcess(t)
      BY <1>2, <2>2, <3>1 DEF WInv, IInv, TrainingTypeOK, OrderedFor, WatchedFor, Launch,
                              StartProcess, Working
    <3>2. CASE RecordRunning(t)
      BY <1>2, <2>2, <3>2 DEF WInv, IInv, TrainingTypeOK, OrderedFor, WatchedFor, Launch,
                              RecordRunning, Working, Terminal, Ended, Recovered
    <3>3. CASE StartWatching(t)
      BY <1>2, <2>2, <3>3 DEF WInv, IInv, TrainingTypeOK, OrderedFor, WatchedFor, Launch,
                              StartWatching, Working
    <3> QED  BY <1>2, <3>1, <3>2, <3>3 DEF Launch, Launching
  <2> QED  BY <2>1, <2>2
<1>3. CASE Launched(t) \/ LaunchCancelled(t)
  <2>1. WTypes'
    BY <1>3 DEF WInv, WTypes, Launched, LaunchCancelled
  <2>2. ASSUME NEW u \in Training PROVE WatchedFor(u)'
    BY <1>3, <2>2 DEF WInv, IInv, TrainingTypeOK, WatchedFor, Launched, LaunchCancelled, Working
  <2> QED  BY <2>1, <2>2
<1>4. CASE RegisterDefault(t)
  <2>1. on' = [on EXCEPT ![t] = TRUE] /\ policy' = [policy EXCEPT ![t] = Default]
    BY <1>4, UpsertOn DEF RegisterDefault, WInv
  <2>2. UNCHANGED <<polling, marker, upgrading, ctl, open, phase, record>>
    BY <1>4 DEF RegisterDefault
  <2>3. WTypes'
    BY <2>1, <2>2 DEF WInv, WTypes, Policy
  <2>4. ASSUME NEW u \in Training PROVE WatchedFor(u)'
    BY <1>4, <2>1, <2>2, <2>4 DEF WInv, WTypes, IInv, TrainingTypeOK, WatchedFor,
                                  RegisterDefault, Working
  <2> QED  BY <2>3, <2>4
<1>5. CASE MarkDefault(t) \/ RegisterRaises(t)
  <2>1. WTypes'
    BY <1>5 DEF WInv, WTypes, MarkDefault, RegisterRaises, Returns
  <2>2. ASSUME NEW u \in Training PROVE WatchedFor(u)'
    BY <1>5, <2>2 DEF WInv, IInv, TrainingTypeOK, WatchedFor, MarkDefault, RegisterRaises,
                      Returns, WriteMarker, Working
  <2> QED  BY <2>1, <2>2
<1>6. CASE CancelEnds(t)
  <2>1. WTypes'
    BY <1>6 DEF WInv, WTypes, CancelEnds, CancelToolCompletes, CancelToolUnlinks
  <2>2. ASSUME NEW u \in Training PROVE WatchedFor(u)'
    BY <1>6, <2>2 DEF WInv, WTypes, WatchedFor, CancelEnds, CancelToolCompletes,
                      CancelToolUnlinks
  <2> QED  BY <2>1, <2>2
<1>7. CASE MonitorToolMarks(t)
  <2>1. WTypes'
    BY <1>7 DEF WInv, WTypes, MonitorToolMarks
  <2>2. ASSUME NEW u \in Training PROVE WatchedFor(u)'
    BY <1>7, <2>2 DEF WInv, WatchedFor, MonitorToolMarks, WriteMarker
  <2> QED  BY <2>1, <2>2
<1>8. ASSUME NEW p \in Policy, MonitorTool(t, p)
      PROVE  WTypes' /\ \A u \in Training : WatchedFor(u)'
  <2>1. on' = [on EXCEPT ![t] = TRUE] /\ policy' = [policy EXCEPT ![t] = p]
    BY <1>8, UpsertOn DEF MonitorTool, WInv
  <2>2. /\ UNCHANGED <<polling, marker, ctl, open, phase, record, call>>
        /\ upgrading' = upgrading \cup {t}
    BY <1>8 DEF MonitorTool
  <2>3. WTypes'
    BY <1>8, <2>1, <2>2 DEF WInv, WTypes
  <2>4. ASSUME NEW u \in Training PROVE WatchedFor(u)'
    BY <1>8, <2>1, <2>2, <2>4 DEF WInv, WTypes, WatchedFor, MonitorTool, Turning
  <2> QED  BY <2>3, <2>4
<1> QED  BY <1>1, <1>2, <1>3, <1>4, <1>5, <1>6, <1>7, <1>8 DEF LaunchTool

\* The controller, the turn and the worker's life.
LEMMA WController ==
    ASSUME WInv,
           \/ Controlling \/ StartTurn \/ EndTurn \/ TurnFails \/ NewEvents(TRUE) \/ Interrupt
           \/ Shutdown \/ Ends \/ Dies \/ UNCHANGED vars
           \/ \E t \in Training : PollFails(t) \/ LogSample(t)
    PROVE  WTypes' /\ \A u \in Training : WatchedFor(u)'
<1> USE DEF storeVars, storeRest, toolVars, launchVars, controllerVars, turnVars, boxVars,
            trainingVars
<1>1. CASE UNCHANGED <<on, policy, polling, marker, upgrading, record, call, phase>>
           /\ \/ UNCHANGED <<ctl, open>>
              \/ ctl' = "turn" /\ open'
              \/ ctl # "turn" /\ ctl' # "turn" /\ UNCHANGED open
  <2>1. ASSUME NEW u \in Training PROVE WatchedFor(u)'
    BY <1>1, <2>1 DEF WInv, WatchedFor
  <2> QED  BY <1>1, <2>1 DEF WInv, WTypes
<1>2. ASSUME NEW t \in Training, PollEnded(t) \/ CompleteRow(t) \/ CompleteMarker(t)
      PROVE  WTypes' /\ \A u \in Training : WatchedFor(u)'
  <2>1. WTypes'
    BY <1>2 DEF WInv, WTypes, PollEnded, CompleteRow, CompleteMarker
  <2>2. ASSUME NEW u \in Training PROVE WatchedFor(u)'
    BY <1>2, <2>2 DEF WInv, WTypes, WatchedFor, PollEnded, CompleteRow, CompleteMarker,
                      Polling, Terminal, Ended, Recovered
  <2> QED  BY <2>1, <2>2
<1>3. CASE Shutdown \/ \E s \in signals : Refused(s)
  <2>1. /\ phase' = "closing" /\ ctl' = "ended"
        /\ UNCHANGED <<on, policy, polling, marker, upgrading, record, call>>
    BY <1>3 DEF Shutdown, Refused, Close
  <2>2. ASSUME NEW u \in Training PROVE WatchedFor(u)'
    BY <2>1, <2>2 DEF WInv, WatchedFor
  <2> QED  BY <2>1, <2>2 DEF WInv, WTypes
<1>4. CASE Ends \/ Dies
  <2>1. /\ phase' = "down" /\ ctl' = "ack" /\ upgrading' = {}
        /\ UNCHANGED <<on, policy, marker, record>>
        /\ call' = [v \in Training |-> "idle"] /\ polling' = [v \in Training |-> "none"]
    BY <1>4 DEF Ends, Dies, Exit, Crash, Lost, Forgotten
  <2>2. ASSUME NEW u \in Training PROVE WatchedFor(u)'
    BY <2>1, <2>2 DEF WInv, WatchedFor
  <2> QED  BY <2>1, <2>2 DEF WInv, WTypes
<1>5. CASE StartTurn \/ NewEvents(TRUE) \/ Interrupt \/ UNCHANGED vars
  BY <1>1, <1>5 DEF StartTurn, NewEvents, Interrupt, Turning, vars
<1>8. CASE EndTurn \/ TurnFails
  <2>1. /\ UNCHANGED <<on, policy, polling, marker, upgrading, record, call, phase>>
        /\ ctl' = "ack" /\ NoTool
        /\ UNCHANGED open \/ StopPolicy
    BY <1>8 DEF EndTurn, TurnFails, TurnOver
  <2>2. ASSUME NEW u \in Training PROVE WatchedFor(u)'
    BY <2>1, <2>2 DEF WInv, WatchedFor, StopPolicy, NoTool
  <2> QED  BY <2>1, <2>2 DEF WInv, WTypes
<1>6. CASE \E t \in Training : PollFails(t) \/ LogSample(t) \/ PollRunning(t)
  BY <1>1, <1>6 DEF PollFails, LogSample, PollRunning
<1>7. CASE \/ AcknowledgeSignals \/ AcknowledgeTurn \/ NewEvents(FALSE) \/ EnqueueDone
           \/ Cycle \/ \E s \in signals : Enqueue(s)
  BY <1>1, <1>7 DEF AcknowledgeSignals, AcknowledgeTurn, NewEvents, EnqueueDone, Cycle, Enqueue
<1> QED  BY <1>2, <1>3, <1>4, <1>5, <1>6, <1>7, <1>8 DEF Controlling

LEMMA NextWInv == WInv /\ [Next]_vars => WInv'
<1> SUFFICES ASSUME WInv, [Next]_vars
             PROVE  WInv'
  OBVIOUS
<1>1. IInv'
  BY NextKeeps DEF WInv
<1>2. WTypes' /\ \A u \in Training : WatchedFor(u)'
  BY WBackground, WTools, WController DEF Next
<1> QED  BY <1>1, <1>2 DEF WInv

\* A turn passes for processed only when every running training has an active
\* monitor, and stays open over one without a row, whatever the order of the
\* turn's tool calls, its interrupts, failing registrations, the way it ends and
\* crashes (hooks.py:589-615, tools.py:324-371, controller.py:509-602,
\* monitor.py:318-402).
THEOREM UnwatchedHoldsTurn == Spec => []UnwatchedKeepsTurnOpen
<1>1. WInv => UnwatchedKeepsTurnOpen
  BY DEF WInv, WatchedFor, UnwatchedKeepsTurnOpen
<1> QED  BY InitWInv, NextWInv, <1>1, PTL DEF Spec

-----------------------------------------------------------------------------
(* A launch that was interrupted leaves no training behind.                 *)

\* Before its run is in flight, a call that was interrupted compares the generations: it
\* must be late.  After that, its run is flagged, or the interrupt has it still to cancel.
\* A flag reaches every running training that has a watcher.
Before == {"begun", "started", "recorded", "watched"}
HitFor(t) ==
    /\ record[t] = "running" /\ phase \in {"up", "closing"} /\ call[t] # "recorded" => t \in active
    /\ watch[t] = "retiring" => record[t] \in Terminal
    /\ call[t] \in {"cancelling", "registering", "marking"} => t \in inFlight
    /\ phase \in {"down", "recovering"} => t \notin hit
    /\ t \in hit =>
        /\ call[t] = "idle" => record[t] # "none"
        /\ call[t] \in Before => t \in late
        /\ call[t] \notin Before /\ t \notin interrupting /\ record[t] = "running" =>
            t \in cancelled

HInv == WInv /\ hit \subseteq Training /\ \A t \in Training : HitFor(t)

LEMMA InitHInv == Init => HInv
  BY InitWInv DEF Init, TrainingInit, HInv, HitFor, Before

\* What neither moves a launch or a watcher nor flags a training.
LEMMA HOthers ==
    ASSUME HInv, NEW u \in Training,
           UNCHANGED <<phase, call, record, active, cancelled, late, inFlight, interrupting, hit>>,
           watch'[u] = "retiring" => watch[u] = "retiring"
    PROVE  HitFor(u)'
  BY DEF HInv, HitFor, Before

\* The watcher writes a terminal record before it leaves _active.
LEMMA HBackground ==
    ASSUME HInv, Background, NEW u \in Training
    PROVE  HitFor(u)'
<1> USE DEF storeVars, toolVars, launchVars, controllerVars
<1>1. UNCHANGED <<late, inFlight, interrupting, hit>>
  BY DEF Background
<1>2. ASSUME NEW t \in Training, PublishRun(t) \/ Decide(t) \/ Stop(t) \/ Processes(t)
      PROVE  HitFor(u)'
  BY <1>1, <1>2, HOthers
  DEF PublishRun, Decide, Stop, Processes, Spawn, LeaderExits, GroupExits, HInv, WInv, IInv,
      TrainingTypeOK
<1>3. CASE Remember
  BY <1>1, <1>3, HOthers DEF Remember
<1>4. ASSUME NEW t \in Training, WriteOutcome(t)
      PROVE  HitFor(u)'
  <2>1. outcome[t] \in Ended
    BY <1>4 DEF WriteOutcome, HInv, WInv, IInv, OrderedFor
  <2>2. UNCHANGED <<phase, call, active, cancelled>>
    BY <1>4 DEF WriteOutcome
  <2>3. CASE u = t
    <3>1. record'[u] \in Terminal
      BY <1>4, <2>1, <2>3 DEF WriteOutcome, HInv, WInv, IInv, TrainingTypeOK, Terminal
    <3> QED  BY <1>1, <2>2, <3>1 DEF HInv, HitFor, Before, Terminal, Ended, Recovered
  <2>4. CASE u # t
    <3>1. record'[u] = record[u] /\ watch'[u] = watch[u]
      BY <1>4, <2>4 DEF WriteOutcome, HInv, WInv, IInv, TrainingTypeOK
    <3> QED  BY <1>1, <2>2, <3>1 DEF HInv, HitFor, Before
  <2> QED  BY <2>3, <2>4
<1>5. ASSUME NEW t \in Training, Retire(t)
      PROVE  HitFor(u)'
  <2>1. record[t] \in Terminal
    BY <1>5 DEF Retire, HInv, HitFor
  <2> QED
    BY <1>1, <1>5, <2>1 DEF Retire, HInv, WInv, IInv, TrainingTypeOK, HitFor, Before, Terminal, Ended,
       Recovered
<1>6. ASSUME NEW t \in Training, RecoverRun(t)
      PROVE  HitFor(u)'
  <2>1. /\ phase = "recovering" /\ phase' = phase /\ call' = call /\ watch' = watch /\ u \notin hit
    BY <1>6 DEF RecoverRun, HInv, HitFor
  <2>2. watch[u] = "none" /\ call[u] = "idle"
    BY <2>1 DEF HInv, WInv, IInv, OrderedFor
  <2> QED  BY <1>1, <2>1, <2>2 DEF HitFor, Before
<1>7. CASE Restart \/ RecoveryDone
  BY <1>1, <1>7 DEF Restart, RecoveryDone, HInv, WInv, IInv, OrderedFor, HitFor, Before
<1> QED  BY <1>2, <1>3, <1>4, <1>5, <1>6, <1>7 DEF Background, Watching

\* The launch: an interrupt that came before the run was in flight is found by the call.
LEMMA HTools ==
    ASSUME HInv, NEW t \in Training, NEW u \in Training,
           \/ Begin(t) \/ LaunchTool(t) \/ RegisterRaises(t) \/ InterruptCancels(t) \/ CancelTool(t)
    PROVE  HitFor(u)'
<1> USE DEF launchVars, toolVars, trainingRest
<1>0. /\ call \in [Training -> Step]
      /\ watch \in [Training -> {"none", "watching", "stopping", "writing", "retiring"}]
      /\ record \in [Training -> {"none", "running"} \cup Terminal]
  BY DEF HInv, WInv, IInv, TrainingTypeOK
<1>1. CASE Begin(t)
  <2>1. t \notin hit
    BY <1>1 DEF Begin, HInv, HitFor
  <2> QED  BY <1>0, <1>1, <2>1 DEF Begin, Turning, HInv, HitFor, Before
<1>2. CASE StartProcess(t) /\ Launch(t)
  BY <1>0, <1>2 DEF StartProcess, Launch, Working, HInv, HitFor, Before
<1>3. CASE RecordRunning(t) /\ Launch(t)
  BY <1>0, <1>3 DEF RecordRunning, Launch, Working, HInv, WInv, IInv, OrderedFor, HitFor, Before
<1>4. CASE StartWatching(t) /\ Launch(t)
  BY <1>0, <1>4 DEF StartWatching, Launch, Working, HInv, WInv, IInv, OrderedFor, HitFor, Before
<1>5. CASE Launched(t)
  <2>1. UNCHANGED <<phase, record, watch, active, hit, late, interrupting>>
    BY <1>5 DEF Launched
  <2>2. CASE u = t
    <3>1. u \in inFlight' /\ (u \in late => u \in cancelled' \/ record[u] # "running")
      BY <1>5, <2>2 DEF Launched, Working, Flagged, HInv, HitFor
    <3>2. record[u] # "none" /\ call'[u] \in {"cancelling", "registering"} /\ call[u] = "watched"
      BY <1>0, <1>5, <2>2 DEF Launched, HInv, WInv, WatchedFor
    <3> QED  BY <2>1, <3>1, <3>2 DEF HInv, HitFor, Before
  <2>3. CASE u # t
    BY <1>0, <1>5, <2>1, <2>3 DEF Launched, Flagged, HInv, HitFor, Before
  <2> QED  BY <2>2, <2>3
<1>6. CASE LaunchCancelled(t) \/ RegisterDefault(t) \/ MarkDefault(t) \/ RegisterRaises(t)
  <2>1. UNCHANGED <<phase, record, watch, active, cancelled, hit, late, interrupting>>
    BY <1>6 DEF LaunchCancelled, RegisterDefault, MarkDefault, RegisterRaises, Returns
  <2>2. /\ call[t] \in {"cancelling", "registering", "marking"}
        /\ call'[t] \in {"idle", "registering", "marking"} /\ (t \in inFlight' \/ call'[t] = "idle")
    BY <1>0, <1>6 DEF LaunchCancelled, RegisterDefault, MarkDefault, RegisterRaises, Returns, HInv,
       HitFor
  <2>3. u # t => call'[u] = call[u] /\ (u \in inFlight <=> u \in inFlight')
    BY <1>0, <1>6 DEF LaunchCancelled, RegisterDefault, MarkDefault, RegisterRaises, Returns
  <2>4. record[t] # "none"
    BY <2>2 DEF HInv, WInv, WatchedFor
  <2> QED  BY <2>1, <2>2, <2>3, <2>4 DEF HInv, HitFor, Before
<1>7. CASE InterruptCancels(t) \/ CancelTool(t)
  <2>1. /\ UNCHANGED <<phase, call, record, watch, active, hit, late, inFlight>>
        /\ phase \in {"up", "closing"} /\ cancelled' = Flagged(t)
        /\ interrupting' \cup {t} = interrupting \cup {t}
        /\ CancelTool(t) => interrupting' = interrupting
    BY <1>7 DEF InterruptCancels, CancelTool, Working, Turning
  <2> QED  BY <1>7, <2>1 DEF InterruptCancels, Flagged, HInv, HitFor, Before
<1> QED  BY <1>1, <1>2, <1>3, <1>4, <1>5, <1>6, <1>7 DEF LaunchTool, Launch, Launching

\* An interrupt hits the launches of this turn; a worker that ends forgets them.
LEMMA HWorker ==
    ASSUME HInv, NEW u \in Training,
           Interrupt \/ Shutdown \/ Ends \/ Dies \/ \E s \in signals : Refused(s)
    PROVE  HitFor(u)'
<1> USE DEF launchVars, toolVars, trainingVars
<1>1. CASE Interrupt
  <2>1. UNCHANGED <<phase, call, record, watch, active, cancelled, inFlight>> /\ phase = "up"
    BY <1>1 DEF Interrupt, Turning
  <2>2. /\ u \in hit' <=> u \in hit \/ call[u] # "idle"
        /\ u \in late' <=> u \in late \/ (call[u] # "idle" /\ call[u] # "cancelling")
        /\ u \in interrupting' <=> u \in interrupting \/ u \in inFlight
    BY <1>1 DEF Interrupt
  <2>3. call[u] \in Step
    BY DEF HInv, WInv, IInv, TrainingTypeOK
  <2> QED  BY <2>1, <2>2, <2>3 DEF HInv, HitFor, Before, Step
<1>2. CASE Shutdown \/ \E s \in signals : Refused(s)
  <2>1. /\ UNCHANGED <<call, record, watch, active, late, inFlight, interrupting, hit>>
        /\ phase = "up" /\ phase' = "closing" /\ cancelled' = cancelled \cup active
    BY <1>2 DEF Shutdown, Refused, Close
  <2> QED  BY <2>1 DEF HInv, HitFor, Before
<1>3. CASE Ends \/ Dies
  <2>1. /\ phase' = "down" /\ hit' = {} /\ call'[u] = "idle" /\ watch'[u] = "none"
    BY <1>3 DEF Ends, Dies, Exit, Crash, Forgotten, Lost
  <2> QED  BY <2>1 DEF HitFor, Before
<1> QED  BY <1>1, <1>2, <1>3

LEMMA NextHInv == HInv /\ [Next]_vars => HInv'
<1> SUFFICES ASSUME HInv, [Next]_vars PROVE HInv'
  OBVIOUS
<1>1. WInv'
  BY NextWInv DEF HInv
<1>2. ASSUME NEW u \in Training PROVE HitFor(u)'
  <2> USE DEF launchVars, toolVars, trainingVars, controllerVars, turnVars, boxVars
  <2>1. CASE \/ AcknowledgeSignals \/ AcknowledgeTurn \/ NewEvents(FALSE) \/ NewEvents(TRUE)
             \/ EnqueueDone \/ Cycle \/ (\E s \in signals : Enqueue(s))
             \/ StartTurn \/ EndTurn \/ TurnFails
             \/ UNCHANGED vars
    BY <2>1, HOthers
    DEF AcknowledgeSignals, AcknowledgeTurn, NewEvents, EnqueueDone, Cycle, Enqueue, StartTurn,
        EndTurn, TurnFails, TurnOver, vars
  <2>2. CASE \E t \in Training :
               \/ PollRunning(t) \/ PollEnded(t) \/ CompleteRow(t) \/ CompleteMarker(t)
               \/ PollFails(t) \/ LogSample(t) \/ CancelEnds(t) \/ MonitorToolMarks(t)
               \/ \E p \in Policy : MonitorTool(t, p)
    BY <2>2, HOthers
    DEF PollRunning, PollEnded, CompleteRow, CompleteMarker, PollFails, LogSample, CancelEnds,
        CancelToolCompletes, CancelToolUnlinks, MonitorToolMarks, MonitorTool
  <2> QED  BY <2>1, <2>2, HBackground, HTools, HWorker DEF Next, Controlling
<1>3. hit' \subseteq Training
  <2> USE DEF launchVars, toolVars, trainingVars, controllerVars, turnVars, boxVars
  <2>1. CASE Interrupt
    BY <2>1 DEF Interrupt, HInv
  <2>2. CASE Ends \/ Dies
    BY <2>2 DEF Ends, Dies, Lost
  <2>3. CASE \/ Controlling \/ StartTurn \/ EndTurn \/ TurnFails \/ NewEvents(TRUE)
            \/ Background \/ Shutdown
             \/ UNCHANGED vars
    <3>1. hit' = hit
      BY <2>3
      DEF Controlling, AcknowledgeSignals, AcknowledgeTurn, NewEvents, EnqueueDone, Cycle,
          PollRunning, PollEnded, CompleteRow, CompleteMarker, Enqueue, Refused, StartTurn,
          EndTurn, TurnFails, TurnOver, Background, Shutdown, vars
    <3> QED  BY <3>1 DEF HInv
  <2>4. ASSUME NEW t \in Training,
               \/ Begin(t) \/ LaunchTool(t) \/ RegisterRaises(t) \/ InterruptCancels(t)
               \/ CancelTool(t) \/ CancelEnds(t) \/ MonitorToolMarks(t) \/ PollFails(t)
               \/ LogSample(t) \/ \E p \in Policy : MonitorTool(t, p)
        PROVE  hit' \subseteq Training
    <3>1. hit' = hit
      BY <2>4
      DEF Begin, LaunchTool, Launch, Launched, LaunchCancelled, RegisterDefault, MarkDefault,
          RegisterRaises, Returns, InterruptCancels, CancelTool, CancelEnds, CancelToolCompletes,
          CancelToolUnlinks, MonitorTool, MonitorToolMarks, PollFails, LogSample
    <3> QED  BY <3>1 DEF HInv
  <2> QED  BY <2>1, <2>2, <2>3, <2>4 DEF Next
<1> QED  BY <1>1, <1>2, <1>3 DEF HInv

\* A launch the runner interrupted does not leave its training behind: whatever the order of
\* the interrupt and of the steps of the launch, the run is being cancelled, is over, or was
\* left to the recovery of the next worker (tools.py:331-367).
THEOREM InterruptsCancel == Spec => []InterruptedIsCancelled
<1>1. HInv => InterruptedIsCancelled
  BY DEF HInv, HitFor, Before, InterruptedIsCancelled
<1> QED  BY InitHInv, NextHInv, <1>1, PTL DEF Spec

-----------------------------------------------------------------------------
(* A completed monitor has told how its training ended.                     *)

Tells(t) == \E s \in signals : s.key = Key(t, Told(t), 0, 0)

\* The signal is committed before the row is completed; no tool call runs while the
\* controller polls, so no policy change comes between the two.
ToldFor(t) ==
    /\ polling[t] # "none" => call[t] = "idle" /\ (phase = "up" => ctl = "poll")
    /\ polling[t] = "recorded" => Tells(t)
    /\ policy[t] # None /\ ~on[t] => (record[t] \in Terminal /\ Tells(t)) \/ t \in answered
    /\ watch[t] \in {"watching", "stopping", "writing"} => record[t] = "running"
    /\ call[t] = "recorded" => record[t] = "running" /\ watch[t] = "none"

\* Rows of monitor_signals.
SignalsAre == \A s \in signals : s = [key |-> s.key, body |-> s.body, handled |-> s.handled]

DInv == WInv /\ SignalsAre /\ \A t \in Training : ToldFor(t)

LEMMA InitDInv == Init => DInv
  BY InitWInv DEF Init, TrainingInit, DInv, SignalsAre, ToldFor

\* A key that is kept still tells.
LEMMA TellsOn ==
    ASSUME NEW t, Tells(t), Told(t)' = Told(t),
           \A s \in signals : s.key[1] = t => \E r \in signals' : r.key = s.key
    PROVE  Tells(t)'
<1>1. PICK s \in signals : s.key = Key(t, Told(t), 0, 0)
  BY DEF Tells
<1>2. s.key[1] = t
  BY <1>1 DEF Key
<1>3. PICK r \in signals' : r.key = s.key
  BY <1>2
<1> QED  BY <1>1, <1>3 DEF Tells, Key

\* What leaves the monitors and the records alone.
LEMMA DOthers ==
    ASSUME DInv, NEW u \in Training,
           UNCHANGED <<policy, on, polling, answered>>, record'[u] = record[u],
           watch'[u] \in {"none", "retiring", watch[u]} \/ record[u] = "running",
           polling[u] # "none" => call'[u] = "idle" /\ (phase' = "up" => ctl' = "poll"),
           call'[u] = "recorded" => call[u] = "recorded" /\ watch'[u] = watch[u],
           \A s \in signals : s.key[1] = u => \E r \in signals' : r.key = s.key
    PROVE  ToldFor(u)'
<1>1. Told(u)' = Told(u)
  BY DEF Told
<1>2. Tells(u) => Tells(u)'
  BY <1>1, TellsOn
<1> QED  BY <1>2 DEF DInv, ToldFor

LEMMA UpsertKeeps ==
    ASSUME DInv, NEW t \in Training, NEW p, Upsert(t, p)
    PROVE  /\ SignalsAre' /\ on'[t] = TRUE
           /\ \A u \in Training \ {t} :
                /\ on'[u] = on[u] /\ policy'[u] = policy[u]
                /\ \A s \in signals : s.key[1] = u => s \in signals'
  BY DEF Upsert, Unchanged, DInv, WInv, WTypes, SignalsAre

LEMMA RecordedKeeps ==
    ASSUME SignalsAre, NEW new, signals' = Recorded(new)
    PROVE  /\ SignalsAre' /\ signals \subseteq signals'
           /\ \A x \in new : \E r \in signals' : r.key = x[1]
<1> DEFINE fresher == {x \in new : \A r \in signals : r.key # x[1]}
           Row(x) == [key |-> x[1], body |-> x[2], handled |-> FALSE]
<1>1. signals' = signals \cup {Row(x) : x \in fresher}
  BY DEF Recorded
<1>2. SignalsAre'
  BY <1>1 DEF SignalsAre
<1>3. ASSUME NEW x \in new PROVE \E r \in signals' : r.key = x[1]
  <2>1. CASE x \in fresher
    <3>1. Row(x) \in signals' /\ Row(x).key = x[1]
      BY <1>1, <2>1
    <3> QED  BY <3>1
  <2>2. CASE x \notin fresher
    BY <1>1, <2>2
  <2> QED  BY <2>1, <2>2
<1> QED  BY <1>1, <1>2, <1>3

\* A record that is over stays as it is: a watcher writes once.
LEMMA DBackground ==
    ASSUME DInv, Background
    PROVE  SignalsAre' /\ \A u \in Training : ToldFor(u)'
<1> USE DEF storeVars, toolVars, launchVars, controllerVars, turnVars, boxVars
<1>1. /\ UNCHANGED <<policy, on, polling, answered, signals, ctl>> /\ SignalsAre'
      /\ \A u, s : s \in signals /\ s.key[1] = u => \E r \in signals' : r.key = s.key
  BY DEF Background, DInv, SignalsAre
<1>2. ASSUME NEW t \in Training, WriteOutcome(t) \/ RecoverRun(t), NEW u \in Training
      PROVE  ToldFor(u)'
  <2>1. UNCHANGED <<call, phase>> /\ watch'[u] \in {watch[u], "retiring"}
    BY <1>2 DEF WriteOutcome, RecoverRun, DInv, WInv, IInv, TrainingTypeOK
  <2>2. CASE u = t
    <3>1. /\ record[u] = "running" /\ record'[u] \in Terminal
          /\ watch'[u] \in {"none", "retiring"}
      <4>1. CASE WriteOutcome(t)
        BY <2>2, <4>1
        DEF WriteOutcome, DInv, ToldFor, WInv, IInv, OrderedFor, TrainingTypeOK, Terminal
      <4>2. CASE RecoverRun(t)
        BY <2>2, <4>2
        DEF RecoverRun, DInv, WInv, IInv, OrderedFor, TrainingTypeOK, Terminal, Recovered
      <4> QED  BY <1>2, <4>1, <4>2
    <3>2. polling[u] = "none" /\ (policy[u] # None /\ ~on[u] => u \in answered)
      BY <3>1 DEF DInv, WInv, WTypes, WatchedFor, ToldFor, Terminal, Ended, Recovered
    <3>3. call[u] # "recorded"
      BY <1>2, <2>2 DEF WriteOutcome, RecoverRun, DInv, WInv, IInv, OrderedFor, ToldFor
    <3> QED  BY <1>1, <2>1, <3>1, <3>2, <3>3 DEF ToldFor
  <2>3. CASE u # t
    <3>1. record'[u] = record[u] /\ watch'[u] = watch[u]
      BY <1>2, <2>3 DEF WriteOutcome, RecoverRun, DInv, WInv, IInv, TrainingTypeOK
    <3>2. polling[u] # "none" => call'[u] = "idle" /\ (phase' = "up" => ctl' = "poll")
      BY <1>1, <2>1 DEF DInv, ToldFor
    <3> QED  BY <1>1, <2>1, <3>1, <3>2, DOthers
  <2> QED  BY <2>2, <2>3
<1>3. ASSUME ~\E t \in Training : WriteOutcome(t) \/ RecoverRun(t), NEW u \in Training
      PROVE  ToldFor(u)'
  <2>1. UNCHANGED <<call, record>>
    BY <1>3
    DEF Background, Watching, PublishRun, Decide, Stop, Retire, Processes, Spawn, LeaderExits,
        GroupExits, Remember, Restart, RecoveryDone
  <2>2. watch'[u] \in {"none", "retiring", watch[u]} \/ record[u] = "running"
    BY <1>3
    DEF Background, Watching, PublishRun, Decide, Stop, Retire, Processes, Spawn, LeaderExits,
        GroupExits, Remember, Restart, RecoveryDone, DInv, WInv, IInv, TrainingTypeOK, ToldFor
  <2>3. polling[u] # "none" => phase' = phase
    BY <1>3
    DEF Background, Watching, PublishRun, Decide, Stop, Retire, Processes, Spawn, LeaderExits,
        GroupExits, Remember, Restart, RecoveryDone, DInv, WInv, WatchedFor
  <2>4. polling[u] # "none" => call'[u] = "idle" /\ (phase' = "up" => ctl' = "poll")
    BY <1>1, <2>1, <2>3 DEF DInv, ToldFor
  <2>5. call[u] = "recorded" => watch'[u] = watch[u]
    BY <1>3
    DEF Background, Watching, PublishRun, Decide, Stop, Retire, Processes, Spawn, LeaderExits,
        GroupExits, Remember, Restart, RecoveryDone, DInv, WInv, IInv, TrainingTypeOK, ToldFor
  <2> QED  BY <1>1, <2>1, <2>2, <2>4, <2>5, DOthers
<1> QED  BY <1>1, <1>2, <1>3

\* A policy can change only in a turn; a cancellation answers for itself.
LEMMA DTools ==
    ASSUME DInv, NEW t \in Training,
           \/ Begin(t) \/ LaunchTool(t) \/ RegisterRaises(t) \/ InterruptCancels(t)
           \/ CancelTool(t) \/ CancelEnds(t) \/ MonitorToolMarks(t)
           \/ \E p \in Policy : MonitorTool(t, p)
    PROVE  SignalsAre' /\ \A u \in Training : ToldFor(u)'
<1> USE DEF storeVars, storeRest, toolVars, launchVars, controllerVars, turnVars, boxVars,
            trainingRest, trainingVars
<1>0. /\ call \in [Training -> Step] /\ on \in [Training -> BOOLEAN]
      /\ \A u \in Training :
           polling[u] # "none" => call[u] = "idle" /\ (phase = "up" => ctl = "poll")
  BY DEF DInv, WInv, WTypes, IInv, TrainingTypeOK, ToldFor
<1>1. CASE \/ Begin(t) \/ Launched(t) \/ LaunchCancelled(t) \/ MarkDefault(t) \/ RegisterRaises(t)
           \/ InterruptCancels(t) \/ CancelTool(t) \/ CancelToolUnlinks(t) \/ MonitorToolMarks(t)
           \/ (Launch(t) /\ (StartProcess(t) \/ StartWatching(t)))
  <2>1. UNCHANGED <<policy, on, polling, answered, signals, record, phase, ctl>>
    BY <1>1
    DEF Begin, Launched, LaunchCancelled, MarkDefault, RegisterRaises, Returns, InterruptCancels,
        CancelTool, CancelToolUnlinks, MonitorToolMarks, Launch, StartProcess, StartWatching
  <2>2. ASSUME NEW u \in Training
        PROVE  /\ watch'[u] = watch[u] \/ record[u] = "running"
               /\ call'[u] = "recorded" => call[u] = "recorded" /\ watch'[u] = watch[u]
               /\ polling[u] # "none" => call'[u] = call[u]
    <3>1. watch'[u] = watch[u] \/ record[u] = "running"
      <4>1. CASE Launch(t) /\ StartWatching(t)
        <5>1. record[t] = "running" /\ \A v \in Training \ {t} : watch'[v] = watch[v]
          BY <4>1 DEF StartWatching, DInv, ToldFor, WInv, IInv, TrainingTypeOK
        <5> QED  BY <5>1
      <4>2. CASE ~(Launch(t) /\ StartWatching(t))
        BY <1>1, <4>2
        DEF Begin, Launched, LaunchCancelled, MarkDefault, RegisterRaises, Returns,
            InterruptCancels, CancelTool, CancelToolUnlinks, MonitorToolMarks, Launch, StartProcess
      <4> QED  BY <4>1, <4>2
    <3>2. polling[u] # "none" => call'[u] = call[u]
      BY <1>0, <1>1
      DEF Begin, Turning, Launched, LaunchCancelled, MarkDefault, RegisterRaises, Returns,
          InterruptCancels, CancelTool, CancelToolUnlinks, MonitorToolMarks, Launch, StartProcess,
          StartWatching
    <3>3. call'[u] = "recorded" => call[u] = "recorded" /\ watch'[u] = watch[u]
      BY <1>0, <1>1
      DEF Begin, Launched, LaunchCancelled, MarkDefault, RegisterRaises, Returns,
          InterruptCancels, CancelTool, CancelToolUnlinks, MonitorToolMarks, Launch, StartProcess,
          StartWatching, DInv, WInv, IInv, TrainingTypeOK
    <3> QED  BY <3>1, <3>2, <3>3
  <2>3. SignalsAre'
    BY <2>1 DEF DInv, SignalsAre
  <2>4. ASSUME NEW u \in Training PROVE ToldFor(u)'
    <3>1. polling[u] # "none" => call'[u] = "idle" /\ (phase' = "up" => ctl' = "poll")
      BY <1>0, <2>1, <2>2
    <3>2. \A s \in signals : s.key[1] = u => \E r \in signals' : r.key = s.key
      BY <2>1
    <3> QED  BY <2>1, <2>2, <3>1, <3>2, DOthers
  <2> QED  BY <2>3, <2>4
<1>2. CASE Launch(t) /\ RecordRunning(t)
  <2>1. /\ UNCHANGED <<policy, on, polling, answered, signals, phase, ctl, watch>>
        /\ call[t] = "started" /\ record[t] = "none" /\ policy[t] = None /\ watch[t] = "none"
        /\ record'[t] = "running"
        /\ \A u \in Training \ {t} : call'[u] = call[u] /\ record'[u] = record[u]
    BY <1>0, <1>2 DEF Launch, RecordRunning, DInv, WInv, IInv, OrderedFor, WatchedFor,
       TrainingTypeOK
  <2>2. SignalsAre'
    BY <2>1 DEF DInv, SignalsAre
  <2>3. ASSUME NEW u \in Training \ {t} PROVE ToldFor(u)'
    <3>1. polling[u] # "none" => call'[u] = "idle" /\ (phase' = "up" => ctl' = "poll")
      BY <1>0, <2>1
    <3>2. \A s \in signals : s.key[1] = u => \E r \in signals' : r.key = s.key
      BY <2>1
    <3> QED  BY <2>1, <3>1, <3>2, DOthers
  <2>4. ToldFor(t)'
    BY <1>0, <2>1 DEF ToldFor
  <2> QED  BY <2>2, <2>3, <2>4
<1>3. ASSUME NEW p, Upsert(t, p), RegisterDefault(t) \/ MonitorTool(t, p)
      PROVE  SignalsAre' /\ \A u \in Training : ToldFor(u)'
  <2>1. /\ UNCHANGED <<polling, answered, record, phase, ctl, watch>> /\ polling[t] = "none"
        /\ call'[t] \in {call[t], "marking"} /\ \A u \in Training \ {t} : call'[u] = call[u]
    BY <1>0, <1>3 DEF RegisterDefault, MonitorTool, Turning
  <2>2. ToldFor(t)'
    BY <1>3, <2>1, UpsertKeeps DEF DInv, ToldFor
  <2>3. ASSUME NEW u \in Training \ {t} PROVE ToldFor(u)'
    <3>1. polling[u] # "none" => call'[u] = "idle" /\ (phase' = "up" => ctl' = "poll")
      BY <1>0, <2>1
    <3>2. \A s \in signals : s.key[1] = u => \E r \in signals' : r.key = s.key
      BY <1>3, UpsertKeeps
    <3>3. Told(u)' = Told(u)
      BY <2>1 DEF Told
    <3>4. Tells(u) => Tells(u)'
      BY <3>2, <3>3, TellsOn
    <3>5. on'[u] = on[u] /\ policy'[u] = policy[u]
      BY <1>3, UpsertKeeps
    <3> QED  BY <2>1, <3>1, <3>4, <3>5 DEF DInv, ToldFor
  <2> QED  BY <1>3, <2>2, <2>3, UpsertKeeps
<1>4. CASE CancelToolCompletes(t)
  <2>1. /\ UNCHANGED <<policy, polling, signals, record, phase, ctl, watch, call>>
        /\ answered' = answered \cup {t} /\ \A u \in Training \ {t} : on'[u] = on[u]
    BY <1>0, <1>4 DEF CancelToolCompletes
  <2>2. SignalsAre' /\ \A u : Tells(u)' = Tells(u)
    BY <2>1 DEF DInv, SignalsAre, Tells, Told
  <2> QED  BY <2>1, <2>2 DEF DInv, ToldFor
<1> QED  BY <1>1, <1>2, <1>3, <1>4
     DEF LaunchTool, Launch, Launching, RegisterDefault, MonitorTool, CancelEnds

\* The poll of a training that ended commits its signal before anything is completed.
LEMMA DController ==
    ASSUME DInv,
           \/ Controlling \/ StartTurn \/ EndTurn \/ TurnFails \/ NewEvents(TRUE) \/ Interrupt
           \/ Shutdown \/ Ends \/ Dies \/ UNCHANGED vars
           \/ \E t \in Training : PollFails(t) \/ LogSample(t)
    PROVE  SignalsAre' /\ \A u \in Training : ToldFor(u)'
<1> USE DEF storeVars, storeRest, toolVars, launchVars, controllerVars, turnVars, boxVars,
            trainingVars
<1>0. \A u \in Training : polling[u] # "none" => call[u] = "idle" /\ (phase = "up" => ctl = "poll")
  BY DEF DInv, ToldFor
<1>1. ASSUME NEW t \in Training, PollEnded(t)
      PROVE  SignalsAre' /\ \A u \in Training : ToldFor(u)'
  <2>1. /\ UNCHANGED <<policy, on, answered, record, phase, ctl, watch, call>>
        /\ phase = "up" /\ ctl = "poll" /\ record[t] \in Terminal
        /\ polling'[t] = "recorded" /\ \A u \in Training \ {t} : polling'[u] = polling[u]
    BY <1>1 DEF PollEnded, Polling, DInv, WInv, WTypes
  <2>2. /\ SignalsAre' /\ signals \subseteq signals'
        /\ \E r \in signals' : r.key = Key(t, Told(t), 0, 0)
    <3> DEFINE row == <<Key(t, Told(t), 0, 0), Body("status", Told(t), 0)>>
    <3>1. signals' = Recorded({row}) /\ SignalsAre
      BY <1>1 DEF PollEnded, DInv
    <3>2. row[1] = Key(t, Told(t), 0, 0)
      OBVIOUS
    <3> HIDE DEF row
    <3>3. /\ SignalsAre' /\ signals \subseteq signals'
          /\ \A x \in {row} : \E r \in signals' : r.key = x[1]
      BY <3>1, RecordedKeeps
    <3> QED  BY <3>2, <3>3
  <2>3. call[t] = "idle"
    BY <2>1 DEF DInv, WInv, WatchedFor
  <2>4. \A u \in Training : Tells(u) => Tells(u)'
    BY <2>1, <2>2 DEF Tells, Told
  <2>5. Tells(t)'
    BY <2>1, <2>2 DEF Tells, Told
  <2> QED  BY <2>1, <2>2, <2>3, <2>4, <2>5 DEF DInv, ToldFor
<1>2. ASSUME NEW t \in Training, CompleteRow(t) \/ CompleteMarker(t)
      PROVE  SignalsAre' /\ \A u \in Training : ToldFor(u)'
  <2>1. /\ UNCHANGED <<policy, signals, answered, record, phase, ctl, watch, call>>
        /\ polling[t] # "none" /\ polling'[t] \in {"completed", "none"}
        /\ \A u \in Training \ {t} : polling'[u] = polling[u] /\ on'[u] = on[u]
        /\ on'[t] = on[t] \/ polling[t] = "recorded"
    BY <1>2 DEF CompleteRow, CompleteMarker, DInv, WInv, WTypes
  <2>2. record[t] \in Terminal
    BY <2>1 DEF DInv, WInv, WatchedFor
  <2>3. SignalsAre' /\ \A u : Tells(u)' = Tells(u)
    BY <2>1 DEF DInv, SignalsAre, Tells, Told
  <2> QED  BY <2>1, <2>2, <2>3 DEF DInv, ToldFor
<1>3. CASE Ends \/ Dies
  <2>1. /\ UNCHANGED <<policy, on, signals, answered, record>>
        /\ phase' = "down"
        /\ \A u \in Training : polling'[u] = "none" /\ watch'[u] = "none" /\ call'[u] = "idle"
    BY <1>3 DEF Ends, Dies, Exit, Crash, Forgotten, Lost
  <2>2. SignalsAre' /\ \A u : Tells(u)' = Tells(u)
    BY <2>1 DEF DInv, SignalsAre, Tells, Told
  <2> QED  BY <2>1, <2>2 DEF DInv, ToldFor
<1>4. CASE /\ UNCHANGED <<policy, on, polling, answered, record, watch, call>>
           /\ \A u \in Training : polling[u] # "none" => (phase' = "up" => ctl' = "poll")
           /\ SignalsAre' /\ \A s \in signals : \E r \in signals' : r.key = s.key
  BY <1>0, <1>4, DOthers
<1>5. CASE \/ AcknowledgeTurn \/ NewEvents(FALSE) \/ NewEvents(TRUE) \/ EnqueueDone \/ Cycle
           \/ (\E s \in signals : Enqueue(s) \/ Refused(s))
           \/ StartTurn \/ EndTurn \/ TurnFails \/ Interrupt
           \/ Shutdown \/ UNCHANGED vars \/ \E t \in Training : LogSample(t)
  <2>1. UNCHANGED <<policy, on, polling, answered, record, watch, call, signals>>
    BY <1>5
    DEF AcknowledgeTurn, NewEvents, EnqueueDone, Cycle, Enqueue, Refused, StartTurn,
        EndTurn, TurnFails, TurnOver,
        Interrupt, Shutdown, Close, LogSample, vars
  <2>2. \A u \in Training : polling[u] # "none" => (phase' = "up" => ctl' = "poll")
    BY <1>0, <1>5
    DEF AcknowledgeTurn, NewEvents, EnqueueDone, Cycle, Enqueue, Refused, StartTurn,
        EndTurn, TurnFails, TurnOver,
        Interrupt, Turning, Shutdown, Close, LogSample, vars
  <2>3. SignalsAre'
    BY <2>1 DEF DInv, SignalsAre
  <2> QED  BY <1>4, <2>1, <2>2, <2>3
<1>6. CASE AcknowledgeSignals
  <2>1. /\ UNCHANGED <<policy, on, polling, answered, record, watch, call, phase>> /\ ctl = "ack"
        /\ phase = "up"
        /\ signals' = {[s EXCEPT !.handled = @ \/ s.key \in Mailed("processed")] : s \in signals}
    BY <1>6 DEF AcknowledgeSignals
  <2> DEFINE Row(s) == [s EXCEPT !.handled = @ \/ s.key \in Mailed("processed")]
  <2>2. ASSUME NEW s \in signals
        PROVE  /\ Row(s) = [key |-> Row(s).key, body |-> Row(s).body, handled |-> Row(s).handled]
               /\ Row(s).key = s.key /\ Row(s) \in signals'
    <3>1. s = [key |-> s.key, body |-> s.body, handled |-> s.handled]
      BY DEF DInv, SignalsAre
    <3> QED  BY <2>1, <3>1
  <2>3. SignalsAre'
    BY <2>1, <2>2 DEF SignalsAre
  <2>4. \A s \in signals : \E r \in signals' : r.key = s.key
    BY <2>2
  <2> QED  BY <1>0, <1>4, <2>1, <2>3, <2>4
<1>7. ASSUME NEW t \in Training, PollRunning(t) \/ PollFails(t)
      PROVE  SignalsAre' /\ \A u \in Training : ToldFor(u)'
  <2>1. /\ UNCHANGED <<policy, on, polling, answered, record, watch, call, phase, ctl>>
        /\ \E new : signals' = Recorded(new)
    BY <1>7 DEF PollRunning, PollFails
  <2>2. SignalsAre' /\ \A s \in signals : \E r \in signals' : r.key = s.key
    <3>1. PICK new : signals' = Recorded(new)
      BY <2>1
    <3>2. SignalsAre' /\ signals \subseteq signals'
      BY <3>1, RecordedKeeps DEF DInv
    <3> QED  BY <3>2
  <2> QED  BY <1>0, <1>4, <2>1, <2>2
<1> QED  BY <1>1, <1>2, <1>3, <1>5, <1>6, <1>7 DEF Controlling

LEMMA NextDInv == DInv /\ [Next]_vars => DInv'
<1> SUFFICES ASSUME DInv, [Next]_vars PROVE DInv'
  OBVIOUS
<1>1. WInv'
  BY NextWInv DEF DInv
<1>2. SignalsAre' /\ \A u \in Training : ToldFor(u)'
  BY DBackground, DTools, DController DEF Next
<1> QED  BY <1>1, <1>2 DEF DInv

\* A monitor is completed only after the end of its training was committed as a signal, or
\* answered by cancel_training: no crash between the two commits, no change of policy and no
\* repeated poll loses it (monitor.py:606-627, 492-498; tools.py:406-412).
THEOREM CompletedTold == Spec => []CompletedWasTold
<1>1. DInv => CompletedWasTold
  BY DEF DInv, ToldFor, Tells, CompletedWasTold
<1> QED  BY InitDInv, NextDInv, <1>1, PTL DEF Spec

-----------------------------------------------------------------------------
(* What a policy signalled is gone once the policy is another.              *)

\* A derived signal carries the policy its training has now.
Carries(key, body) ==
    /\ key[1] \in Training
    /\ key[2] \in {"gate", "stale", "error"} => body[2] = policy[key[1]]
SignalsCarry == \A s \in signals : Carries(s.key, s.body)

SInv == DInv /\ SignalsCarry

\* Only rows that carry the policy are recorded.
LEMMA RecordedCarry ==
    ASSUME SignalsCarry, NEW new, signals' = Recorded(new), UNCHANGED policy,
           \A x \in new : Carries(x[1], x[2])
    PROVE  SignalsCarry'
<1> DEFINE fresher == {x \in new : \A r \in signals : r.key # x[1]}
           Row(x) == [key |-> x[1], body |-> x[2], handled |-> FALSE]
<1>1. signals' = signals \cup {Row(x) : x \in fresher}
  BY DEF Recorded
<1>2. ASSUME NEW x \in fresher PROVE Carries(Row(x).key, Row(x).body)
  BY DEF Carries
<1>3. \A s \in signals' : Carries(s.key, s.body)
  BY <1>1, <1>2 DEF SignalsCarry
<1> QED  BY <1>3 DEF SignalsCarry, Carries

\* A new policy forgets every signal of its training.
LEMMA UpsertCarry ==
    ASSUME SInv, NEW t \in Training, NEW p, Upsert(t, p)
    PROVE  SignalsCarry'
<1>1. CASE Unchanged(t, p)
  BY <1>1 DEF Upsert, SInv, SignalsCarry, Carries
<1>2. CASE ~Unchanged(t, p)
  <2>1. /\ signals' = {s \in signals : s.key[1] # t}
        /\ \A u \in Training \ {t} : policy'[u] = policy[u]
    BY <1>2 DEF Upsert, SInv, DInv, WInv, WTypes
  <2> QED  BY <2>1 DEF SInv, SignalsCarry, Carries
<1> QED  BY <1>1, <1>2

\* The name of an end is none of a derived signal's.
LEMMA PollsCarry ==
    ASSUME SInv, NEW t \in Training, PollRunning(t) \/ PollFails(t) \/ PollEnded(t)
    PROVE  SignalsCarry'
<1>1. CASE PollRunning(t)
  <2>1. \E n : \E tooOld \in BOOLEAN :
          signals' = Recorded(GateSignals(t, n) \cup StaleSignals(t, n, tooOld))
    BY <1>1 DEF PollRunning
  <2> PICK n : \E tooOld \in BOOLEAN :
          signals' = Recorded(GateSignals(t, n) \cup StaleSignals(t, n, tooOld))
    BY <2>1
  <2> PICK tooOld \in BOOLEAN :
          signals' = Recorded(GateSignals(t, n) \cup StaleSignals(t, n, tooOld))
    OBVIOUS
  <2>2. ASSUME NEW x \in GateSignals(t, n) \cup StaleSignals(t, n, tooOld)
        PROVE  Carries(x[1], x[2])
    <3>1. x[1][1] = t /\ x[2][2] = policy[t]
      BY DEF GateSignals, StaleSignals, Key, Body
    <3> QED  BY <3>1 DEF Carries
  <2>3. UNCHANGED policy
    BY <1>1 DEF PollRunning
  <2> QED  BY <2>2, <2>3, RecordedCarry DEF SInv
<1>2. CASE PollFails(t)
  <2> DEFINE row == <<Key(t, "error", 0, 0), Body("error", policy[t], 0)>>
  <2>1. signals' = Recorded({row}) /\ UNCHANGED policy
    BY <1>2 DEF PollFails
  <2>2. Carries(row[1], row[2])
    BY DEF Carries, Key, Body
  <2> HIDE DEF row
  <2> QED  BY <2>1, <2>2, RecordedCarry DEF SInv
<1>3. CASE PollEnded(t)
  <2> DEFINE row == <<Key(t, Told(t), 0, 0), Body("status", Told(t), 0)>>
  <2>1. signals' = Recorded({row}) /\ UNCHANGED policy /\ record[t] \in Terminal
    BY <1>3 DEF PollEnded
  <2>2. Told(t) \notin {"gate", "stale", "error"}
    BY <2>1 DEF Told, Terminal, Ended, Recovered
  <2>3. Carries(row[1], row[2])
    BY <2>2 DEF Carries, Key, Body
  <2> HIDE DEF row
  <2> QED  BY <2>1, <2>3, RecordedCarry DEF SInv
<1> QED  BY <1>1, <1>2, <1>3

\* What the tools do.
LEMMA ToolsCarry ==
    ASSUME SInv, NEW t \in Training,
           \/ Begin(t) \/ LaunchTool(t) \/ RegisterRaises(t) \/ InterruptCancels(t)
           \/ CancelTool(t) \/ CancelEnds(t) \/ MonitorToolMarks(t)
           \/ \E p \in Policy : MonitorTool(t, p)
    PROVE  SignalsCarry'
<1> USE DEF storeVars, storeRest, toolVars, launchVars
<1>1. CASE RegisterDefault(t) \/ \E p \in Policy : MonitorTool(t, p)
  BY <1>1, UpsertCarry DEF RegisterDefault, MonitorTool
<1>2. CASE ~(RegisterDefault(t) \/ \E p \in Policy : MonitorTool(t, p))
  <2>1. UNCHANGED <<policy, signals>>
    BY <1>2 DEF Begin, LaunchTool, Launch, Launched, LaunchCancelled, MarkDefault, Returns,
       RegisterRaises, InterruptCancels, CancelTool, CancelEnds, CancelToolCompletes,
       CancelToolUnlinks, MonitorToolMarks
  <2> QED  BY <2>1 DEF SInv, SignalsCarry, Carries
<1> QED  BY <1>1, <1>2

\* What the controller and the rest of the worker do.
LEMMA RestCarries ==
    ASSUME SInv,
           \/ Controlling \/ StartTurn \/ EndTurn \/ TurnFails \/ NewEvents(TRUE) \/ Interrupt
           \/ Background \/ Shutdown \/ Ends \/ Dies \/ UNCHANGED vars
           \/ \E t \in Training : PollFails(t) \/ LogSample(t)
    PROVE  SignalsCarry'
<1> USE DEF storeVars, storeRest, toolVars, launchVars
<1>1. ASSUME NEW t \in Training, PollRunning(t) \/ PollFails(t) \/ PollEnded(t)
      PROVE  SignalsCarry'
  BY <1>1, PollsCarry
<1>2. CASE AcknowledgeSignals
  <2> DEFINE Row(s) == [s EXCEPT !.handled = @ \/ s.key \in Mailed("processed")]
  <2>1. signals' = {Row(s) : s \in signals} /\ UNCHANGED policy
    BY <1>2 DEF AcknowledgeSignals
  <2>2. ASSUME NEW s \in signals PROVE Row(s).key = s.key /\ Row(s).body = s.body
    <3>1. s = [key |-> s.key, body |-> s.body, handled |-> s.handled]
      BY DEF SInv, DInv, SignalsAre
    <3> QED  BY <3>1
  <2> HIDE DEF Row
  <2>3. \A r \in signals' : Carries(r.key, r.body)
    BY <2>1, <2>2 DEF SInv, SignalsCarry
  <2> QED  BY <2>1, <2>3 DEF SignalsCarry, Carries
<1>3. CASE UNCHANGED <<policy, signals>>
  BY <1>3 DEF SInv, SignalsCarry, Carries
<1>4. CASE \/ AcknowledgeTurn \/ NewEvents(FALSE) \/ NewEvents(TRUE) \/ EnqueueDone \/ Cycle
           \/ StartTurn \/ EndTurn \/ TurnFails \/ Interrupt \/ Background
           \/ Shutdown \/ Ends \/ Dies
           \/ UNCHANGED vars
  BY <1>3, <1>4 DEF AcknowledgeTurn, NewEvents, EnqueueDone, Cycle, StartTurn,
       EndTurn, TurnFails, TurnOver,
     Interrupt, Background, Shutdown, Ends, Dies, Lost, vars
<1>5. CASE \/ \E t \in Training : CompleteRow(t) \/ CompleteMarker(t) \/ LogSample(t)
           \/ \E s \in signals : Enqueue(s) \/ Refused(s)
  BY <1>3, <1>5 DEF CompleteRow, CompleteMarker, LogSample, Enqueue, Refused
<1> QED  BY <1>1, <1>2, <1>4, <1>5 DEF Controlling

LEMMA NextSInv == SInv /\ [Next]_vars => SInv'
<1> SUFFICES ASSUME SInv, [Next]_vars PROVE SInv'
  OBVIOUS
<1>1. DInv'
  BY NextDInv DEF SInv
<1>2. SignalsCarry'
  BY ToolsCarry, RestCarries DEF Next
<1> QED  BY <1>1, <1>2 DEF SInv

\* What a policy derived, gates, stale runs and failed lookups, is withdrawn with it: a
\* signal that is left carries the policy its training has now, whatever registrations,
\* polls and crashes passed each other.
THEOREM SignalsAreOfPolicy == Spec => []SignalsOfPolicy
<1>1. Init => SInv
  BY InitDInv DEF SInv, SignalsCarry, Init
<1>2. SInv => SignalsOfPolicy
  BY DEF SInv, SignalsCarry, Carries, SignalsOfPolicy
<1> QED  BY <1>1, <1>2, NextSInv, PTL DEF Spec

=============================================================================
