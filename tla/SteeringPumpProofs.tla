------------------------- MODULE SteeringPumpProofs -------------------------
(***************************************************************************)
(* Machine-checked safety of SteeringPump, for any number of events and of *)
(* runs ended from outside.                                                *)
(***************************************************************************)
EXTENDS SteeringPump, FiniteSetTheorems, TLAPS

Flags == [armed : BOOLEAN, accept : BOOLEAN, turn : BOOLEAN, mode : {0, 1, 2},
          generation : Nat, interrupted : BOOLEAN, paused : BOOLEAN, error : BOOLEAN]

TypeOK ==
    /\ row \in [Key -> {"none", "queued", "pending", "delivered"}]
    /\ flags \in Flags
    /\ started \in BOOLEAN /\ ready \in BOOLEAN /\ stop \in BOOLEAN
    /\ resume \in BOOLEAN /\ active_run \in BOOLEAN
    /\ started_mode \in {0, 1, 2} /\ started_generation \in Nat
    /\ boundaries \subseteq Nat /\ timeouts \in Nat
    /\ snapshot \subseteq Key
    /\ status \in {"idle", "running", "paused", "finished"}
    /\ origin \in {"prepare", "finish"}

\* Steered rows are announced: while no steer is open, the pending rows are the
\* ones a delivery under way has read or is about to read.
RowsAnnounced ==
    /\ ~flags.turn => runner = "read_turn" \/ PendingRows \subseteq snapshot
    /\ runner # "deliver" => snapshot = {}

\* A run that stopped taking steering left nothing behind.
ClosedIsOver ==
    ~flags.accept => /\ ~flags.turn /\ PendingRows = {}
                     /\ runner \in {"leave", "join", "gone"}

\* The bookkeeping of a steer: its mode, the run it may stop, the threads it has.
SteerModes ==
    /\ flags.turn <=> flags.mode # 0
    /\ runner \in {"prepare", "await_steer", "read_turn", "deliver"} => ~flags.armed
    /\ started_generation <= flags.generation
    /\ \A g \in boundaries : g <= flags.generation
    /\ stop => flags.error \/ runner \in {"join", "gone"}

\* While the pump announces a steer the runner does not take it: nobody else sets
\* steer_ready before the pump does.
Opening ==
    pump = "transfer" /\ started_mode # 0 /\ ~stop =>
        /\ flags.turn /\ flags.mode = started_mode /\ ~ready
        /\ active_run => runner \notin {"read_turn", "deliver"}
        /\ started_mode = QUEUE_PRIORITY =>
            started_generation = flags.generation /\ flags.generation \notin boundaries

Aiming ==
    pump \in {"await_run", "mark", "tell"} /\ ~stop =>
        /\ flags.turn /\ flags.mode = STEER_PRIORITY /\ ~ready
        /\ runner \notin {"read_turn", "deliver"}

\* A run that nothing stopped from outside is paused by a steer the runner can tell,
\* or will be able to once the pump has noted it.
PausesNoted ==
    timeouts = 0 /\ ~flags.error /\ status = "paused" =>
        /\ \/ runner \in {"announce", "running", "finish"}
           \/ runner = "await_steer" /\ origin = "finish"
           => flags.turn /\ (pump = "mark" \/ flags.interrupted \/ flags.paused)
        /\ runner \in {"read_turn", "deliver"} /\ origin = "finish" => resume

RunStatus ==
    /\ runner \in {"announce", "running"} => status # "idle"
    /\ runner = "finish" => status \in {"paused", "finished"}

StoppedFailed ==
    timeouts = 0 /\ outcome = "stopped" => flags.error /\ runner # "gone"

SInv ==
    /\ TypeOK /\ RowsAnnounced /\ ClosedIsOver /\ SteerModes /\ Opening /\ Aiming
    /\ PausesNoted /\ RunStatus /\ StoppedFailed

-----------------------------------------------------------------------------

\* A step that leaves the steer under way as it is.
SteerUnchanged ==
    /\ flags'.turn = flags.turn /\ flags'.mode = flags.mode
    /\ flags'.generation = flags.generation /\ flags'.interrupted = flags.interrupted
    /\ flags'.paused = flags.paused /\ flags'.error = flags.error

LEMMA InitSInv == Init => SInv
<1> SUFFICES ASSUME Init PROVE SInv
  OBVIOUS
<1>1. PendingRows = {}
  BY DEF Init, PendingRows
<1>2. TypeOK
  BY DEF Init, TypeOK, Flags
<1>3. RowsAnnounced /\ ClosedIsOver
  BY <1>1 DEF Init, RowsAnnounced, ClosedIsOver
<1>4. SteerModes
  BY DEF Init, SteerModes
<1>5. Opening /\ Aiming
  BY DEF Init, Opening, Aiming
<1>6. PausesNoted /\ RunStatus /\ StoppedFailed
  BY DEF Init, PausesNoted, RunStatus, StoppedFailed
<1> QED
  BY <1>2, <1>3, <1>4, <1>5, <1>6 DEF SInv

-----------------------------------------------------------------------------
(* One lemma per action: the parts of the invariant it may disturb, each    *)
(* from the parts it rests on.                                              *)

\* What the invariant does not speak of may change: the store, a step of the agent.
invVars == <<row, flags, runner, snapshot, resume, outcome, origin, pump, started_mode,
             started_generation, active_run, boundaries, started, ready, stop, status, timeouts>>

LEMMA UnconcernedSInv == ASSUME SInv, UNCHANGED invVars PROVE SInv'
<1>1. TypeOK'
  BY DEF SInv, TypeOK, invVars
<1>2. RowsAnnounced' /\ ClosedIsOver'
  BY DEF SInv, RowsAnnounced, ClosedIsOver, PendingRows, invVars
<1>3. SteerModes' /\ Opening' /\ Aiming'
  BY DEF SInv, SteerModes, Opening, Aiming, invVars
<1>4. PausesNoted' /\ RunStatus' /\ StoppedFailed'
  BY DEF SInv, PausesNoted, RunStatus, StoppedFailed, invVars
<1> QED
  BY <1>1, <1>2, <1>3, <1>4 DEF SInv

LEMMA ModelFinishesSInv == ASSUME SInv, ModelFinishes PROVE SInv'
<1>1. TypeOK'
  BY DEF ModelFinishes, runnerVars, pumpVars, locals, SInv, TypeOK
<1>2. RowsAnnounced'
  BY DEF ModelFinishes, runnerVars, SInv, RowsAnnounced, PendingRows
<1>3. ClosedIsOver'
  BY DEF ModelFinishes, runnerVars, SInv, ClosedIsOver, PendingRows
<1>4. SteerModes'
  BY DEF ModelFinishes, runnerVars, pumpVars, locals, SInv, SteerModes
<1>5. Opening'
  BY DEF ModelFinishes, runnerVars, pumpVars, locals, SInv, Opening
<1>6. Aiming'
  BY DEF ModelFinishes, runnerVars, pumpVars, SInv, Aiming
<1>7. PausesNoted'
  BY DEF ModelFinishes, SInv, PausesNoted
<1>8. RunStatus'
  BY DEF ModelFinishes, SInv, RunStatus
<1>9. StoppedFailed'
  BY DEF ModelFinishes, runnerVars, SInv, StoppedFailed
<1> QED
  BY <1>1, <1>2, <1>3, <1>4, <1>5, <1>6, <1>7, <1>8, <1>9 DEF SInv

LEMMA RunTimesOutSInv == ASSUME SInv, RunTimesOut PROVE SInv'
<1>1. TypeOK'
  BY DEF RunTimesOut, Interrupt, runnerVars, pumpVars, locals, SInv, TypeOK
<1>2. RowsAnnounced'
  BY DEF RunTimesOut, runnerVars, SInv, RowsAnnounced, PendingRows
<1>3. ClosedIsOver'
  BY DEF RunTimesOut, SInv, ClosedIsOver
<1>4. SteerModes'
  BY DEF RunTimesOut, runnerVars, pumpVars, locals, SInv, SteerModes
<1>5. Opening'
  BY DEF RunTimesOut, runnerVars, pumpVars, locals, SInv, Opening
<1>6. Aiming'
  BY DEF RunTimesOut, runnerVars, pumpVars, SInv, Aiming
<1>7. PausesNoted'
  BY DEF RunTimesOut, SInv, PausesNoted, TypeOK
<1>8. RunStatus'
  BY DEF RunTimesOut, Interrupt, SInv, RunStatus
<1>9. StoppedFailed'
  BY DEF RunTimesOut, SInv, StoppedFailed, TypeOK
<1> QED
  BY <1>1, <1>2, <1>3, <1>4, <1>5, <1>6, <1>7, <1>8, <1>9 DEF SInv

LEMMA PumpPollsSInv == ASSUME SInv, PumpPolls PROVE SInv'
<1>1. flags.generation \in Nat /\ started_generation \in Nat
  BY DEF SInv, TypeOK, Flags
<1>2. TypeOK'
  BY DEF PumpPolls, runnerVars, convVars, SInv, TypeOK
<1>3. RowsAnnounced'
  BY DEF PumpPolls, runnerVars, SInv, RowsAnnounced, PendingRows
<1>4. ClosedIsOver'
  BY DEF PumpPolls, runnerVars, SInv, ClosedIsOver, PendingRows
<1>5. SteerModes'
  BY <1>1 DEF PumpPolls, runnerVars, SInv, SteerModes
<1>6. Opening'
  BY DEF PumpPolls, SInv, Opening
<1>7. Aiming'
  BY DEF PumpPolls, SInv, Aiming
<1>8. PausesNoted'
  BY DEF PumpPolls, runnerVars, convVars, SInv, PausesNoted
<1>9. RunStatus'
  BY DEF PumpPolls, runnerVars, convVars, SInv, RunStatus
<1>10. StoppedFailed'
  BY DEF PumpPolls, runnerVars, convVars, SInv, StoppedFailed
<1> QED
  BY <1>2, <1>3, <1>4, <1>5, <1>6, <1>7, <1>8, <1>9, <1>10 DEF SInv

LEMMA PumpStopsSInv == ASSUME SInv, PumpStops PROVE SInv'
<1>1. TypeOK'
  BY DEF PumpStops, runnerVars, convVars, locals, SInv, TypeOK
<1>2. RowsAnnounced'
  BY DEF PumpStops, runnerVars, SInv, RowsAnnounced, PendingRows
<1>3. ClosedIsOver'
  BY DEF PumpStops, runnerVars, SInv, ClosedIsOver, PendingRows
<1>4. SteerModes'
  BY DEF PumpStops, runnerVars, locals, SInv, SteerModes
<1>5. Opening'
  BY DEF PumpStops, SInv, Opening
<1>6. Aiming'
  BY DEF PumpStops, SInv, Aiming
<1>7. PausesNoted'
  BY DEF PumpStops, runnerVars, convVars, SInv, PausesNoted
<1>8. RunStatus'
  BY DEF PumpStops, runnerVars, convVars, SInv, RunStatus
<1>9. StoppedFailed'
  BY DEF PumpStops, runnerVars, convVars, SInv, StoppedFailed
<1> QED
  BY <1>1, <1>2, <1>3, <1>4, <1>5, <1>6, <1>7, <1>8, <1>9 DEF SInv

LEMMA PumpFailsSInv == ASSUME SInv, PumpFails PROVE SInv'
<1>1. TypeOK'
  BY DEF PumpFails, Interrupt, FailureInterrupts, runnerVars, locals, SInv, TypeOK, Flags
<1>2. RowsAnnounced'
  BY DEF PumpFails, FailureInterrupts, runnerVars, SInv, RowsAnnounced, PendingRows
<1>3. ClosedIsOver'
  BY DEF PumpFails, FailureInterrupts, runnerVars, SInv, ClosedIsOver, PendingRows
<1>4. SteerModes'
  BY DEF PumpFails, FailureInterrupts, runnerVars, locals, SInv, SteerModes
<1>5. Opening'
  BY DEF PumpFails, FailureInterrupts, SInv, Opening
<1>6. Aiming'
  BY DEF PumpFails, FailureInterrupts, SInv, Aiming
<1>7. PausesNoted'
  BY DEF PumpFails, FailureInterrupts, SInv, PausesNoted
<1>8. RunStatus'
  BY DEF PumpFails, Interrupt, FailureInterrupts, runnerVars, SInv, RunStatus
<1>9. StoppedFailed'
  BY DEF PumpFails, FailureInterrupts, runnerVars, SInv, StoppedFailed
<1> QED
  BY <1>1, <1>2, <1>3, <1>4, <1>5, <1>6, <1>7, <1>8, <1>9 DEF SInv

LEMMA TransferDoneSInv == ASSUME SInv, TransferDone PROVE SInv'
<1>1. /\ started_mode \in {0, 1, 2} /\ started_generation \in Nat
      /\ active_run \in BOOLEAN /\ ready \in BOOLEAN /\ boundaries \subseteq Nat
  BY DEF SInv, TypeOK
<1>2. TypeOK'
  <2>1. ready' \in BOOLEAN /\ boundaries' \subseteq Nat
    BY <1>1 DEF TransferDone, runnerVars, convVars, QUEUE_PRIORITY, STEER_PRIORITY
  <2>2. UNCHANGED <<row, flags, started, stop, resume, active_run, started_mode,
                    started_generation, timeouts, snapshot, status, origin>>
    BY DEF TransferDone, runnerVars, convVars
  <2> QED
    BY <2>1, <2>2 DEF SInv, TypeOK
<1>3. RowsAnnounced'
  BY DEF TransferDone, runnerVars, SInv, RowsAnnounced, PendingRows
<1>4. ClosedIsOver'
  BY DEF TransferDone, runnerVars, SInv, ClosedIsOver, PendingRows
<1>5. SteerModes'
  BY DEF TransferDone, runnerVars, SInv, SteerModes, TypeOK, QUEUE_PRIORITY, STEER_PRIORITY
<1>6. Opening'
  BY DEF TransferDone, SInv, Opening, TypeOK, QUEUE_PRIORITY, STEER_PRIORITY
<1>7. Aiming'
  <2>1. pump' = "await_run" => started_mode = STEER_PRIORITY /\ active_run /\ UNCHANGED ready
    BY <1>1 DEF TransferDone, runnerVars, convVars, QUEUE_PRIORITY, STEER_PRIORITY
  <2>2. pump' \in {"poll", "await_run"} /\ UNCHANGED <<flags, runner, stop>> /\ pump = "transfer"
    BY <1>1 DEF TransferDone, runnerVars, convVars, QUEUE_PRIORITY, STEER_PRIORITY
  <2> QED
    BY <2>1, <2>2 DEF SInv, Opening, Aiming, STEER_PRIORITY
<1>8. PausesNoted'
  BY DEF TransferDone, runnerVars, convVars, SInv, PausesNoted
<1>9. RunStatus'
  BY DEF TransferDone, runnerVars, convVars, SInv, RunStatus
<1>10. StoppedFailed'
  BY DEF TransferDone, runnerVars, convVars, SInv, StoppedFailed
<1> QED
  BY <1>2, <1>3, <1>4, <1>5, <1>6, <1>7, <1>8, <1>9, <1>10 DEF SInv

LEMMA InterruptNeedlessSInv == ASSUME SInv, InterruptNeedless PROVE SInv'
<1>1. TypeOK'
  BY DEF InterruptNeedless, PumpReady, runnerVars, convVars, locals, SInv, TypeOK
<1>2. RowsAnnounced'
  BY DEF InterruptNeedless, PumpReady, runnerVars, SInv, RowsAnnounced, PendingRows
<1>3. ClosedIsOver'
  BY DEF InterruptNeedless, PumpReady, runnerVars, SInv, ClosedIsOver, PendingRows
<1>4. SteerModes'
  BY DEF InterruptNeedless, PumpReady, runnerVars, locals, SInv, SteerModes
<1>5. Opening'
  BY DEF InterruptNeedless, PumpReady, SInv, Opening
<1>6. Aiming'
  BY DEF InterruptNeedless, PumpReady, SInv, Aiming
<1>7. PausesNoted'
  BY DEF InterruptNeedless, PumpReady, runnerVars, convVars, SInv, PausesNoted
<1>8. RunStatus'
  BY DEF InterruptNeedless, PumpReady, runnerVars, convVars, SInv, RunStatus
<1>9. StoppedFailed'
  BY DEF InterruptNeedless, PumpReady, runnerVars, convVars, SInv, StoppedFailed
<1> QED
  BY <1>1, <1>2, <1>3, <1>4, <1>5, <1>6, <1>7, <1>8, <1>9 DEF SInv

LEMMA InterruptRunSInv == ASSUME SInv, InterruptRun PROVE SInv'
<1>1. TypeOK'
  BY DEF InterruptRun, Interrupt, runnerVars, locals, SInv, TypeOK
<1>2. RowsAnnounced'
  BY DEF InterruptRun, runnerVars, SInv, RowsAnnounced, PendingRows
<1>3. ClosedIsOver'
  BY DEF InterruptRun, runnerVars, SInv, ClosedIsOver, PendingRows
<1>4. SteerModes'
  BY DEF InterruptRun, runnerVars, locals, SInv, SteerModes
<1>5. Opening'
  BY DEF InterruptRun, SInv, Opening
<1>6. Aiming'
  BY DEF InterruptRun, runnerVars, SInv, Aiming
<1>7. PausesNoted'
  BY DEF InterruptRun, runnerVars, SInv, PausesNoted, Aiming
<1>8. RunStatus'
  BY DEF InterruptRun, Interrupt, runnerVars, SInv, RunStatus
<1>9. StoppedFailed'
  BY DEF InterruptRun, runnerVars, SInv, StoppedFailed
<1> QED
  BY <1>1, <1>2, <1>3, <1>4, <1>5, <1>6, <1>7, <1>8, <1>9 DEF SInv

LEMMA NoteInterruptSInv == ASSUME SInv, NoteInterrupt PROVE SInv'
<1>1. TypeOK'
  BY DEF NoteInterrupt, runnerVars, convVars, locals, SInv, TypeOK, Flags
<1>2. RowsAnnounced'
  BY DEF NoteInterrupt, runnerVars, SInv, RowsAnnounced, PendingRows
<1>3. ClosedIsOver'
  BY DEF NoteInterrupt, runnerVars, SInv, ClosedIsOver, PendingRows
<1>4. SteerModes'
  BY DEF NoteInterrupt, runnerVars, locals, SInv, SteerModes
<1>5. Opening'
  BY DEF NoteInterrupt, SInv, Opening
<1>6. Aiming'
  BY DEF NoteInterrupt, runnerVars, SInv, Aiming
<1>7. PausesNoted'
  BY DEF NoteInterrupt, runnerVars, convVars, SInv, PausesNoted
<1>8. RunStatus'
  BY DEF NoteInterrupt, runnerVars, convVars, SInv, RunStatus
<1>9. StoppedFailed'
  BY DEF NoteInterrupt, runnerVars, convVars, SInv, StoppedFailed
<1> QED
  BY <1>1, <1>2, <1>3, <1>4, <1>5, <1>6, <1>7, <1>8, <1>9 DEF SInv

LEMMA TellRunnerSInv == ASSUME SInv, TellRunner PROVE SInv'
<1>1. TypeOK'
  BY DEF TellRunner, PumpReady, runnerVars, convVars, locals, SInv, TypeOK
<1>2. RowsAnnounced'
  BY DEF TellRunner, PumpReady, runnerVars, SInv, RowsAnnounced, PendingRows
<1>3. ClosedIsOver'
  BY DEF TellRunner, PumpReady, runnerVars, SInv, ClosedIsOver, PendingRows
<1>4. SteerModes'
  BY DEF TellRunner, PumpReady, runnerVars, locals, SInv, SteerModes
<1>5. Opening'
  BY DEF TellRunner, PumpReady, SInv, Opening
<1>6. Aiming'
  BY DEF TellRunner, PumpReady, SInv, Aiming
<1>7. PausesNoted'
  BY DEF TellRunner, PumpReady, runnerVars, convVars, SInv, PausesNoted
<1>8. RunStatus'
  BY DEF TellRunner, PumpReady, runnerVars, convVars, SInv, RunStatus
<1>9. StoppedFailed'
  BY DEF TellRunner, PumpReady, runnerVars, convVars, SInv, StoppedFailed
<1> QED
  BY <1>1, <1>2, <1>3, <1>4, <1>5, <1>6, <1>7, <1>8, <1>9 DEF SInv

LEMMA PrepareRunSInv == ASSUME SInv, PrepareRun PROVE SInv'
<1>1. flags \in Flags /\ flags.generation \in Nat /\ started_generation \in Nat
  BY DEF SInv, TypeOK, Flags
<1>a. /\ runner = "prepare"
      /\ UNCHANGED <<row, snapshot, resume, ready, stop, status, pump, boundaries,
                     started_mode, started_generation, active_run, timeouts>>
  BY DEF PrepareRun, RunnerOnly, Leave, pumpVars, locals
<1>b. \/ runner' = "leave" /\ outcome' = "failed" /\ UNCHANGED <<flags, started, origin>>
      \/ runner' = "await_steer" /\ origin' = "prepare" /\ flags.turn
         /\ UNCHANGED <<flags, started, outcome>>
      \/ /\ runner' = "launch" /\ started' = FALSE /\ UNCHANGED <<origin, outcome>>
         /\ ~flags.turn /\ flags' = [flags EXCEPT !.armed = TRUE]
  BY DEF PrepareRun, Leave
<1>c. flags' \in Flags /\ SteerUnchanged /\ flags'.accept = flags.accept
  BY <1>1, <1>b DEF SteerUnchanged, Flags
<1>d. runner' \in {"leave", "await_steer", "launch"} /\ (runner' = "await_steer" => UNCHANGED flags)
  BY <1>b
<1>2. TypeOK'
  BY <1>a, <1>b, <1>c DEF SInv, TypeOK
<1>3. RowsAnnounced'
  BY DEF PrepareRun, Leave, SInv, RowsAnnounced, PendingRows
<1>4. ClosedIsOver'
  BY <1>a, <1>c, <1>d DEF SInv, ClosedIsOver, SteerUnchanged
<1>5. SteerModes'
  BY <1>a, <1>c, <1>d DEF SInv, SteerModes, SteerUnchanged
<1>6. Opening'
  BY DEF PrepareRun, RunnerOnly, Leave, pumpVars, locals, SInv, Opening
<1>7. Aiming'
  BY DEF PrepareRun, RunnerOnly, Leave, pumpVars, SInv, Aiming
<1>8. PausesNoted'
  BY DEF PrepareRun, SInv, PausesNoted
<1>9. RunStatus'
  BY DEF PrepareRun, Leave, SInv, RunStatus
<1>10. StoppedFailed'
  BY DEF PrepareRun, RunnerOnly, Leave, SInv, StoppedFailed
<1> QED
  BY <1>2, <1>3, <1>4, <1>5, <1>6, <1>7, <1>8, <1>9, <1>10 DEF SInv

LEMMA LaunchRunSInv == ASSUME SInv, LaunchRun PROVE SInv'
<1>1. TypeOK'
  BY DEF LaunchRun, RunnerOnly, pumpVars, locals, SInv, TypeOK
<1>2. RowsAnnounced'
  BY DEF LaunchRun, SInv, RowsAnnounced, PendingRows
<1>3. ClosedIsOver'
  BY DEF LaunchRun, SInv, ClosedIsOver
<1>4. SteerModes'
  BY DEF LaunchRun, RunnerOnly, pumpVars, locals, SInv, SteerModes
<1>5. Opening'
  BY DEF LaunchRun, RunnerOnly, pumpVars, locals, SInv, Opening
<1>6. Aiming'
  BY DEF LaunchRun, RunnerOnly, pumpVars, SInv, Aiming
<1>7. PausesNoted'
  BY DEF LaunchRun, SInv, PausesNoted
<1>8. RunStatus'
  BY DEF LaunchRun, SInv, RunStatus
<1>9. StoppedFailed'
  BY DEF LaunchRun, RunnerOnly, SInv, StoppedFailed
<1> QED
  BY <1>1, <1>2, <1>3, <1>4, <1>5, <1>6, <1>7, <1>8, <1>9 DEF SInv

LEMMA AnnounceRunSInv == ASSUME SInv, AnnounceRun PROVE SInv'
<1>1. TypeOK'
  BY DEF AnnounceRun, RunnerOnly, MissedFailure, Interrupt, pumpVars, locals, SInv, TypeOK
<1>2. RowsAnnounced'
  BY DEF AnnounceRun, MissedFailure, SInv, RowsAnnounced, PendingRows
<1>3. ClosedIsOver'
  BY DEF AnnounceRun, MissedFailure, SInv, ClosedIsOver
<1>4. SteerModes'
  BY DEF AnnounceRun, RunnerOnly, MissedFailure, pumpVars, locals, SInv, SteerModes
<1>5. Opening'
  BY DEF AnnounceRun, RunnerOnly, MissedFailure, pumpVars, locals, SInv, Opening
<1>6. Aiming'
  BY DEF AnnounceRun, RunnerOnly, MissedFailure, pumpVars, SInv, Aiming
<1>7. PausesNoted'
  BY DEF AnnounceRun, RunnerOnly, MissedFailure, pumpVars, SInv, PausesNoted
<1>8. RunStatus'
  BY DEF AnnounceRun, MissedFailure, Interrupt, SInv, RunStatus
<1>9. StoppedFailed'
  BY DEF AnnounceRun, RunnerOnly, MissedFailure, SInv, StoppedFailed
<1> QED
  BY <1>1, <1>2, <1>3, <1>4, <1>5, <1>6, <1>7, <1>8, <1>9 DEF SInv

LEMMA RunEndsSInv == ASSUME SInv, RunEnds PROVE SInv'
<1>1. TypeOK'
  BY DEF RunEnds, RunnerOnly, pumpVars, locals, SInv, TypeOK
<1>2. RowsAnnounced'
  BY DEF RunEnds, SInv, RowsAnnounced, PendingRows
<1>3. ClosedIsOver'
  BY DEF RunEnds, SInv, ClosedIsOver
<1>4. SteerModes'
  BY DEF RunEnds, RunnerOnly, pumpVars, locals, SInv, SteerModes
<1>5. Opening'
  BY DEF RunEnds, RunnerOnly, pumpVars, locals, SInv, Opening
<1>6. Aiming'
  BY DEF RunEnds, RunnerOnly, pumpVars, SInv, Aiming
<1>7. PausesNoted'
  BY DEF RunEnds, RunnerOnly, pumpVars, SInv, PausesNoted
<1>8. RunStatus'
  BY DEF RunEnds, SInv, RunStatus, TypeOK
<1>9. StoppedFailed'
  BY DEF RunEnds, RunnerOnly, SInv, StoppedFailed
<1> QED
  BY <1>1, <1>2, <1>3, <1>4, <1>5, <1>6, <1>7, <1>8, <1>9 DEF SInv

LEMMA RunRaisesSInv == ASSUME SInv, RunRaises PROVE SInv'
<1>1. TypeOK'
  BY DEF RunRaises, RunnerOnly, Leave, pumpVars, locals, SInv, TypeOK
<1>2. RowsAnnounced'
  BY DEF RunRaises, Leave, SInv, RowsAnnounced, PendingRows
<1>3. ClosedIsOver'
  BY DEF RunRaises, SInv, ClosedIsOver
<1>4. SteerModes'
  BY DEF RunRaises, RunnerOnly, Leave, pumpVars, locals, SInv, SteerModes
<1>5. Opening'
  BY DEF RunRaises, RunnerOnly, Leave, pumpVars, locals, SInv, Opening
<1>6. Aiming'
  BY DEF RunRaises, RunnerOnly, Leave, pumpVars, SInv, Aiming
<1>7. PausesNoted'
  BY DEF RunRaises, Leave, SInv, PausesNoted
<1>8. RunStatus'
  BY DEF RunRaises, SInv, RunStatus
<1>9. StoppedFailed'
  BY DEF RunRaises, Leave, SInv, StoppedFailed
<1> QED
  BY <1>1, <1>2, <1>3, <1>4, <1>5, <1>6, <1>7, <1>8, <1>9 DEF SInv

LEMMA FinishRunSInv == ASSUME SInv, FinishRun PROVE SInv'
<1>1. flags \in Flags /\ flags.generation \in Nat /\ started_generation \in Nat
  BY DEF SInv, TypeOK, Flags
<1>a. /\ runner = "finish"
      /\ UNCHANGED <<row, snapshot, resume, started, ready, stop, status, pump, boundaries,
                     started_mode, started_generation, active_run, timeouts>>
  BY DEF FinishRun, RunnerOnly, Leave, pumpVars, locals
<1>b. \/ /\ ~flags.turn /\ flags' = [flags EXCEPT !.armed = FALSE, !.accept = FALSE]
         /\ runner' = "leave" /\ UNCHANGED origin
         /\ status # "finished" => outcome' = "stopped"
         /\ status = "finished" => outcome' = "finished"
      \/ /\ flags.turn /\ flags' = [flags EXCEPT !.armed = FALSE]
         /\ runner' = "await_steer" /\ origin' = "finish" /\ UNCHANGED outcome
  BY DEF FinishRun, Leave
<1>c. flags' \in Flags /\ SteerUnchanged /\ ~flags'.armed
  BY <1>1, <1>b DEF SteerUnchanged, Flags
<1>d. /\ runner' \in {"leave", "await_steer"}
      /\ \/ ~flags.turn /\ runner' = "leave"
         \/ flags'.accept = flags.accept
  <2>1. ASSUME flags' = [flags EXCEPT !.armed = FALSE] PROVE flags'.accept = flags.accept
    BY <1>1, <2>1 DEF Flags
  <2> QED
    BY <1>b, <2>1
<1>e. snapshot = {} /\ (~flags.turn => PendingRows = {})
  BY <1>a DEF SInv, RowsAnnounced
<1>2. TypeOK'
  BY DEF FinishRun, RunnerOnly, Leave, pumpVars, locals, SInv, TypeOK, Flags
<1>3. RowsAnnounced'
  BY <1>a, <1>c, <1>d, <1>e DEF SInv, RowsAnnounced, PendingRows, SteerUnchanged
<1>4. ClosedIsOver'
  BY <1>a, <1>c, <1>d, <1>e DEF SInv, ClosedIsOver, PendingRows, SteerUnchanged
<1>5. SteerModes'
  BY <1>a, <1>c, <1>d DEF SInv, SteerModes, SteerUnchanged
<1>6. Opening'
  BY <1>a, <1>c, <1>d DEF SInv, Opening, SteerUnchanged
<1>7. Aiming'
  BY <1>a, <1>c, <1>d DEF SInv, Aiming, SteerUnchanged
<1>8. PausesNoted'
  BY <1>a, <1>b, <1>c DEF SInv, PausesNoted, SteerUnchanged
<1>9. RunStatus'
  BY DEF FinishRun, SInv, RunStatus
<1>10. StoppedFailed'
  BY <1>a, <1>b, <1>c DEF SInv, StoppedFailed, PausesNoted, RunStatus, SteerUnchanged
<1> QED
  BY <1>2, <1>3, <1>4, <1>5, <1>6, <1>7, <1>8, <1>9, <1>10 DEF SInv

LEMMA TakeSteerSInv == ASSUME SInv, TakeSteer PROVE SInv'
<1>1. flags \in Flags /\ flags.generation \in Nat /\ started_generation \in Nat
  BY DEF SInv, TypeOK, Flags
<1>a. /\ runner = "await_steer" /\ ready
      /\ UNCHANGED <<row, snapshot, started, stop, status, origin, pump, boundaries,
                     started_mode, started_generation, active_run, timeouts>>
  BY DEF TakeSteer, RunnerOnly, Leave, pumpVars, locals
<1>b. \/ /\ flags.error /\ runner' = "leave" /\ outcome' = "failed"
         /\ UNCHANGED <<flags, ready, resume>>
      \/ /\ ~flags.error /\ runner' = "read_turn" /\ ready' = FALSE /\ UNCHANGED outcome
         /\ resume' = (flags.interrupted \/ flags.paused)
         /\ flags' = [flags EXCEPT !.turn = FALSE, !.mode = 0, !.interrupted = FALSE,
                                   !.paused = FALSE]
  BY DEF TakeSteer, Leave, Resumes
<1>c. /\ flags'.armed = flags.armed /\ flags'.accept = flags.accept
      /\ flags'.generation = flags.generation /\ flags'.error = flags.error
  BY <1>1, <1>b DEF Flags
<1>d. \/ flags.error /\ runner' = "leave" /\ UNCHANGED <<flags, ready, resume>>
      \/ /\ ~flags.error /\ runner' = "read_turn" /\ flags'.mode = 0
         /\ flags'.turn = FALSE /\ resume' = (flags.interrupted \/ flags.paused)
  BY <1>1, <1>b DEF Flags
<1>2. TypeOK'
  BY DEF TakeSteer, RunnerOnly, Leave, Resumes, pumpVars, locals, SInv, TypeOK, Flags
<1>3. RowsAnnounced'
  BY DEF TakeSteer, Leave, Resumes, SInv, RowsAnnounced, PendingRows
<1>4. ClosedIsOver'
  BY <1>a, <1>c, <1>d DEF SInv, ClosedIsOver
<1>5. SteerModes'
  <2>1. flags'.turn <=> flags'.mode # 0
    BY <1>d DEF SInv, SteerModes
  <2>2. /\ runner' \in {"prepare", "await_steer", "read_turn", "deliver"} => ~flags'.armed
        /\ stop' => flags'.error \/ runner' \in {"join", "gone"}
    BY <1>a, <1>c DEF SInv, SteerModes
  <2>3. /\ started_generation' <= flags'.generation
        /\ \A g \in boundaries' : g <= flags'.generation
    BY <1>a, <1>c DEF SInv, SteerModes
  <2> QED
    BY <2>1, <2>2, <2>3 DEF SteerModes
<1>6. Opening'
  BY DEF TakeSteer, RunnerOnly, Resumes, pumpVars, locals, SInv, Opening
<1>7. Aiming'
  BY DEF TakeSteer, RunnerOnly, Resumes, pumpVars, SInv, Aiming
<1>8. PausesNoted'
  BY <1>a, <1>c, <1>d DEF SInv, PausesNoted, SteerModes, Aiming
<1>9. RunStatus'
  BY DEF TakeSteer, Leave, Resumes, SInv, RunStatus
<1>10. StoppedFailed'
  BY DEF TakeSteer, RunnerOnly, Leave, Resumes, SInv, StoppedFailed
<1> QED
  BY <1>2, <1>3, <1>4, <1>5, <1>6, <1>7, <1>8, <1>9, <1>10 DEF SInv

LEMMA ReadTurnSInv == ASSUME SInv, ReadTurn PROVE SInv'
<1>1. TypeOK'
  BY DEF ReadTurn, RunnerOnly, pumpVars, locals, SInv, TypeOK, PendingRows
<1>2. RowsAnnounced'
  BY DEF ReadTurn, SInv, RowsAnnounced, PendingRows
<1>3. ClosedIsOver'
  BY DEF ReadTurn, SInv, ClosedIsOver
<1>4. SteerModes'
  BY DEF ReadTurn, RunnerOnly, pumpVars, locals, SInv, SteerModes
<1>5. Opening'
  BY DEF ReadTurn, RunnerOnly, pumpVars, locals, SInv, Opening
<1>6. Aiming'
  BY DEF ReadTurn, RunnerOnly, pumpVars, SInv, Aiming
<1>7. PausesNoted'
  BY DEF ReadTurn, RunnerOnly, SInv, PausesNoted
<1>8. RunStatus'
  BY DEF ReadTurn, SInv, RunStatus
<1>9. StoppedFailed'
  BY DEF ReadTurn, RunnerOnly, SInv, StoppedFailed
<1> QED
  BY <1>1, <1>2, <1>3, <1>4, <1>5, <1>6, <1>7, <1>8, <1>9 DEF SInv

LEMMA DeliverSteerSInv == ASSUME SInv, DeliverSteer PROVE SInv'
<1>a. /\ runner = "deliver" /\ UNCHANGED <<flags, timeouts>>
      /\ \/ runner' = "prepare" /\ UNCHANGED outcome
         \/ /\ runner' = "leave" /\ outcome' = "stopped" /\ status = "paused"
            /\ origin # "prepare" /\ ~resume
  BY DEF DeliverSteer, RunnerOnly
<1>1. TypeOK'
  BY DEF DeliverSteer, RunnerOnly, pumpVars, locals, SInv, TypeOK
<1>2. RowsAnnounced'
  BY DEF DeliverSteer, SInv, RowsAnnounced, PendingRows
<1>3. ClosedIsOver'
  BY DEF DeliverSteer, SInv, ClosedIsOver
<1>4. SteerModes'
  BY DEF DeliverSteer, RunnerOnly, pumpVars, locals, SInv, SteerModes
<1>5. Opening'
  BY DEF DeliverSteer, RunnerOnly, pumpVars, locals, SInv, Opening
<1>6. Aiming'
  BY DEF DeliverSteer, RunnerOnly, pumpVars, SInv, Aiming
<1>7. PausesNoted'
  BY DEF DeliverSteer, SInv, PausesNoted
<1>8. RunStatus'
  BY DEF DeliverSteer, SInv, RunStatus
<1>9. StoppedFailed'
  BY <1>a DEF SInv, StoppedFailed, PausesNoted, TypeOK
<1> QED
  BY <1>1, <1>2, <1>3, <1>4, <1>5, <1>6, <1>7, <1>8, <1>9 DEF SInv

LEMMA StopThreadsSInv == ASSUME SInv, StopThreads PROVE SInv'
<1>1. TypeOK'
  BY DEF StopThreads, RunnerOnly, pumpVars, locals, SInv, TypeOK
<1>2. RowsAnnounced'
  BY DEF StopThreads, SInv, RowsAnnounced, PendingRows
<1>3. ClosedIsOver'
  BY DEF StopThreads, SInv, ClosedIsOver, PendingRows
<1>4. SteerModes'
  BY DEF StopThreads, RunnerOnly, pumpVars, locals, SInv, SteerModes
<1>5. Opening'
  BY DEF StopThreads, SInv, Opening
<1>6. Aiming'
  BY DEF StopThreads, SInv, Aiming
<1>7. PausesNoted'
  BY DEF StopThreads, SInv, PausesNoted
<1>8. RunStatus'
  BY DEF StopThreads, SInv, RunStatus
<1>9. StoppedFailed'
  BY DEF StopThreads, RunnerOnly, SInv, StoppedFailed
<1> QED
  BY <1>1, <1>2, <1>3, <1>4, <1>5, <1>6, <1>7, <1>8, <1>9 DEF SInv

LEMMA JoinThreadsSInv == ASSUME SInv, JoinThreads PROVE SInv'
<1>1. TypeOK'
  BY DEF JoinThreads, RunnerOnly, pumpVars, locals, SInv, TypeOK
<1>2. RowsAnnounced'
  BY DEF JoinThreads, SInv, RowsAnnounced, PendingRows
<1>3. ClosedIsOver'
  BY DEF JoinThreads, SInv, ClosedIsOver, PendingRows
<1>4. SteerModes'
  BY DEF JoinThreads, RunnerOnly, pumpVars, locals, SInv, SteerModes
<1>5. Opening'
  BY DEF JoinThreads, RunnerOnly, pumpVars, SInv, Opening
<1>6. Aiming'
  BY DEF JoinThreads, RunnerOnly, pumpVars, SInv, Aiming
<1>7. PausesNoted'
  BY DEF JoinThreads, SInv, PausesNoted
<1>8. RunStatus'
  BY DEF JoinThreads, SInv, RunStatus
<1>9. StoppedFailed'
  BY DEF JoinThreads, RunnerOnly, SInv, StoppedFailed
<1> QED
  BY <1>1, <1>2, <1>3, <1>4, <1>5, <1>6, <1>7, <1>8, <1>9 DEF SInv

LEMMA SkipSteeringSInv == ASSUME SInv, NEW k \in Key, SkipSteering(k) PROVE SInv'
<1>1. TypeOK'
  BY DEF SkipSteering, MaySteer, runnerVars, convVars, locals, SInv, TypeOK
<1>2. RowsAnnounced'
  BY DEF SkipSteering, MaySteer, runnerVars, SInv, RowsAnnounced, PendingRows
<1>3. ClosedIsOver'
  BY DEF SkipSteering, MaySteer, runnerVars, SInv, ClosedIsOver, PendingRows
<1>4. SteerModes'
  BY DEF SkipSteering, MaySteer, runnerVars, locals, SInv, SteerModes
<1>5. Opening'
  BY DEF SkipSteering, MaySteer, runnerVars, locals, SInv, Opening
<1>6. Aiming'
  BY DEF SkipSteering, MaySteer, SInv, Aiming
<1>7. PausesNoted'
  BY DEF SkipSteering, MaySteer, runnerVars, convVars, SInv, PausesNoted
<1>8. RunStatus'
  BY DEF SkipSteering, MaySteer, runnerVars, convVars, SInv, RunStatus
<1>9. StoppedFailed'
  BY DEF SkipSteering, MaySteer, runnerVars, convVars, SInv, StoppedFailed
<1> QED
  BY <1>1, <1>2, <1>3, <1>4, <1>5, <1>6, <1>7, <1>8, <1>9 DEF SInv

LEMMA TransferQueuedSInv == ASSUME SInv, NEW k \in Key, TransferQueued(k) PROVE SInv'
<1>1. TypeOK'
  BY DEF TransferQueued, Transferred, runnerVars, convVars, locals, SInv, TypeOK
<1>2. RowsAnnounced'
  BY DEF TransferQueued, Transferred, runnerVars, SInv, RowsAnnounced, PendingRows
<1>3. ClosedIsOver'
  BY DEF TransferQueued, Transferred, runnerVars, SInv, ClosedIsOver, PendingRows
<1>4. SteerModes'
  BY DEF TransferQueued, Transferred, runnerVars, locals, SInv, SteerModes
<1>5. Opening'
  BY DEF TransferQueued, Transferred, runnerVars, locals, SInv, Opening
<1>6. Aiming'
  BY DEF TransferQueued, Transferred, SInv, Aiming
<1>7. PausesNoted'
  BY DEF TransferQueued, Transferred, runnerVars, convVars, SInv, PausesNoted
<1>8. RunStatus'
  BY DEF TransferQueued, Transferred, runnerVars, convVars, SInv, RunStatus
<1>9. StoppedFailed'
  BY DEF TransferQueued, Transferred, runnerVars, convVars, SInv, StoppedFailed
<1> QED
  BY <1>1, <1>2, <1>3, <1>4, <1>5, <1>6, <1>7, <1>8, <1>9 DEF SInv

LEMMA SteerEventSInv == ASSUME SInv, NEW k \in Key, SteerEvent(k) PROVE SInv'
<1>1. /\ flags \in Flags /\ flags.generation \in Nat /\ started_generation \in Nat
      /\ flags.mode \in {0, 1, 2}
  BY DEF SInv, TypeOK, Flags
<1>a. /\ pump = "transfer" /\ flags.accept /\ Mode[k] \in {1, 2}
      /\ UNCHANGED <<snapshot, resume, origin, outcome, runner, pump, boundaries,
                     started, stop, status, timeouts>>
  BY SteeringAssumption
  DEF SteerEvent, MaySteer, runnerVars, convVars, QUEUE_PRIORITY, STEER_PRIORITY
<1>b. PICK s \in {"delivered", "pending", "queued"} : row' = [row EXCEPT ![k] = s]
  BY DEF SteerEvent, Steered
<1>c. row' \in [Key -> {"none", "queued", "pending", "delivered"}] /\ row'[k] = s
  BY <1>b DEF SInv, TypeOK
<1>d. PendingRows' \subseteq PendingRows \/ row'[k] = "pending"
  BY <1>b, <1>c DEF SInv, PendingRows
<1>e. \/ /\ OpensSteer(k) \/ RaisesSteer(k)
         /\ started_mode' = Mode[k] /\ active_run' = flags.armed /\ ready' = FALSE
      \/ /\ ~OpensSteer(k) /\ ~RaisesSteer(k)
         /\ UNCHANGED <<flags, started_mode, started_generation, active_run, ready>>
  BY DEF SteerEvent
<1>f. RaisesSteer(k) => ~OpensSteer(k)
  BY DEF OpensSteer, RaisesSteer
<1>g. OpensSteer(k) =>
        /\ flags' = [flags EXCEPT !.turn = TRUE, !.mode = Mode[k], !.interrupted = FALSE,
                                  !.paused = FALSE, !.generation = @ + 1]
        /\ started_generation' = flags'.generation
  BY <1>f DEF SteerEvent
<1>h. RaisesSteer(k) /\ ~OpensSteer(k) =>
        flags' = [flags EXCEPT !.mode = Mode[k]] /\ started_generation' = flags.generation
  BY DEF SteerEvent
\* What the step does to the steer, field by field.
<1>i. flags' \in Flags
  <2>1. CASE OpensSteer(k)
    <3>1. PICK n \in Nat : n = flags.generation + 1
      BY <1>1
    <3>2. [flags EXCEPT !.turn = TRUE, !.mode = Mode[k], !.interrupted = FALSE,
                        !.paused = FALSE, !.generation = n] \in Flags
      BY <1>1, <1>a DEF Flags
    <3> QED
      BY <1>g, <2>1, <3>1, <3>2
  <2>2. CASE RaisesSteer(k)
    <3>1. [flags EXCEPT !.mode = Mode[k]] \in Flags
      BY <1>1, <1>a DEF Flags
    <3> QED
      BY <1>h, <1>f, <2>2, <3>1
  <2> QED
    BY <1>1, <1>e, <2>1, <2>2
<1>j. ASSUME OpensSteer(k)
      PROVE  /\ ~flags.turn /\ flags'.turn /\ flags'.mode = Mode[k]
             /\ flags'.armed = flags.armed /\ flags'.accept = flags.accept
             /\ flags'.error = flags.error
             /\ flags'.generation = flags.generation + 1
             /\ started_generation' = flags.generation + 1
             /\ started_mode' = Mode[k] /\ active_run' = flags.armed /\ ready' = FALSE
  BY <1>1, <1>e, <1>g, <1>j DEF OpensSteer, Flags
<1>k. ASSUME RaisesSteer(k)
      PROVE  /\ flags.turn /\ flags'.turn /\ flags'.mode = Mode[k] /\ Mode[k] > flags.mode
             /\ flags'.armed = flags.armed /\ flags'.accept = flags.accept
             /\ flags'.error = flags.error
             /\ flags'.generation = flags.generation
             /\ flags'.interrupted = flags.interrupted /\ flags'.paused = flags.paused
             /\ started_generation' = flags.generation
             /\ started_mode' = Mode[k] /\ active_run' = flags.armed /\ ready' = FALSE
  BY <1>1, <1>e, <1>h, <1>f, <1>k DEF RaisesSteer, Flags
<1>l. ASSUME ~OpensSteer(k), ~RaisesSteer(k)
      PROVE  UNCHANGED <<flags, started_mode, started_generation, active_run, ready>>
  BY <1>e, <1>l
<1>m. /\ flags'.armed = flags.armed /\ flags'.accept = flags.accept
      /\ flags'.error = flags.error
  BY <1>j, <1>k, <1>l
<1>n. started_generation' \in Nat /\ flags.generation <= flags'.generation
      /\ started_generation' <= flags'.generation
  <2>1. CASE OpensSteer(k)
    BY <1>1, <1>j, <2>1
  <2>2. CASE RaisesSteer(k)
    BY <1>1, <1>k, <2>2
  <2>3. CASE ~OpensSteer(k) /\ ~RaisesSteer(k)
    BY <1>1, <1>l, <2>3 DEF SInv, SteerModes
  <2> QED
    BY <2>1, <2>2, <2>3
<1>2. TypeOK'
  <2>1. started_mode' \in {0, 1, 2}
    BY <1>a, <1>e DEF SInv, TypeOK
  <2>2. active_run' \in BOOLEAN
    BY <1>j, <1>k, <1>l DEF SInv, TypeOK, Flags
  <2>3. ready' \in BOOLEAN
    BY <1>e DEF SInv, TypeOK
  <2> QED
    BY <1>a, <1>c, <1>i, <1>n, <2>1, <2>2, <2>3 DEF SInv, TypeOK
<1>3. RowsAnnounced'
  <2>1. CASE flags'.turn
    BY <1>a, <2>1 DEF SInv, RowsAnnounced
  <2>2. CASE ~flags'.turn
    <3>1. ~flags.turn /\ ~OpensSteer(k)
      BY <1>j, <1>k, <1>l, <2>2
    <3>2. PendingRows' \subseteq PendingRows
      BY <1>d, <3>1 DEF OpensSteer
    <3> QED
      BY <1>a, <3>1, <3>2 DEF SInv, RowsAnnounced
  <2> QED
    BY <2>1, <2>2
<1>4. ClosedIsOver'
  BY <1>a, <1>m DEF ClosedIsOver
<1>5. SteerModes'
  <2>1. flags'.turn <=> flags'.mode # 0
    <3>1. CASE OpensSteer(k) \/ RaisesSteer(k)
      <4>1. flags'.turn = TRUE /\ flags'.mode = Mode[k]
        BY <1>1, <1>j, <1>k, <1>i, <3>1 DEF Flags
      <4>2. Mode[k] # 0
        BY <1>a
      <4> QED
        BY <4>1, <4>2
    <3>2. CASE ~OpensSteer(k) /\ ~RaisesSteer(k)
      BY <1>l, <3>2 DEF SInv, SteerModes
    <3> QED
      BY <3>1, <3>2
  <2>2. /\ runner' \in {"prepare", "await_steer", "read_turn", "deliver"} => ~flags'.armed
        /\ stop' => flags'.error \/ runner' \in {"join", "gone"}
    BY <1>a, <1>m DEF SInv, SteerModes
  <2>3. \A g \in boundaries' : g <= flags'.generation
    <3>1. flags'.generation \in Nat
      BY <1>i DEF Flags
    <3> QED
      BY <1>1, <1>a, <1>n, <3>1 DEF SInv, SteerModes, TypeOK
  <2> QED
    BY <1>n, <2>1, <2>2, <2>3 DEF SteerModes
<1>6. Opening'
  <2>1. CASE OpensSteer(k)
    BY <1>1, <1>a, <1>m, <1>j, <2>1 DEF SInv, Opening, SteerModes
  <2>2. CASE RaisesSteer(k)
    BY <1>1, <1>a, <1>m, <1>k, <2>2 DEF SInv, Opening, SteerModes, QUEUE_PRIORITY
  <2>3. CASE ~OpensSteer(k) /\ ~RaisesSteer(k)
    BY <1>a, <1>l, <2>3 DEF SInv, Opening, SteerModes
  <2> QED
    BY <2>1, <2>2, <2>3
<1>7. Aiming'
  BY <1>a DEF SInv, Aiming
<1>8. PausesNoted'
  <2>1. CASE OpensSteer(k)
    BY <1>a, <1>m, <1>j, <2>1 DEF SInv, PausesNoted
  <2>2. CASE RaisesSteer(k)
    BY <1>a, <1>m, <1>k, <2>2 DEF SInv, PausesNoted
  <2>3. CASE ~OpensSteer(k) /\ ~RaisesSteer(k)
    BY <1>a, <1>l, <2>3 DEF SInv, PausesNoted
  <2> QED
    BY <2>1, <2>2, <2>3
<1>9. RunStatus'
  BY <1>a DEF SInv, RunStatus
<1>10. StoppedFailed'
  BY <1>a, <1>m DEF SInv, StoppedFailed
<1> QED
  BY <1>2, <1>3, <1>4, <1>5, <1>6, <1>7, <1>8, <1>9, <1>10 DEF SInv

LEMMA BoundaryStopsSInv == ASSUME SInv, NEW g \in Nat, BoundaryStops(g) PROVE SInv'
<1>1. TypeOK'
  BY DEF BoundaryStops, BoundaryEnds, runnerVars, pumpVars, locals, SInv, TypeOK
<1>2. RowsAnnounced'
  BY DEF BoundaryStops, BoundaryEnds, runnerVars, SInv, RowsAnnounced, PendingRows
<1>3. ClosedIsOver'
  BY DEF BoundaryStops, BoundaryEnds, runnerVars, SInv, ClosedIsOver, PendingRows
<1>4. SteerModes'
  BY DEF BoundaryStops, BoundaryEnds, runnerVars, pumpVars, locals, SInv, SteerModes
<1>5. Opening'
  BY DEF BoundaryStops, BoundaryEnds, SInv, Opening
<1>6. Aiming'
  BY DEF BoundaryStops, BoundaryEnds, SInv, Aiming
<1>7. PausesNoted'
  BY DEF BoundaryStops, BoundaryEnds, runnerVars, pumpVars, SInv, PausesNoted
<1>8. RunStatus'
  BY DEF BoundaryStops, BoundaryEnds, runnerVars, SInv, RunStatus
<1>9. StoppedFailed'
  BY DEF BoundaryStops, BoundaryEnds, runnerVars, SInv, StoppedFailed
<1> QED
  BY <1>1, <1>2, <1>3, <1>4, <1>5, <1>6, <1>7, <1>8, <1>9 DEF SInv

LEMMA BoundaryGivesUpSInv == ASSUME SInv, NEW g \in Nat, BoundaryGivesUp(g) PROVE SInv'
<1>1. TypeOK'
  BY DEF BoundaryGivesUp, BoundaryEnds, AtBoundary, Superseded, runnerVars, pumpVars,
     locals, SInv, TypeOK
<1>2. RowsAnnounced'
  BY DEF BoundaryGivesUp, BoundaryEnds, AtBoundary, Superseded, runnerVars, SInv,
     RowsAnnounced, PendingRows
<1>3. ClosedIsOver'
  BY DEF BoundaryGivesUp, BoundaryEnds, AtBoundary, Superseded, runnerVars, SInv,
     ClosedIsOver, PendingRows
<1>4. SteerModes'
  BY DEF BoundaryGivesUp, BoundaryEnds, AtBoundary, Superseded, runnerVars, pumpVars,
     locals, SInv, SteerModes
<1>5. Opening'
  BY DEF BoundaryGivesUp, BoundaryEnds, AtBoundary, Superseded, runnerVars, pumpVars,
     locals, SInv, Opening
<1>6. Aiming'
  BY DEF BoundaryGivesUp, BoundaryEnds, AtBoundary, Superseded, runnerVars, pumpVars, SInv,
     Aiming
<1>7. PausesNoted'
  BY DEF BoundaryGivesUp, BoundaryEnds, AtBoundary, Superseded, runnerVars, pumpVars, SInv,
     PausesNoted
<1>8. RunStatus'
  BY DEF BoundaryGivesUp, BoundaryEnds, AtBoundary, Superseded, runnerVars, SInv, RunStatus
<1>9. StoppedFailed'
  BY DEF BoundaryGivesUp, BoundaryEnds, AtBoundary, Superseded, runnerVars, SInv, StoppedFailed
<1> QED
  BY <1>1, <1>2, <1>3, <1>4, <1>5, <1>6, <1>7, <1>8, <1>9 DEF SInv

LEMMA BoundarySignalsSInv == ASSUME SInv, NEW g \in Nat, BoundarySignals(g) PROVE SInv'
<1>1. TypeOK'
  BY DEF BoundarySignals, BoundaryEnds, AtBoundary, Superseded, NothingToPause, runnerVars,
     pumpVars, locals, SInv, TypeOK
<1>2. RowsAnnounced'
  BY DEF BoundarySignals, BoundaryEnds, AtBoundary, Superseded, NothingToPause, runnerVars,
     SInv, RowsAnnounced, PendingRows
<1>3. ClosedIsOver'
  BY DEF BoundarySignals, BoundaryEnds, AtBoundary, Superseded, NothingToPause, runnerVars,
     SInv, ClosedIsOver, PendingRows
<1>4. SteerModes'
  BY DEF BoundarySignals, BoundaryEnds, AtBoundary, Superseded, NothingToPause, runnerVars,
     pumpVars, locals, SInv, SteerModes
<1>5. Opening'
  BY DEF BoundarySignals, BoundaryEnds, AtBoundary, Superseded, NothingToPause, pumpVars,
     locals, SInv, Opening
<1>6. Aiming'
  BY DEF BoundarySignals, BoundaryEnds, AtBoundary, Superseded, NothingToPause, pumpVars,
     SInv, Aiming, QUEUE_PRIORITY, STEER_PRIORITY
<1>7. PausesNoted'
  BY DEF BoundarySignals, BoundaryEnds, AtBoundary, Superseded, NothingToPause, runnerVars,
     pumpVars, SInv, PausesNoted
<1>8. RunStatus'
  BY DEF BoundarySignals, BoundaryEnds, AtBoundary, Superseded, NothingToPause, runnerVars,
     SInv, RunStatus
<1>9. StoppedFailed'
  BY DEF BoundarySignals, BoundaryEnds, AtBoundary, Superseded, NothingToPause, runnerVars,
     SInv, StoppedFailed
<1> QED
  BY <1>1, <1>2, <1>3, <1>4, <1>5, <1>6, <1>7, <1>8, <1>9 DEF SInv

LEMMA BoundaryPausesSInv == ASSUME SInv, NEW g \in Nat, BoundaryPauses(g) PROVE SInv'
<1>1. TypeOK'
  BY DEF BoundaryPauses, BoundaryEnds, AtBoundary, Superseded, runnerVars, pumpVars, locals,
     SInv, TypeOK, Flags
<1>2. RowsAnnounced'
  BY DEF BoundaryPauses, BoundaryEnds, AtBoundary, Superseded, runnerVars, SInv,
     RowsAnnounced, PendingRows
<1>3. ClosedIsOver'
  BY DEF BoundaryPauses, BoundaryEnds, AtBoundary, Superseded, runnerVars, SInv,
     ClosedIsOver, PendingRows
<1>4. SteerModes'
  BY DEF BoundaryPauses, BoundaryEnds, AtBoundary, Superseded, runnerVars, pumpVars, locals,
     SInv, SteerModes
<1>5. Opening'
  BY DEF BoundaryPauses, BoundaryEnds, AtBoundary, Superseded, pumpVars, locals, SInv, Opening
<1>6. Aiming'
  BY DEF BoundaryPauses, BoundaryEnds, AtBoundary, Superseded, pumpVars, SInv, Aiming,
     QUEUE_PRIORITY, STEER_PRIORITY
<1>7. PausesNoted'
  BY DEF BoundaryPauses, BoundaryEnds, AtBoundary, Superseded, runnerVars, SInv,
     PausesNoted, Aiming, SteerModes, QUEUE_PRIORITY
<1>8. RunStatus'
  BY DEF BoundaryPauses, BoundaryEnds, AtBoundary, Superseded, SInv, RunStatus
<1>9. StoppedFailed'
  BY DEF BoundaryPauses, BoundaryEnds, AtBoundary, Superseded, runnerVars, SInv, StoppedFailed
<1> QED
  BY <1>1, <1>2, <1>3, <1>4, <1>5, <1>6, <1>7, <1>8, <1>9 DEF SInv

-----------------------------------------------------------------------------

LEMMA NextSInv == SInv /\ [Next]_steerVars => SInv'
<1> SUFFICES ASSUME SInv, [Next]_steerVars PROVE SInv'
  OBVIOUS
<1>1. ASSUME NEW k \in Key, PostEvent(k) PROVE SInv'
  BY <1>1, UnconcernedSInv
  DEF PostEvent, invVars, runnerVars, pumpVars, locals, convVars
<1>2. CASE Conversation
  <2>1. StepBegins \/ StepEnds => UNCHANGED invVars
    BY DEF StepBegins, StepEnds, invVars, runnerVars, pumpVars, locals
  <2> QED
    BY <1>2, <2>1, UnconcernedSInv, ModelFinishesSInv, RunTimesOutSInv DEF Conversation
<1>3. CASE Pump
  BY <1>3, PumpPollsSInv, PumpStopsSInv, TransferQueuedSInv, SkipSteeringSInv, SteerEventSInv,
     PumpFailsSInv, TransferDoneSInv, InterruptNeedlessSInv, InterruptRunSInv,
     NoteInterruptSInv, TellRunnerSInv
  DEF Pump
<1>4. CASE Runner
  BY <1>4, PrepareRunSInv, LaunchRunSInv, AnnounceRunSInv, RunEndsSInv, FinishRunSInv,
     TakeSteerSInv, ReadTurnSInv, DeliverSteerSInv, StopThreadsSInv, JoinThreadsSInv
  DEF Runner
<1>5. CASE RunRaises
  BY <1>5, RunRaisesSInv
<1>6. ASSUME NEW g \in Nat, Boundary(g) PROVE SInv'
  BY <1>6, BoundaryStopsSInv, BoundaryGivesUpSInv, BoundarySignalsSInv, BoundaryPausesSInv
  DEF Boundary
<1>7. 1..Cardinality(Key) \subseteq Nat
  BY SteeringAssumption, FS_CardinalityType
<1>8. CASE UNCHANGED steerVars
  BY <1>8, UnconcernedSInv
  DEF steerVars, invVars, runnerVars, pumpVars, locals, convVars
<1> QED
  BY <1>1, <1>2, <1>3, <1>4, <1>5, <1>6, <1>7, <1>8 DEF Next

-----------------------------------------------------------------------------

\* The strengthened invariant holds of every behaviour, whatever the number of events
\* and of runs ended from outside: what follows is read off it.
THEOREM SteeringInvariant == Spec => []SInv
<1>1. Init => SInv
  BY InitSInv
<1>2. SInv /\ [Next]_steerVars => SInv'
  BY NextSInv
<1> QED
  BY <1>1, <1>2, PTL DEF Spec

\* A run closes only on an empty turn: when finish_run stops taking steering no steer is
\* open, so every pending row was announced and its delivery is over (RowsAnnounced).
THEOREM ClosedRunIsDrained == Spec => []ClosedRunHasNothingPending
<1>1. SInv => ClosedRunHasNothingPending
  BY DEF SInv, ClosedIsOver, ClosedRunHasNothingPending
<1> QED
  BY <1>1, SteeringInvariant, PTL

\* The pump never interrupts a run later than the one its steer is waiting in: the steer
\* stays undelivered from the moment the pump takes aim (Opening) until the runner is
\* told (Aiming), because nobody else sets steer_ready for a human's message.
THEOREM InterruptsOwnRun == Spec => []InterruptHitsOwnRun
<1>1. SInv => InterruptHitsOwnRun
  BY DEF SInv, Aiming, InterruptHitsOwnRun
<1> QED
  BY <1>1, SteeringInvariant, PTL

\* A pause of the pump's own making never ends the turn as stopped: it is noted before
\* the runner can take the steer (PausesNoted), and the runner resumes.
THEOREM SteeringResumes == Spec => []SteeringNeverEndsRun
<1>1. SInv => SteeringNeverEndsRun
  BY DEF SInv, StoppedFailed, SteeringNeverEndsRun
<1> QED
  BY <1>1, SteeringInvariant, PTL

=============================================================================
