---------------------------- MODULE SteeringPump ----------------------------
(***************************************************************************)
(* Steering a running turn (senpai_agent/advisor.py, AdvisorEventPump, and *)
(* arun_steerable_conversation in openhands_runner.py).                    *)
(*                                                                         *)
(* Three kinds of thread meet here.  The runner arms a run, lets the       *)
(* OpenHands conversation work, and delivers what was steered into the     *)
(* turn before it runs the conversation again.  The pump moves events from *)
(* the local store into the inbox turn and stops the run for a human.  A   *)
(* boundary thread, one per generation of queued feedback, pauses the run  *)
(* at the next step.  They share the fields guarded by _steer_lock, two    *)
(* threading.Events (run_started, steer_ready) and the conversation, whose *)
(* state lock an agent step holds.  A critical section is one action.      *)
(*                                                                         *)
(* The inbox is reduced to the state of each event's row in the turn; what *)
(* steer does in full is in PersistentInbox.                               *)
(***************************************************************************)
EXTENDS Naturals, FiniteSets

CONSTANTS
    Key,            \* events
    Mode,           \* ADVISOR_ACTIVE_STEERING_PRIORITIES: 0 (not steered), 1 or 2
    MaxTimeouts     \* bound: runs ended from outside: inactivity, iteration limit

QUEUE_PRIORITY == 1
STEER_PRIORITY == 2

ASSUME SteeringAssumption ==
    /\ Mode \in [Key -> {0, QUEUE_PRIORITY, STEER_PRIORITY}]
    /\ IsFiniteSet(Key) /\ MaxTimeouts \in Nat

VARIABLES
    store,      \* local event store: key -> "absent", "posted" or "acked"
    row,        \* row of the event: "none", "queued", "pending" or "delivered"
    runner,     \* where the runner thread is
    origin,     \* what called _deliver_steer: "prepare" or "finish"
    snapshot,   \* the turn's rows read by deliver_turn_messages
    resume,     \* finish_run will return TRUE whatever the status
    outcome,    \* how the runner left: "none", "finished", "stopped" or "failed"
    pump,       \* where the pump thread is
    batch,      \* events of this transfer not looked at yet
    started_mode, started_generation, active_run,    \* locals of _transfer_to_inbox
    boundaries, \* generations whose boundary thread is alive
    newest,     \* _boundary_thread: the generation of the one started last, or 0
    flags,      \* the fields guarded by _steer_lock: armed, accept, error; turn (whether
                \* _steer_turn_id is set), mode, generation, interrupted and paused of the steer
    started, ready, stop,     \* run_started, steer_ready, stop
    status,     \* of the conversation: "idle", "running", "paused" or "finished"
    stepping,   \* an agent step holds the state lock
    timeouts    \* runs ended from outside so far

locals == <<newest, started_mode, started_generation, active_run>>
pumpVars == <<pump, batch, locals>>
runnerVars == <<runner, origin, snapshot, resume, outcome>>
convVars == <<status, stepping, timeouts>>
steerVars == <<store, row, runnerVars, pumpVars, boundaries, flags, started, ready, stop,
               convVars>>

Init ==
    /\ store = [k \in Key |-> "absent"]
    /\ row \in [Key -> {"none", "delivered"}]
    /\ runner = "prepare" /\ origin = "prepare" /\ snapshot = {} /\ resume = FALSE
    /\ outcome = "none"
    /\ pump = "poll" /\ batch = {}
    /\ started_mode = 0 /\ started_generation = 0 /\ active_run = FALSE
    /\ boundaries = {} /\ newest = 0
    /\ flags = [armed |-> FALSE, accept |-> TRUE, turn |-> FALSE, mode |-> 0,
                generation |-> 0, interrupted |-> FALSE, paused |-> FALSE, error |-> FALSE]
    /\ started = FALSE /\ ready = FALSE /\ stop = FALSE
    /\ status = "idle" /\ stepping = FALSE /\ timeouts = 0

PendingRows == {k \in Key : row[k] = "pending"}

PostEvent(k) ==
    /\ store[k] = "absent"
    /\ store' = [store EXCEPT ![k] = "posted"]
    /\ UNCHANGED <<row, runnerVars, pumpVars, boundaries, flags, started, ready, stop, convVars>>

-----------------------------------------------------------------------------
(* The conversation.  Its status changes under the state lock, which a      *)
(* step holds while it lasts.                                               *)

\* conversation.interrupt(): the run is cancelled, in the middle of a step too.
Interrupt ==
    /\ status' = IF status \in {"idle", "running"} THEN "paused" ELSE status
    /\ stepping' = FALSE

StepBegins ==
    /\ status = "running" /\ ~stepping
    /\ stepping' = TRUE
    /\ UNCHANGED <<store, row, runnerVars, pumpVars, boundaries, flags, started, ready, stop,
                   status, timeouts>>

StepEnds ==
    /\ stepping /\ stepping' = FALSE
    /\ UNCHANGED <<store, row, runnerVars, pumpVars, boundaries, flags, started, ready, stop,
                   status, timeouts>>

\* The last step: the model finishes.
ModelFinishes ==
    /\ stepping /\ stepping' = FALSE /\ status' = "finished"
    /\ UNCHANGED <<store, row, runnerVars, pumpVars, boundaries, flags, started, ready, stop,
                   timeouts>>

\* arun_conversation: one full timeout without activity.
RunTimesOut ==
    /\ runner = "running" /\ status = "running" /\ timeouts < MaxTimeouts
    /\ timeouts' = timeouts + 1
    /\ Interrupt
    /\ UNCHANGED <<store, row, runnerVars, pumpVars, boundaries, flags, started, ready, stop>>

-----------------------------------------------------------------------------
(* The pump: _run, _transfer_to_inbox.                                      *)

\* A new transfer: store.pending().
PumpPolls ==
    /\ pump = "poll" /\ ~stop
    /\ batch' = {k \in Key : store[k] = "posted"} /\ batch' # {}
    /\ started_mode' = 0 /\ started_generation' = 0 /\ active_run' = FALSE
    /\ pump' = "transfer"
    /\ UNCHANGED <<store, row, runnerVars, newest, boundaries, flags, started, ready, stop,
                   convVars>>

PumpStops ==
    /\ pump = "poll" /\ stop
    /\ pump' = "stopped"
    /\ UNCHANGED <<store, row, runnerVars, batch, locals,
                   boundaries, flags, started, ready, stop, convVars>>

\* store.acknowledge, after the event is in the inbox.
Transferred(k) ==
    /\ batch' = batch \ {k}
    /\ store' = [store EXCEPT ![k] = "acked"]

\* An event of a kind that does not steer only queues.
TransferQueued(k) ==
    /\ pump = "transfer" /\ k \in batch /\ Mode[k] = 0
    /\ row' = [row EXCEPT ![k] = IF @ = "none" THEN "queued" ELSE @]
    /\ Transferred(k)
    /\ UNCHANGED <<runnerVars, pump, locals,
                   boundaries, flags, started, ready, stop, convVars>>

\* Fault: steer whatever finish_run decided.
MaySteerAlways == TRUE
MaySteer == flags.accept

\* The run no longer takes steering: the event waits for the controller's poll.
SkipSteering(k) ==
    /\ pump = "transfer" /\ k \in batch /\ Mode[k] # 0 /\ ~MaySteer
    /\ batch' = batch \ {k}
    /\ UNCHANGED <<store, row, runnerVars, pump, locals,
                   boundaries, flags, started, ready, stop, convVars>>

\* What steer makes of a row: queued feedback may find no room in the turn.
Steered(k) ==
    CASE row[k] = "delivered"       -> {"delivered"}
      [] Mode[k] = STEER_PRIORITY   -> {"pending"}
      [] OTHER                      -> {"pending", "queued"}

\* The first row of a steer opens a generation.
OpensSteer(k) == row'[k] = "pending" /\ ~flags.turn
\* Fault: leave it to the boundary when a run is armed.
RaisesSteerIfUnarmed(k) == row'[k] = "pending" /\ flags.turn /\ Mode[k] > flags.mode /\ ~flags.armed
\* A human's raises the mode of queued feedback.
RaisesSteer(k) == row'[k] = "pending" /\ flags.turn /\ Mode[k] > flags.mode

SteerEvent(k) ==
    /\ pump = "transfer" /\ k \in batch /\ Mode[k] # 0 /\ MaySteer
    /\ \E s \in Steered(k) : row' = [row EXCEPT ![k] = s]
    /\ Transferred(k)
    /\ CASE OpensSteer(k) ->
                /\ flags' = [flags EXCEPT !.turn = TRUE, !.mode = Mode[k], !.interrupted = FALSE,
                                          !.paused = FALSE, !.generation = @ + 1]
                /\ started_generation' = flags'.generation
         [] RaisesSteer(k) ->
                /\ flags' = [flags EXCEPT !.mode = Mode[k]]
                /\ started_generation' = flags.generation
         [] OTHER -> UNCHANGED <<flags, started_generation>>
    /\ IF OpensSteer(k) \/ RaisesSteer(k)
       THEN started_mode' = Mode[k] /\ active_run' = flags.armed /\ ready' = FALSE
       ELSE UNCHANGED <<started_mode, active_run, ready>>
    /\ UNCHANGED <<runnerVars, pump, newest, boundaries, started, stop, convVars>>

\* inbox.steer or the store raises: _fail.
FailureInterrupts == ~flags.error /\ flags.armed /\ started
PumpFails ==
    /\ \/ pump = "transfer" /\ batch # {}
       \/ pump = "await_run" /\ started
    /\ flags' = [flags EXCEPT !.error = TRUE]
    /\ ready' = TRUE /\ stop' = TRUE /\ pump' = "stopped"
    /\ IF FailureInterrupts THEN Interrupt ELSE UNCHANGED <<status, stepping>>
    /\ UNCHANGED <<store, row, runnerVars, batch, locals,
                   boundaries, started, timeouts>>

\* The transfer is over: signal the runner, or have the run stopped.
TransferDone ==
    /\ pump = "transfer" /\ batch = {}
    /\ CASE started_mode = 0 \/ ~active_run ->
                /\ ready' = IF started_mode = 0 THEN ready ELSE TRUE
                /\ pump' = "poll" /\ UNCHANGED <<boundaries, newest>>
         [] started_mode = QUEUE_PRIORITY /\ active_run ->
                /\ boundaries' = boundaries \cup {started_generation}
                /\ newest' = started_generation
                /\ pump' = "poll" /\ UNCHANGED ready
         [] started_mode = STEER_PRIORITY /\ active_run ->
                pump' = "await_run" /\ UNCHANGED <<ready, boundaries, newest>>
    /\ UNCHANGED <<store, row, runnerVars, batch, started_mode, started_generation, active_run,
                   flags, started, stop, convVars>>

PumpReady ==
    /\ ready' = TRUE /\ pump' = "poll"
    /\ UNCHANGED <<store, row, runnerVars, batch, locals,
                   boundaries, flags, started, stop>>

\* _interrupt_for_steer: wait until the run is under way, then for the end of the
\* step, and no longer than the grace period.
InterruptNeedless ==
    /\ pump = "await_run" /\ started
    /\ ~stop => ~stepping /\ status = "finished"
    /\ PumpReady
    /\ UNCHANGED convVars

InterruptRun ==
    /\ pump = "await_run" /\ started /\ ~stop
    /\ stepping \/ status # "finished"
    /\ Interrupt
    /\ pump' = "mark"
    /\ UNCHANGED <<store, row, runnerVars, batch, locals,
                   boundaries, flags, started, ready, stop, timeouts>>

\* The interruption is noted, and the runner told.
NoteInterrupt ==
    /\ pump = "mark"
    /\ flags' = [flags EXCEPT !.interrupted = TRUE]
    /\ pump' = "tell"
    /\ UNCHANGED <<store, row, runnerVars, batch, locals,
                   boundaries, started, ready, stop, convVars>>

TellRunner ==
    /\ pump = "tell" /\ PumpReady
    /\ UNCHANGED convVars

-----------------------------------------------------------------------------
(* A boundary thread: _pause_at_boundary.  It looks under the state lock,   *)
(* so between two steps, and under _steer_lock.                             *)

\* Fault: look at the generation only.
SupersededByGeneration(g) == g # flags.generation
Superseded(g) == g # flags.generation \/ flags.mode # QUEUE_PRIORITY

BoundaryEnds(g) ==
    /\ boundaries' = boundaries \ {g}
    /\ UNCHANGED <<store, row, runnerVars, pumpVars, started, stop, stepping, timeouts>>

BoundaryStops(g) ==
    /\ g \in boundaries /\ started /\ stop
    /\ BoundaryEnds(g)
    /\ UNCHANGED <<flags, ready, status>>

AtBoundary(g) == g \in boundaries /\ started /\ ~stepping

BoundaryGivesUp(g) ==
    /\ AtBoundary(g) /\ Superseded(g)
    /\ BoundaryEnds(g)
    /\ UNCHANGED <<flags, ready, status>>

\* Fault: wait for a run that is over.
NothingToPauseIfFinished == status = "finished"
NothingToPause == ~flags.armed \/ status = "finished"

BoundarySignals(g) ==
    /\ AtBoundary(g) /\ ~Superseded(g) /\ NothingToPause
    /\ ready' = TRUE
    /\ BoundaryEnds(g)
    /\ UNCHANGED <<flags, status>>

\* It waits on while an armed run is idle or paused.
BoundaryPauses(g) ==
    /\ AtBoundary(g) /\ ~Superseded(g)
    /\ flags.armed /\ status = "running"
    /\ status' = "paused"
    /\ flags' = [flags EXCEPT !.paused = TRUE]
    /\ ready' = TRUE
    /\ BoundaryEnds(g)

-----------------------------------------------------------------------------
(* The runner: arun_steerable_conversation.                                 *)

RunnerOnly == UNCHANGED <<store, pumpVars, boundaries, timeouts>>

Leave(how) ==
    /\ runner' = "leave" /\ outcome' = how
    /\ UNCHANGED <<origin, snapshot, resume>>

\* prepare_run: arm the run, unless something was steered in before it.
PrepareRun ==
    /\ runner = "prepare" /\ RunnerOnly
    /\ CASE flags.error -> Leave("failed") /\ UNCHANGED <<flags, started>>
         [] ~flags.error /\ flags.turn ->
                /\ runner' = "await_steer" /\ origin' = "prepare"
                /\ UNCHANGED <<snapshot, resume, outcome, flags, started>>
         [] ~flags.error /\ ~flags.turn ->
                /\ flags' = [flags EXCEPT !.armed = TRUE] /\ started' = FALSE
                /\ runner' = "launch"
                /\ UNCHANGED <<origin, snapshot, resume, outcome>>
    /\ UNCHANGED <<row, ready, stop, status, stepping>>

\* arun_conversation: the task starts ...
LaunchRun ==
    /\ runner = "launch" /\ RunnerOnly
    /\ status' = "running" /\ runner' = "announce"
    /\ UNCHANGED <<row, origin, snapshot, resume, outcome, flags, started, ready, stop, stepping>>

\* Fault: run_started overlooks a pump that failed before it.
MissedFailureIgnored == FALSE
MissedFailure == flags.error /\ flags.armed
\* ... and run_started announces it.
AnnounceRun ==
    /\ runner = "announce" /\ RunnerOnly
    /\ started' = TRUE /\ runner' = "running"
    /\ IF MissedFailure THEN Interrupt ELSE UNCHANGED <<status, stepping>>
    /\ UNCHANGED <<row, origin, snapshot, resume, outcome, flags, ready, stop>>

RunEnds ==
    /\ runner = "running" /\ status # "running" /\ ~stepping /\ RunnerOnly
    /\ runner' = "finish"
    /\ UNCHANGED <<row, origin, snapshot, resume, outcome, flags, started, ready, stop,
                   status, stepping>>

\* The run raises: the turn is left as it is.
RunRaises ==
    /\ runner = "running" /\ RunnerOnly
    /\ Leave("failed")
    /\ status' = "paused" /\ stepping' = FALSE
    /\ UNCHANGED <<row, flags, started, ready, stop>>

\* finish_run: close the run to steering, or deliver what was steered.
FinishRun ==
    /\ runner = "finish" /\ RunnerOnly
    /\ IF ~flags.turn
       THEN /\ flags' = [flags EXCEPT !.armed = FALSE, !.accept = FALSE]
            /\ Leave(IF status = "finished" THEN "finished" ELSE "stopped")
       ELSE /\ flags' = [flags EXCEPT !.armed = FALSE]
            /\ runner' = "await_steer" /\ origin' = "finish"
            /\ UNCHANGED <<snapshot, resume, outcome>>
    /\ UNCHANGED <<row, started, ready, stop, status, stepping>>

\* Fault: forget that the pause was the pump's own.
ResumesUnlessPaused == FALSE
Resumes == flags.interrupted \/ flags.paused

\* _deliver_steer: wait for the signal, take the steer, and let the next one in ...
TakeSteer ==
    /\ runner = "await_steer" /\ ready /\ RunnerOnly
    /\ IF flags.error THEN Leave("failed") /\ UNCHANGED <<flags, ready>>
       ELSE /\ resume' = Resumes
            /\ flags' = [flags EXCEPT !.turn = FALSE, !.mode = 0, !.interrupted = FALSE,
                                      !.paused = FALSE]
            /\ ready' = FALSE /\ runner' = "read_turn"
            /\ UNCHANGED <<origin, snapshot, outcome>>
    /\ UNCHANGED <<row, started, stop, status, stepping>>

\* ... then deliver_turn_messages: the rows the turn has now ...
ReadTurn ==
    /\ runner = "read_turn" /\ RunnerOnly
    /\ snapshot' = PendingRows /\ runner' = "deliver"
    /\ UNCHANGED <<row, origin, resume, outcome, flags, started, ready, stop, status, stepping>>

\* ... are sent; a message takes a finished conversation back to idle.
DeliverSteer ==
    /\ runner = "deliver" /\ RunnerOnly
    /\ row' = [k \in Key |-> IF k \in snapshot THEN "delivered" ELSE row[k]]
    /\ status' = IF snapshot # {} /\ status = "finished" THEN "idle" ELSE status
    /\ snapshot' = {} /\ resume' = FALSE
    /\ IF origin = "prepare" \/ resume \/ status' # "paused"
       THEN runner' = "prepare" /\ UNCHANGED outcome
       ELSE runner' = "leave" /\ outcome' = "stopped"
    /\ UNCHANGED <<origin, flags, started, ready, stop, stepping>>

\* __exit__: stop the threads ...
StopThreads ==
    /\ runner = "leave" /\ RunnerOnly
    /\ stop' = TRUE /\ started' = TRUE /\ runner' = "join"
    /\ UNCHANGED <<row, origin, snapshot, resume, outcome, flags, ready, status, stepping>>

\* ... and join them; a failure of the pump is the runner's.
JoinThreads ==
    /\ runner = "join" /\ pump = "stopped" /\ newest \notin boundaries /\ RunnerOnly
    /\ runner' = "gone" /\ outcome' = IF flags.error THEN "failed" ELSE outcome
    /\ UNCHANGED <<row, origin, snapshot, resume, flags, started, ready, stop, status, stepping>>

Conversation == StepBegins \/ StepEnds \/ ModelFinishes \/ RunTimesOut

Pump ==
    \/ PumpPolls \/ PumpStops
    \/ \E k \in Key : TransferQueued(k) \/ SkipSteering(k) \/ SteerEvent(k)
    \/ PumpFails \/ TransferDone
    \/ InterruptNeedless \/ InterruptRun \/ NoteInterrupt \/ TellRunner

Boundary(g) ==
    BoundaryStops(g) \/ BoundaryGivesUp(g) \/ BoundarySignals(g) \/ BoundaryPauses(g)

Runner ==
    PrepareRun \/ LaunchRun \/ AnnounceRun \/ RunEnds \/ FinishRun \/ TakeSteer \/ ReadTurn
        \/ DeliverSteer \/ StopThreads \/ JoinThreads

Next ==
    \/ \E k \in Key : PostEvent(k)
    \/ Conversation \/ Pump \/ Runner \/ RunRaises
    \/ \E g \in 1..Cardinality(Key) : Boundary(g)

Spec == Init /\ [][Next]_steerVars

\* Threads are scheduled, and a boundary thread gets the state lock between two
\* steps in the end (it is a FIFO lock).  Nothing is assumed of the model.
FairThreads ==
    /\ Spec
    /\ WF_steerVars(Pump) /\ WF_steerVars(Runner)
    /\ \A g \in 1..Cardinality(Key) : SF_steerVars(Boundary(g))

\* A step of the agent does not last for ever.
StepsEnd == WF_steerVars(StepEnds \/ ModelFinishes)

-----------------------------------------------------------------------------
(* Properties. *)

\* A run closes only on an empty turn: once finish_run has stopped taking steering,
\* no steered row waits in the turn, so record_processed, which comes next, finds
\* every message delivered however late the pump was.
ClosedRunHasNothingPending == ~flags.accept => PendingRows = {}

\* The pump interrupts the run it steers and no later one: from the moment it takes
\* aim until the runner is told, its steer has not been delivered.
InterruptHitsOwnRun ==
    pump \in {"await_run", "mark", "tell"} /\ ~stop =>
        flags.turn /\ runner \notin {"read_turn", "deliver"}

\* A pause of the pump's own making is not taken for the end of the run: unless a
\* run timed out, the runner leaves finished or failed.
SteeringNeverEndsRun == runner = "gone" /\ timeouts = 0 => outcome # "stopped"

\* A run that did not succeed leaves its turn to the next attempt, which delivers
\* what is still pending in it.
Retried == outcome \in {"failed", "stopped"}

\* A human reaches the model whatever it does: a message steered into the turn is
\* delivered though a step never ends, and though feedback waits for that step.
HumanReachesModel ==
    \A k \in Key :
        Mode[k] = STEER_PRIORITY /\ row[k] = "pending" ~> row[k] = "delivered" \/ Retried

\* Queued feedback reaches it at a step boundary, the end of the run included, if steps end.
FeedbackReachesModel ==
    StepsEnd => \A k \in Key : row[k] = "pending" ~> row[k] = "delivered" \/ Retried

\* A failure of the pump is not lost in its thread: wherever the run was, the runner
\* stops, joins the threads and fails.
PumpFailureSurfaces == flags.error ~> runner = "gone" /\ outcome = "failed"

=============================================================================
