-------------------------- MODULE TrainingMonitor --------------------------
(***************************************************************************)
(* A student's trainings as its worker sees them: the tools that launch,   *)
(* cancel and monitor a run (tools.py), the monitor store with its policy, *)
(* samples, signals and presence markers (monitor.py), the Stop hook that  *)
(* reads the markers (hooks.py), and the controller cycle that polls the   *)
(* monitors and turns signals into inbox messages (controller.py).         *)
(*                                                                         *)
(* Tools run only inside a turn and the controller polls only between      *)
(* turns; the tool calls of one turn overlap each other.  The supervised   *)
(* processes (Training) run on by themselves.  W&B is external: it holds   *)
(* numbered samples of which the odd ones lie beyond the threshold.        *)
(***************************************************************************)
EXTENDS Training

CONSTANTS
    Policies,      \* policies monitor_training may ask for, with a metric gate
    MaxChanges,    \* bound: registrations that change a policy
    MaxSamples,    \* bound: samples W&B logs
    MaxFailures    \* bound: registrations that raise

VARIABLES
    policy,        \* monitors.spec_json
    on,            \* monitors.active
    due,           \* monitors whose next_poll_at is reached
    previous,      \* monitors.previous_sample_json
    baseline,      \* monitors.baseline_sample_json
    registered,    \* how often each policy changed: its registered_at
    marker,        \* the presence markers
    signals,       \* monitor_signals rows
    latest,        \* number of the last sample W&B has
    failures,      \* registrations that raised
    late,          \* calls whose interrupt generation is out of date
    inFlight,      \* _in_flight
    interrupting,  \* runs an interrupt still has to cancel
    hit,           \* history: launches that were interrupted
    stopping,      \* step of a cancel_training call
    answered,      \* history: ends a cancel_training call has told
    upgrading,     \* monitor_training calls that still write their marker
    ctl,           \* step of the controller
    served,        \* the conversation had its turn in this cycle
    open,          \* its inbox turn is not processed
    polling,       \* step of a finished training's poll
    fresh,         \* polled signals to enqueue
    mail,          \* inbox rows of the signals: key -> body and state
    visible        \* Controller._visible

\* All but what the tools change most.
trainingRest == <<phase, crashes, record, runs, leader, group, own, remembered, watch,
                  outcome, active>>
storeVars == <<policy, on, due, previous, baseline, registered, marker, signals>>
storeRest == <<policy, due, previous, baseline, registered, signals>>
launchVars == <<late, inFlight, interrupting, hit>>
toolVars == <<launchVars, stopping, answered, upgrading>>
boxVars == <<fresh, mail, visible>>
turnVars == <<served, open>>
controllerVars == <<ctl, turnVars, polling, boxVars>>
externVars == <<latest, failures>>
vars == <<trainingVars, storeVars, toolVars, controllerVars, externVars>>

Default == "default"
None == "none"
Policy == Policies \cup {Default}

\* Samples and registrations are numbered; sample 0 is NULL.
Beyond(n) == n % 2 = 1

Mail == [body : STRING \X (Policy \cup Ended) \X (0..MaxSamples),
         at : {"waiting", "bound", "processed", "acknowledged"}]

TypeOK ==
    /\ TrainingTypeOK
    /\ policy \in [Training -> Policy \cup {None}] /\ on \in [Training -> BOOLEAN]
    /\ previous \in [Training -> 0..MaxSamples] /\ baseline \in [Training -> 0..MaxSamples]
    /\ latest \in [Training -> 0..MaxSamples]
    /\ registered \in [Training -> 0..MaxChanges]
    /\ due \cup marker \cup late \cup inFlight \cup interrupting \cup hit \subseteq Training
    /\ answered \cup upgrading \subseteq Training
    /\ stopping \in [Training -> {"idle", "cancelling", "unlinking"}]
    /\ ctl \in {"ack", "acked", "poll", "enqueue", "idle", "turn", "ended"}
    /\ polling \in [Training -> {"none", "recorded", "completed"}]
    /\ served \in BOOLEAN /\ open \in BOOLEAN
    /\ failures \in 0..MaxFailures
    /\ fresh \subseteq {s.key : s \in signals}
    /\ \A k \in DOMAIN mail : mail[k] \in Mail
    /\ \A r \in signals, s \in signals : r.key = s.key => r = s

Init ==
    /\ TrainingInit
    /\ policy = [t \in Training |-> None] /\ on = [t \in Training |-> FALSE]
    /\ due = {} /\ marker = {} /\ signals = {}
    /\ previous = [t \in Training |-> 0] /\ baseline = [t \in Training |-> 0]
    /\ latest = [t \in Training |-> 0] /\ registered = [t \in Training |-> 0]
    /\ failures = 0
    /\ late = {} /\ inFlight = {} /\ interrupting = {} /\ hit = {} /\ upgrading = {}
    /\ answered = {}
    /\ stopping = [t \in Training |-> "idle"] /\ polling = [t \in Training |-> "none"]
    /\ ctl = "ack" /\ served = FALSE /\ open = FALSE
    /\ fresh = {} /\ mail = <<>> /\ visible = {}

-----------------------------------------------------------------------------
(* MonitorStore.register. *)

Unchanged(t, p) == on[t] /\ policy[t] = p

\* Fault: the signals of the old policy are kept.
UpsertKeeping(t, p) ==
    IF Unchanged(t, p) THEN UNCHANGED <<policy, on, due, previous, baseline, registered, signals>>
    ELSE /\ policy' = [policy EXCEPT ![t] = p]
         /\ on' = [on EXCEPT ![t] = TRUE]
         /\ due' = due \cup {t}
         /\ previous' = [previous EXCEPT ![t] = 0]
         /\ baseline' = [baseline EXCEPT ![t] = 0]
         /\ registered' = [registered EXCEPT ![t] = IF policy[t] = None THEN 0 ELSE @ + 1]
         /\ UNCHANGED signals
\* A new policy resets samples and signals and is polled at once.
Upsert(t, p) ==
    IF Unchanged(t, p) THEN UNCHANGED <<policy, on, due, previous, baseline, registered, signals>>
    ELSE /\ policy' = [policy EXCEPT ![t] = p]
         /\ on' = [on EXCEPT ![t] = TRUE]
         /\ due' = due \cup {t}
         /\ previous' = [previous EXCEPT ![t] = 0]
         /\ baseline' = [baseline EXCEPT ![t] = 0]
         /\ registered' = [registered EXCEPT ![t] = IF policy[t] = None THEN 0 ELSE @ + 1]
         /\ signals' = {s \in signals : s.key[1] # t}

WriteMarker(t) == marker' = marker \cup {t}

-----------------------------------------------------------------------------
(* The run_training tool. *)

Turning == phase = "up" /\ ctl = "turn"

\* A clean worktree is checked first, then the interrupt generation is read.
Begin(t) ==
    /\ Turning /\ call[t] = "idle" /\ record[t] = "none" /\ leader[t] = "none"
    /\ call' = [call EXCEPT ![t] = "begun"]
    /\ late' = late \ {t}
    /\ UNCHANGED <<trainingRest, cancelled, storeVars, inFlight, interrupting, hit, stopping,
                   answered, upgrading, controllerVars, externVars>>

Launch(t) == Launching(t) /\ UNCHANGED <<storeVars, toolVars, controllerVars, latest, failures>>

\* Fault: the generations are compared before the run is listed in flight.
LaunchedUnlisted(t) ==
    /\ Working /\ call[t] = "watched"
    /\ call' = [call EXCEPT ![t] = IF t \in late THEN "cancelling" ELSE "registering"]
    /\ cancelled' = IF t \in late THEN Flagged(t) ELSE cancelled
    /\ UNCHANGED <<trainingRest, storeVars, toolVars, controllerVars, externVars>>
\* One critical section lists the run and compares the generations.
Launched(t) ==
    /\ Working /\ call[t] = "watched"
    /\ inFlight' = inFlight \cup {t}
    /\ call' = [call EXCEPT ![t] = IF t \in late THEN "cancelling" ELSE "registering"]
    /\ cancelled' = IF t \in late THEN Flagged(t) ELSE cancelled
    /\ UNCHANGED <<trainingRest, storeVars, late, interrupting, hit, stopping, answered,
                   upgrading, controllerVars, externVars>>

LaunchCancelled(t) ==
    /\ Working /\ call[t] = "cancelling" /\ CancelReturns(t)
    /\ call' = [call EXCEPT ![t] = "registering"]
    /\ UNCHANGED <<trainingRest, cancelled, storeVars, toolVars, controllerVars, externVars>>

RegisterDefault(t) ==
    /\ Working /\ call[t] = "registering"
    /\ call' = [call EXCEPT ![t] = "marking"]
    /\ Upsert(t, Default)
    /\ UNCHANGED <<trainingRest, cancelled, marker, toolVars, controllerVars, externVars>>

\* The call returns: the run is no longer in flight.
Returns(t) ==
    /\ call' = [call EXCEPT ![t] = "idle"]
    /\ inFlight' = inFlight \ {t}
    /\ UNCHANGED <<trainingRest, cancelled, storeRest, on, late, interrupting, hit, stopping,
                   answered, upgrading, controllerVars, latest>>

MarkDefault(t) ==
    /\ Working /\ call[t] = "marking"
    /\ WriteMarker(t) /\ Returns(t)
    /\ UNCHANGED failures

\* register raises, before its commit or when it writes the marker.
RegisterRaises(t) ==
    /\ Working /\ call[t] \in {"registering", "marking"} /\ failures < MaxFailures
    /\ failures' = failures + 1
    /\ Returns(t)
    /\ UNCHANGED marker

\* The runner interrupts its conversation: the generation moves on, and the
\* runs in flight are cancelled one after the other.
Interrupt ==
    /\ Turning
    /\ LET launching == {t \in Training : call[t] # "idle"} IN
       /\ launching # {}
       /\ hit' = hit \cup launching
       /\ late' = late \cup {t \in launching : call[t] # "cancelling"}
       /\ interrupting' = interrupting \cup inFlight
    /\ UNCHANGED <<trainingVars, storeVars, inFlight, stopping, answered, upgrading,
                   controllerVars, externVars>>

InterruptCancels(t) ==
    /\ Working /\ t \in interrupting
    /\ interrupting' = interrupting \ {t}
    /\ cancelled' = Flagged(t)
    /\ UNCHANGED <<trainingRest, call, storeVars, late, inFlight, hit, stopping, answered,
                   upgrading, controllerVars, externVars>>

-----------------------------------------------------------------------------
(* The cancel_training and monitor_training tools: both need the row. *)

CancelTool(t) ==
    /\ Turning /\ policy[t] # None /\ stopping[t] = "idle"
    /\ stopping' = [stopping EXCEPT ![t] = "cancelling"]
    /\ cancelled' = Flagged(t)
    /\ UNCHANGED <<trainingRest, call, storeVars, launchVars, answered, upgrading,
                   controllerVars, externVars>>

\* The monitor is completed (monitors.active first, then the marker) when the
\* cancellation has reached a terminal state.
CancelToolCompletes(t) ==
    /\ Working /\ stopping[t] = "cancelling" /\ CancelReturns(t)
    /\ record[t] # "running"
    /\ stopping' = [stopping EXCEPT ![t] = "unlinking"]
    /\ on' = [on EXCEPT ![t] = FALSE]
    /\ answered' = answered \cup {t}
    /\ UNCHANGED <<trainingVars, storeRest, marker, launchVars, upgrading, controllerVars,
                   externVars>>

CancelToolUnlinks(t) ==
    /\ Working /\ stopping[t] = "unlinking"
    /\ stopping' = [stopping EXCEPT ![t] = "idle"]
    /\ marker' = marker \ {t}
    /\ UNCHANGED <<trainingVars, storeRest, on, launchVars, answered, upgrading,
                   controllerVars, externVars>>

MonitorTool(t, p) ==
    /\ Turning /\ policy[t] # None /\ t \notin upgrading
    /\ Unchanged(t, p) \/ registered[t] < MaxChanges
    /\ Upsert(t, p)
    /\ upgrading' = upgrading \cup {t}
    /\ UNCHANGED <<trainingVars, marker, launchVars, stopping, answered, controllerVars,
                   externVars>>

MonitorToolMarks(t) ==
    /\ Working /\ t \in upgrading
    /\ WriteMarker(t)
    /\ upgrading' = upgrading \ {t}
    /\ UNCHANGED <<trainingVars, storeRest, on, launchVars, stopping, answered, controllerVars,
                   externVars>>

-----------------------------------------------------------------------------
(* The turn. *)

Mailed(at) == {k \in DOMAIN mail : mail[k].at = at}
Moved(from, to) ==
    [k \in DOMAIN mail |-> IF mail[k].at = from THEN [mail[k] EXCEPT !.at = to] ELSE mail[k]]

\* Something waits, or a turn that did not finish is still open.
Ready == open \/ Mailed("waiting") # {}

\* next_turn: an open turn is offered again as it is, a new one takes what waits.
Taken == IF open THEN mail ELSE Moved("waiting", "bound")

\* Other events of the conversation start a turn per cycle as well.
StartTurn ==
    /\ phase = "up" /\ ctl = "idle" /\ (served => Ready)
    /\ ctl' = "turn" /\ open' = TRUE
    /\ mail' = Taken
    /\ UNCHANGED <<trainingVars, storeVars, toolVars, served, polling, fresh, visible,
                   externVars>>

NoTool == upgrading = {} /\ \A t \in Training : call[t] = "idle" /\ stopping[t] = "idle"

\* Fault: the hook reads no marker.
StopUnchecked == TRUE
\* The Stop hook: every running training has a marker.
StopPolicy == \A t \in Training : record[t] = "running" => t \in marker

\* A turn is over when its tool calls are (the event loop joins their threads).
TurnOver == Turning /\ NoTool /\ interrupting = {}

\* The agent finishes, which takes the Stop hook: the turn is processed.
EndTurn ==
    /\ TurnOver /\ StopPolicy
    /\ ctl' = "ack" /\ served' = TRUE /\ open' = FALSE
    /\ mail' = Moved("bound", "processed")
    /\ UNCHANGED <<trainingVars, storeVars, toolVars, polling, fresh, visible, externVars>>

\* Every other end asks no hook and leaves the turn open for a later cycle: the
\* deadline interrupts the conversation, the turn raises, its history cannot be
\* restored, the provider asks for a pause.  A cycle in which an open turn is
\* deferred or in quarantine is one whose turn fails before it does anything.  (The limit of consecutive failures
\* only decides when the controller gives up, which Shutdown may at any time.)
TurnFails ==
    /\ TurnOver
    /\ ctl' = "ack" /\ served' = FALSE
    /\ UNCHANGED <<trainingVars, storeVars, toolVars, open, polling, boxVars, externVars>>

-----------------------------------------------------------------------------
(* The controller between turns: acknowledge, poll, enqueue. *)

\* Fault: only hard failures are acknowledged.
AcknowledgeFailures ==
    /\ phase = "up" /\ ctl = "ack"
    /\ ctl' = "acked"
    /\ LET failed == {s \in signals : s.body[2] # "finished"}
       IN  signals' = {[s EXCEPT !.handled = @ \/ (s.key \in Mailed("processed") /\ s \in failed)] :
                          s \in signals}
    /\ \E passed \in SUBSET {t \in Training : on[t] /\ ~served} : due' = due \cup passed
    /\ UNCHANGED <<trainingVars, policy, on, previous, baseline, registered, marker, toolVars,
                   turnVars, polling, boxVars, externVars>>
\* MonitorMailbox.acknowledge for the keys of processed turns (by a new cycle
\* the poll intervals of some monitors have passed) ...
AcknowledgeSignals ==
    /\ phase = "up" /\ ctl = "ack"
    /\ ctl' = "acked"
    /\ signals' = {[s EXCEPT !.handled = @ \/ s.key \in Mailed("processed")] : s \in signals}
    /\ \E passed \in SUBSET {t \in Training : on[t] /\ ~served} : due' = due \cup passed
    /\ UNCHANGED <<trainingVars, policy, on, previous, baseline, registered, marker, toolVars,
                   turnVars, polling, boxVars, externVars>>

\* ... and then the inbox is told.
AcknowledgeTurn ==
    /\ phase = "up" /\ ctl = "acked"
    /\ ctl' = "poll"
    /\ visible' = visible \cup Mailed("processed")
    /\ mail' = Moved("processed", "acknowledged")
    /\ UNCHANGED <<trainingVars, storeVars, toolVars, turnVars, polling, fresh, externVars>>

Key(t, kind, n, m) == <<t, kind, n, m>>
Body(what, value, n) == <<what, value, n>>
\* Fault: INSERT without OR IGNORE.
RecordedAgain(new) ==
    signals \cup {[key |-> s[1], body |-> s[2], handled |-> FALSE] : s \in new}
\* INSERT OR IGNORE: the row of a key that was signalled already is kept.
Recorded(new) ==
    signals \cup {[key |-> s[1], body |-> s[2], handled |-> FALSE] :
                    s \in {x \in new : \A r \in signals : r.key # x[1]}}

\* What get_training_status reports: both recovered states are CANCELLED.
Told(t) == IF record[t] \in Recovered THEN "cancelled" ELSE record[t]

\* _gate_crossed for sample n: a threshold is crossed from the previous
\* sample, an improvement is measured from the baseline.
Crossed(t, n) ==
    CASE policy[t] = "above" -> Beyond(n) /\ (previous[t] = 0 \/ ~Beyond(previous[t]))
      [] policy[t] = "gain"  -> Beyond(n) /\ baseline[t] # 0 /\ ~Beyond(baseline[t])
      [] OTHER -> FALSE

Last(n, m) == IF n # 0 THEN n ELSE m

GateSignals(t, n) ==
    IF n # 0 /\ Crossed(t, n)
    THEN {<<Key(t, "gate", 0, 0), Body("gate", policy[t], n)>>} ELSE {}

\* No update for too long: the key carries the time of the last one.
StaleSignals(t, n, tooOld) ==
    LET last == Last(n, previous[t]) IN
    IF policy[t] # Default /\ tooOld
    THEN {<<Key(t, "stale", last, IF last = 0 THEN registered[t] ELSE 0),
            Body("stale", policy[t], last)>>} ELSE {}

Polling(t) == phase = "up" /\ ctl = "poll" /\ t \in due /\ on[t] /\ polling[t] = "none"

\* One poll of a running training (evaluate_monitor, record_poll).
PollRunning(t) ==
    /\ Polling(t) /\ record[t] = "running"
    /\ \E tooOld \in BOOLEAN :
          LET n == IF policy[t] # Default /\ runs[t] THEN latest[t] ELSE 0 IN
          /\ signals' = Recorded(GateSignals(t, n) \cup StaleSignals(t, n, tooOld))
          /\ previous' = [previous EXCEPT ![t] = Last(n, @)]
          /\ baseline' = [baseline EXCEPT ![t] = IF @ # 0 THEN @ ELSE Last(n, previous[t])]
    /\ due' = due \ {t}
    /\ UNCHANGED <<trainingVars, policy, on, registered, marker, toolVars, controllerVars,
                   externVars>>

\* The metric lookup raises (record_poll_error).
PollFails(t) ==
    /\ Polling(t) /\ record[t] = "running" /\ policy[t] # Default /\ runs[t]
    /\ signals' = Recorded({<<Key(t, "error", 0, 0), Body("error", policy[t], 0)>>})
    /\ due' = due \ {t}
    /\ UNCHANGED <<trainingVars, policy, on, previous, baseline, registered, marker, toolVars,
                   controllerVars, externVars>>

\* Fault: only failures are told.
PollHardEnd(t) ==
    /\ Polling(t) /\ record[t] \in Terminal
    /\ signals' = Recorded(IF Told(t) = "finished" THEN {}
                           ELSE {<<Key(t, Told(t), 0, 0), Body("status", Told(t), 0)>>})
    /\ previous' = [previous EXCEPT ![t] = 0]
    /\ due' = due \ {t}
    /\ polling' = [polling EXCEPT ![t] = "recorded"]
    /\ UNCHANGED <<trainingVars, policy, on, baseline, registered, marker, toolVars, ctl,
                   turnVars, boxVars, externVars>>
\* A training that ended: its signal is committed, then the monitor completed.
PollEnded(t) ==
    /\ Polling(t) /\ record[t] \in Terminal
    /\ signals' = Recorded({<<Key(t, Told(t), 0, 0), Body("status", Told(t), 0)>>})
    /\ previous' = [previous EXCEPT ![t] = 0]
    /\ due' = due \ {t}
    /\ polling' = [polling EXCEPT ![t] = "recorded"]
    /\ UNCHANGED <<trainingVars, policy, on, baseline, registered, marker, toolVars, ctl,
                   turnVars, boxVars, externVars>>

\* Fault: only a training that finished is completed.
CompleteFinished(t) ==
    /\ phase = "up" /\ polling[t] = "recorded"
    /\ on' = [on EXCEPT ![t] = record[t] # "finished"]
    /\ polling' = [polling EXCEPT ![t] = "completed"]
    /\ UNCHANGED <<trainingVars, storeRest, marker, toolVars, ctl, turnVars, boxVars,
                   externVars>>

CompleteRow(t) ==
    /\ phase = "up" /\ polling[t] = "recorded"
    /\ on' = [on EXCEPT ![t] = FALSE]
    /\ polling' = [polling EXCEPT ![t] = "completed"]
    /\ UNCHANGED <<trainingVars, storeRest, marker, toolVars, ctl, turnVars, boxVars,
                   externVars>>

CompleteMarker(t) ==
    /\ phase = "up" /\ polling[t] = "completed"
    /\ marker' = marker \ {t}
    /\ polling' = [polling EXCEPT ![t] = "none"]
    /\ UNCHANGED <<trainingVars, storeRest, on, toolVars, ctl, turnVars, boxVars, externVars>>

Pending == {s.key : s \in {r \in signals : ~r.handled}}

\* _new_events: keys not seen in the last poll, and, but for the poll after a
\* turn, reminders that are due.
NewEvents(reminders) ==
    /\ phase = "up" /\ ctl = "poll" /\ (reminders => ~served)
    /\ \A t \in Training : polling[t] = "none" /\ (on[t] => t \notin due)
    /\ ctl' = "enqueue"
    /\ fresh' = IF reminders THEN Pending ELSE Pending \ visible
    /\ visible' = Pending
    /\ UNCHANGED <<trainingVars, storeVars, toolVars, turnVars, polling, mail, externVars>>

\* _enqueue_events: a key keeps the body it had first, a message that is not
\* yet acknowledged is not repeated.
Accepts(s) == s.key \in DOMAIN mail => mail[s.key].body = s.body

Enqueue(s) ==
    /\ phase = "up" /\ ctl = "enqueue" /\ s.key \in fresh /\ Accepts(s)
    /\ fresh' = fresh \ {s.key}
    /\ mail' = [k \in DOMAIN mail \cup {s.key} |->
                  IF k # s.key \/ (k \in DOMAIN mail /\ mail[k].at # "acknowledged") THEN mail[k]
                  ELSE [body |-> s.body, at |-> "waiting"]]
    /\ UNCHANGED <<trainingVars, storeVars, toolVars, ctl, turnVars, polling, visible,
                   externVars>>

\* The inbox raises EventPayloadConflict: the controller ends, and closes the
\* trainings on its way out.
Refused(s) ==
    /\ ctl = "enqueue" /\ s.key \in fresh /\ ~Accepts(s)
    /\ Close /\ UNCHANGED crashes
    /\ ctl' = "ended"
    /\ UNCHANGED <<storeVars, toolVars, turnVars, polling, boxVars, externVars>>

EnqueueDone ==
    /\ phase = "up" /\ ctl = "enqueue" /\ fresh = {}
    /\ ctl' = "idle"
    /\ UNCHANGED <<trainingVars, storeVars, toolVars, turnVars, polling, boxVars, externVars>>

\* Nothing is left to serve; the controller sleeps until its next cycle.
Cycle ==
    /\ phase = "up" /\ ctl = "idle" /\ ~Ready
    /\ ctl' = "ack" /\ served' = FALSE
    /\ UNCHANGED <<trainingVars, storeVars, toolVars, open, polling, boxVars, externVars>>

-----------------------------------------------------------------------------
(* The worker's life. *)

Lost ==
    /\ late' = {} /\ inFlight' = {} /\ interrupting' = {} /\ hit' = {} /\ upgrading' = {}
    /\ UNCHANGED answered
    /\ stopping' = [t \in Training |-> "idle"] /\ polling' = [t \in Training |-> "none"]
    /\ fresh' = {} /\ ctl' = "ack" /\ served' = FALSE
    /\ visible' = Mailed("acknowledged")
    /\ UNCHANGED <<storeVars, open, mail, externVars>>

\* The worker is stopped, or its controller gives up: the failed turn at the
\* limit, a provider failure that no retry mends.
Shutdown ==
    /\ crashes < MaxCrashes /\ crashes' = crashes + 1
    /\ Close
    /\ ctl' = "ended"
    /\ UNCHANGED <<storeVars, toolVars, turnVars, polling, boxVars, externVars>>

Ends == NoTool /\ Exit /\ Lost
Dies == Crash /\ Lost

Background ==
    /\ \/ \E t \in Training : Watching(t) \/ Processes(t) \/ RecoverRun(t)
       \/ Remember \/ Restart \/ RecoveryDone
    /\ UNCHANGED <<storeVars, toolVars, controllerVars, externVars>>

LogSample(t) ==
    /\ leader[t] = "alive" /\ runs[t] /\ latest[t] < MaxSamples
    /\ latest' = [latest EXCEPT ![t] = @ + 1]
    /\ UNCHANGED <<trainingVars, storeVars, toolVars, controllerVars, failures>>

LaunchTool(t) ==
    Launch(t) \/ Launched(t) \/ LaunchCancelled(t) \/ RegisterDefault(t) \/ MarkDefault(t)
CancelEnds(t) == CancelToolCompletes(t) \/ CancelToolUnlinks(t)

Controlling ==
    \/ AcknowledgeSignals \/ AcknowledgeTurn \/ NewEvents(FALSE) \/ EnqueueDone \/ Cycle
    \/ \E t \in Training : PollRunning(t) \/ PollEnded(t) \/ CompleteRow(t) \/ CompleteMarker(t)
    \/ \E s \in signals : Enqueue(s) \/ Refused(s)

Next ==
    \/ Controlling \/ StartTurn \/ EndTurn \/ TurnFails \/ NewEvents(TRUE)
    \/ \E t \in Training : \/ Begin(t) \/ LaunchTool(t) \/ RegisterRaises(t)
                           \/ InterruptCancels(t)
                           \/ CancelTool(t) \/ CancelEnds(t) \/ MonitorToolMarks(t)
                           \/ \E p \in Policy : MonitorTool(t, p)
                           \/ PollFails(t) \/ LogSample(t)
    \/ Interrupt \/ Background \/ Shutdown \/ Ends \/ Dies

\* Threads run, the supervisor restarts the worker, every turn ends (at its
\* deadline if the Stop hook goes on denying), one that could finish again and
\* again does in the end (before the inbox gives it up), an open turn or a
\* waiting signal gets a turn, and a reminder falls due.  The training itself,
\* its tools and W&B owe nothing.
Fairness ==
    /\ WF_vars(Controlling)
    /\ WF_vars(StartTurn /\ Ready) /\ SF_vars(EndTurn \/ TurnFails) /\ SF_vars(EndTurn)
    /\ SF_vars(NewEvents(TRUE))
    /\ WF_vars(Ends)
    /\ WF_vars(/\ Restart \/ RecoveryDone \/ \E t \in Training : RecoverRun(t)
               /\ UNCHANGED <<storeVars, toolVars, controllerVars, externVars>>)
    /\ \A t \in Training :
          /\ WF_vars(LaunchTool(t)) /\ WF_vars(CancelEnds(t))
          /\ WF_vars(InterruptCancels(t)) /\ WF_vars(MonitorToolMarks(t))
          /\ WF_vars(/\ Watching(t)
                     /\ UNCHANGED <<storeVars, toolVars, controllerVars, externVars>>)

Spec == Init /\ [][Next]_vars /\ Fairness

-----------------------------------------------------------------------------
(* Properties. *)

\* No turn passes for processed over a training that runs unwatched.  Such a
\* training has no monitor row: its registration raised, the Stop hook denies,
\* and the turn, which only the deadline or an error then ends, stays open.
UnwatchedKeepsTurnOpen ==
    \A t \in Training :
        phase = "up" /\ record[t] = "running" /\ ~on[t] =>
            open /\ (ctl = "turn" \/ policy[t] = None)

\* What the Stop hook tells the student whose stop it denies: "call
\* monitor_training to repair it before finishing" (hooks.py:604-607).
DeniedIsRepairable ==
    \A t \in Training :
        TurnOver /\ record[t] = "running" /\ t \notin marker =>
            ENABLED (\E p \in Policy : MonitorTool(t, p))

\* A launch the runner interrupted does not leave its training behind: once the
\* call is back and the interrupt has done its cancellations, the run is being
\* stopped or is over.
InterruptedIsCancelled ==
    \A t \in hit :
        call[t] = "idle" /\ t \notin interrupting /\ record[t] = "running" => t \in cancelled

\* A monitor that was completed, other than by cancel_training, has told how
\* its training ended, whatever crash came in between.
CompletedWasTold ==
    \A t \in Training :
        policy[t] # None /\ ~on[t] =>
            \/ \E s \in signals : s.key = Key(t, Told(t), 0, 0)
            \/ t \in answered

\* What a policy signalled is gone once the policy is another: "a changed
\* monitor policy resets its derived samples and signals" (SPEC.md:636).
SignalsOfPolicy ==
    \A s \in signals :
        s.key[2] \in {"gate", "stale", "error"} => s.body[2] = policy[s.key[1]]

Refusable == \E s \in signals : ~s.handled /\ ~Accepts(s)

\* Signals do not pile up: again and again all that were written are handled in
\* a turn or withdrawn by a new policy, unless the inbox refuses one.
HandledUnlessRefused == []<>(Pending = {} \/ Refusable)

\* "Every persisted actionable signal directly creates a compact
\* training_monitor wake" (SPEC.md:640) that a turn then handles.
SignalIsHandled == []<>(Pending = {})
=============================================================================
