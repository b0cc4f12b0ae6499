---------------------------- MODULE TurnDelivery ----------------------------
(***************************************************************************)
(* One Senpai worker around its durable inbox, for one conversation: the   *)
(* local event store, the controller that moves events into the inbox and  *)
(* runs turns (controller.py), the runner that brings a turn's messages    *)
(* onto the conversation's active branch and decides whether the model     *)
(* has to run (openhands_runner.py, inbox.py), the event pump that steers  *)
(* events into a running turn (advisor.py), the model itself, and crashes. *)
(*                                                                         *)
(* The store, the inbox and the conversation are three files: each step    *)
(* below commits to one of them, and a crash may fall between any two.     *)
(* What the process holds in memory is lost with it.                       *)
(*                                                                         *)
(* The threads of the pump and its interruption of a run are the subject   *)
(* of SteeringPump; here the pump steers while a run accepts steering.     *)
(***************************************************************************)
EXTENDS PersistentInbox, Sequences

CONSTANTS
    conversation,   \* the conversation of this worker
    body,           \* the payload of every event
    MaxFailures,    \* max_consecutive_turn_failures
    MaxCrashes      \* bound: crashes of the process

ASSUME DeliveryAssumption ==
    /\ conversation \in Conversation /\ body \in Body
    /\ MaxFailures \in Nat \ {0} /\ MaxCrashes \in Nat

VARIABLES
    outbox,     \* LocalEventStore: key -> "absent", "posted" or "acked"
    branch,     \* active branch: <<kind, id>> of prompts, rows, tools and the finish
    pc,         \* where the controller thread is
    active,     \* the inbox turn it runs
    reset,      \* this run is the retry with reset_context
    failures,   \* turn_failures of the conversation
    todo,       \* polled events not yet in the inbox
    visible,    \* Controller._visible
    deferred,   \* the conversation is in _deferred_conversations
    cooling,    \* the provider cooldown's retry_at is in the future
    pumping,    \* the event between its inbox row and its store receipt
    crashes     \* crashes so far

memory == <<active, reset, failures, todo, visible, deferred>>
world == <<outbox, branch, cooling, pumping, crashes>>
deliveryVars == <<vars, outbox, branch, pc, memory, cooling, pumping, crashes>>

NoKey == "no key"
Posted == {k \in Key : outbox[k] = "posted"}
KeysOf(t) == {messages[m].key : m \in Events(t)}
AcknowledgedKeys == {k \in Key : HasAcknowledgedEvent(k)}

DeliveryInit ==
    /\ Init
    /\ outbox = [k \in Key |-> "absent"] /\ branch = <<>>
    /\ pc = "acknowledge" /\ active = NoTurn /\ reset = FALSE /\ failures = 0
    /\ todo = {} /\ visible = {} /\ deferred = FALSE
    /\ cooling = FALSE /\ pumping = NoKey /\ crashes = 0

\* A child task, a monitor or the GitHub watcher posts an event: LocalEventStore.enqueue.
PostEvent(k) ==
    /\ outbox[k] = "absent"
    /\ outbox' = [outbox EXCEPT ![k] = "posted"]
    /\ UNCHANGED <<vars, pc, memory, branch, cooling, pumping, crashes>>

-----------------------------------------------------------------------------
(* The controller's cycle: acknowledge, poll, enqueue, select. *)

\* Fault: the receipt is not committed.
StoreReceiptUncommitted(keys) == UNCHANGED outbox
\* LocalEventStore.acknowledge
StoreReceipt(keys) ==
    outbox' = [k \in Key |-> IF k \in keys THEN "acked" ELSE outbox[k]]

\* _acknowledge_processed_turns: the mailbox hears of a turn first ...
AcknowledgeMailbox ==
    /\ pc = "acknowledge"
    /\ \E t \in ProcessedTurns : active' = t /\ StoreReceipt(KeysOf(t))
    /\ pc' = "confirm"
    /\ UNCHANGED <<vars, reset, failures, todo, visible, deferred,
                   branch, cooling, pumping, crashes>>

\* ... and the inbox after it.
AcknowledgeInbox ==
    /\ pc = "confirm"
    /\ Acknowledge(active)
    /\ visible' = visible \cup KeysOf(active)
    /\ pc' = "acknowledge"
    /\ UNCHANGED <<active, reset, failures, todo, deferred, world>>

\* _poll_into_inbox, _new_events: every posted key not seen in the last poll.  A
\* reminder may repeat one that was, unless its kind is edge-triggered.
Poll ==
    /\ pc = "acknowledge" /\ ProcessedTurns = {}
    /\ \E reminders \in SUBSET {k \in Posted \cap visible : ~Once(k)} :
        todo' = (Posted \ visible) \cup reminders
    /\ visible' = Posted
    /\ pc' = "enqueue"
    /\ UNCHANGED <<vars, active, reset, failures, deferred, world>>

\* _enqueue_events: one event, kept out of the inbox when it is suppressed.
EnqueuePolled(k) ==
    /\ pc = "enqueue" /\ k \in todo
    /\ \/ ControllerEvent(conversation, k, body)
       \/ Suppressed(conversation, k) /\ UNCHANGED vars
    /\ todo' = todo \ {k}
    /\ UNCHANGED <<pc, active, reset, failures, visible, deferred, world>>

Polled ==
    /\ pc = "enqueue" /\ todo = {}
    /\ pc' = "select"
    /\ UNCHANGED <<vars, memory, world>>

Selectable == ~cooling /\ ~deferred /\ conversation \in Ready

\* _next_ready_turn: the turn under way, or a new one.
Select ==
    /\ pc = "select" /\ Selectable
    /\ IF ActiveTurns(conversation) # {}
       THEN active' \in ActiveTurns(conversation) /\ UNCHANGED vars
       ELSE NextTurn(conversation) /\ active' = lastTurn'
    /\ reset' = FALSE /\ pc' = "receive"
    /\ UNCHANGED <<failures, todo, visible, deferred, world>>

\* Nothing to run: sleep until the next cycle.
Sleep ==
    /\ pc = "select"
    /\ Selectable => ActiveTurns(conversation) = {} /\ ~MayOpen(conversation)
    /\ pc' = "acknowledge"
    /\ UNCHANGED <<vars, memory, world>>

\* OpenHandsTurnRunner.run: the turn is now the delivery path of its events.
ReceiveTurn ==
    /\ pc = "receive"
    /\ StoreReceipt(KeysOf(active))
    /\ pc' = "open"
    /\ UNCHANGED <<vars, memory, branch, cooling, pumping, crashes>>

-----------------------------------------------------------------------------
(* Bringing a turn onto the branch: run_openhands, _activate_inbox_turn,   *)
(* deliver_turn_messages.                                                  *)

On(b) == {b[i] : i \in DOMAIN b}
Prompt(t) == <<"prompt", t>>
Row(m) == <<"row", m>>
Deliveries(t) == {Prompt(t)} \cup {Row(m) : m \in Events(t)}
Last(b) == IF b = <<>> THEN "nothing" ELSE b[Len(b)][1]

\* recover_turn, as the runner sees it: the next turn of the chain, or quarantine.
Recover(next) ==
    /\ RecoverTurn(active)
    /\ IF lastTurn' > lastTurn
       THEN active' = lastTurn' /\ pc' = next /\ UNCHANGED <<failures, reset>>
       ELSE pc' = "select" /\ failures' = 0 /\ reset' = FALSE /\ UNCHANGED active
    /\ UNCHANGED <<todo, visible, deferred>>

\* The conversation is loaded; a retry with reset_context recovers the turn first.
OpenConversation ==
    /\ pc = "open"
    /\ IF reset THEN Recover("activate") ELSE pc' = "activate" /\ UNCHANGED <<vars, memory>>
    /\ UNCHANGED world

MustReset(t) == ~turns[t].contextReset
RecoveryStarted(t) == On(branch) \cap Deliveries(t) # {}

\* Fault: stay on the branch of the turn that is recovered.
LeavesBranchNever(t) == FALSE
LeavesBranch(t) == MustReset(t) /\ branch # <<>> /\ ~RecoveryStarted(t)

\* navigate_to(None): a recovery starts on an empty branch.
LeaveBranch ==
    /\ pc = "activate" /\ LeavesBranch(active)
    /\ branch' = <<>>
    /\ UNCHANGED <<vars, pc, memory, outbox, cooling, pumping, crashes>>

NoteContextReset ==
    /\ pc = "activate" /\ MustReset(active) /\ ~LeavesBranch(active)
    /\ RecordContextReset(active)
    /\ UNCHANGED <<pc, memory, world>>

\* The messages a turn still has to be given, in the order of their positions.
Missing(t) == {d \in Deliveries(t) : d \notin On(branch)}
Unrecorded(t) ==
    {d \in Deliveries(t) :
        IF d[1] = "prompt" THEN turns[t].prompt = "pending" ELSE messages[d[2]].state = "pending"}
PositionOf(d) == IF d[1] = "prompt" THEN 0 ELSE messages[d[2]].position
IsNext(t, d) ==
    /\ d \in Missing(t) \cup Unrecorded(t)
    /\ \A e \in Missing(t) \cup Unrecorded(t) : PositionOf(d) <= PositionOf(e)

Delivering == pc \in {"activate", "steer"} /\ (pc = "steer" \/ ~MustReset(active))

\* Fault: send what the inbox calls pending, without looking at the branch.
ToSendBlindly(t, d) == d \in Unrecorded(t)
ToSend(t, d) == d \in Missing(t)

\* Fault: write the receipt whether or not the message was sent.
ToRecordFirst(t, d) == d \in Unrecorded(t)
ToRecord(t, d) == d \in Unrecorded(t) /\ d \notin Missing(t)

\* conversation.send_message, unless the sender is on the branch already ...
SendMessage ==
    /\ Delivering
    /\ \E d \in Deliveries(active) :
        IsNext(active, d) /\ ToSend(active, d) /\ branch' = Append(branch, d)
    /\ UNCHANGED <<vars, pc, memory, outbox, cooling, pumping, crashes>>

\* ... then record_delivered.
NoteDelivered ==
    /\ Delivering
    /\ \E d \in Deliveries(active) :
        /\ IsNext(active, d) /\ ToRecord(active, d)
        /\ IF d[1] = "prompt" THEN RecordPromptDelivered(active) ELSE RecordDelivered(d[2])
    /\ UNCHANGED <<pc, memory, world>>

Delivered ==
    /\ Delivering
    /\ Missing(active) = {} /\ Unrecorded(active) = {}
    /\ pc' = IF pc = "steer" THEN "run" ELSE "decide"
    /\ UNCHANGED <<vars, memory, world>>

-----------------------------------------------------------------------------
(* Deciding whether the model has to run, and running it. *)

\* Fault: any finish on the branch will do.
HasFinishedResponseAnywhere(t) == \E i \in DOMAIN branch : branch[i][1] = "finish"
\* turn_has_finished_response: the branch ends with an answer to all of the turn.
HasFinishedResponse(t) == Missing(t) = {} /\ Last(branch) = "finish"

\* _latest_completed_tool_event_id
After(t) ==
    {i \in DOMAIN branch : \A j \in DOMAIN branch : branch[j] \in Deliveries(t) => j < i}
LatestTool(t) ==
    LET tools == {i \in After(t) : branch[i][1] = "tool"} IN
    IF tools = {} \/ Missing(t) # {} THEN NoProgress
    ELSE branch[CHOOSE i \in tools : \A j \in tools : j <= i][2]

ProgressDue(t) == LatestTool(t) \notin {NoProgress, turns[t].progress}

\* The answer was on the branch when a crash or failure cut the turn short.
AdoptResponse ==
    /\ pc = "decide" /\ HasFinishedResponse(active)
    /\ RecordProcessed(active)
    /\ pc' = "succeed"
    /\ UNCHANGED <<memory, world>>

NoteProgress ==
    /\ pc = "decide" /\ ~HasFinishedResponse(active) /\ ProgressDue(active)
    /\ RecordProgress(active, LatestTool(active))
    /\ UNCHANGED <<pc, memory, world>>

Unanswered == pc = "decide" /\ ~HasFinishedResponse(active) /\ ~ProgressDue(active)

RecoverStalled ==
    /\ Unanswered /\ TerminalRecoveryDue(active)
    /\ Recover("activate")
    /\ UNCHANGED world

\* Fault: start the model however often it was started before.
AttemptAllowedAlways(t) == TRUE
AttemptAllowed(t) == ~TerminalRecoveryDue(t)

StartRun ==
    /\ Unanswered /\ AttemptAllowed(active)
    /\ RecordInferenceAttempt(active)
    /\ pc' = "run"
    /\ UNCHANGED <<memory, world>>

\* The model calls a tool that completes, or finishes.
ModelTool ==
    /\ pc = "run"
    /\ \E e \in Progress :
        <<"tool", e>> \notin On(branch) /\ branch' = Append(branch, <<"tool", e>>)
    /\ UNCHANGED <<vars, pc, memory, outbox, cooling, pumping, crashes>>

ModelFinish ==
    /\ pc = "run"
    /\ branch' = Append(branch, <<"finish", active>>)
    /\ pc' = "settle"
    /\ UNCHANGED <<vars, memory, outbox, cooling, pumping, crashes>>

\* The run ends without an answer: a timeout, an iteration limit, a steering pause.
RunStops ==
    /\ pc = "run" /\ pc' = "settle"
    /\ UNCHANGED <<vars, memory, world>>

-----------------------------------------------------------------------------
(* The event pump beside a run, and the end of the run.                    *)

Pumping == pc \in {"run", "settle", "steer"}

\* Fault: write the receipt first.
PumpTakesReceiptFirst(k) ==
    /\ Pumping /\ pumping = NoKey /\ outbox[k] = "posted"
    /\ pumping' = k
    /\ StoreReceipt({k})
    /\ UNCHANGED <<vars, pc, memory, branch, cooling, crashes>>
\* _transfer_to_inbox: the event enters the inbox ...
PumpTakes(k) ==
    /\ Pumping /\ pumping = NoKey /\ outbox[k] = "posted"
    /\ pumping' = k
    /\ \/ PumpEvent(conversation, k, body)
       \/ Suppressed(conversation, k) /\ UNCHANGED vars
    /\ UNCHANGED <<pc, memory, outbox, branch, cooling, crashes>>

\* ... and is then acknowledged in the store.
PumpAcknowledges ==
    /\ pumping # NoKey
    /\ StoreReceipt({pumping})
    /\ pumping' = NoKey
    /\ UNCHANGED <<vars, pc, memory, branch, cooling, crashes>>

\* Fault: finish the run although something was steered into it.
SteeredNever(t) == FALSE
\* The pump has a steered message for the turn.
SteeredInto(t) == HasPending(messages, turns, t)

\* finish_run: steered messages are delivered and the model runs again.
DeliverSteer ==
    /\ pc = "settle" /\ SteeredInto(active)
    /\ pc' = "steer"
    /\ UNCHANGED <<vars, memory, world>>

Settled == pc = "settle" /\ ~SteeredInto(active) /\ pumping = NoKey

RunSucceeds ==
    /\ Settled /\ Last(branch) = "finish"
    /\ RecordProcessed(active)
    /\ pc' = "succeed"
    /\ UNCHANGED <<memory, world>>

\* What a restart finds: nothing in memory but the keys the inbox has acknowledged.
Restarted ==
    /\ pc' = "acknowledge" /\ active' = NoTurn /\ reset' = FALSE /\ failures' = 0
    /\ todo' = {} /\ visible' = AcknowledgedKeys /\ deferred' = FALSE
    /\ pumping' = NoKey

\* A failed turn is tried again in the next cycle; too many in a row end the process.
TurnFails ==
    \/ /\ failures + 1 < MaxFailures
       /\ failures' = failures + 1 /\ reset' = FALSE /\ pc' = "acknowledge"
       /\ UNCHANGED <<active, todo, visible, deferred, pumping>>
    \/ failures + 1 >= MaxFailures /\ Restarted

RunFails ==
    /\ \/ Settled /\ Last(branch) # "finish"
       \/ pc \in {"open", "run", "steer"} /\ pumping = NoKey
    /\ TurnFails
    /\ UNCHANGED <<vars, outbox, branch, cooling, crashes>>

\* A retryable provider failure gives the attempt back and starts the cooldown.
ProviderFails ==
    /\ pc = "run" /\ pumping = NoKey
    /\ DeferProviderRetry(active)
    /\ cooling' = TRUE /\ pc' = "select" /\ reset' = FALSE
    /\ UNCHANGED <<active, failures, todo, visible, deferred, outbox, branch, pumping, crashes>>

\* The conversation's history cannot be used: retry once with reset_context, then
\* leave the conversation alone for a while.
HistoryFails ==
    /\ pc \in {"open", "run"} /\ pumping = NoKey
    /\ IF reset THEN pc' = "select" /\ deferred' = TRUE /\ reset' = FALSE
       ELSE pc' = "open" /\ reset' = TRUE /\ UNCHANGED deferred
    /\ UNCHANGED <<vars, active, failures, todo, visible, world>>

\* The turn ran: _assert_processed, clear_provider_cooldown.
Succeed ==
    /\ pc = "succeed"
    /\ cooldown' = 0 /\ cooling' = FALSE
    /\ failures' = 0 /\ reset' = FALSE /\ pc' = "acknowledge"
    /\ UNCHANGED <<messages, sequence, turns, lastTurn, active, todo, visible, deferred,
                   outbox, branch, pumping, crashes>>

-----------------------------------------------------------------------------
(* Time and crashes. *)

CooldownEnds ==
    /\ cooling /\ cooling' = FALSE
    /\ UNCHANGED <<vars, pc, memory, outbox, branch, pumping, crashes>>

DeferralEnds ==
    /\ deferred /\ deferred' = FALSE
    /\ UNCHANGED <<vars, pc, active, reset, failures, todo, visible, world>>

Crash ==
    /\ crashes < MaxCrashes /\ crashes' = crashes + 1
    /\ Restarted
    /\ UNCHANGED <<vars, outbox, branch, cooling>>

Cycle ==
    AcknowledgeMailbox \/ AcknowledgeInbox \/ Poll \/ (\E k \in Key : EnqueuePolled(k))
        \/ Polled \/ Select \/ Sleep \/ ReceiveTurn

Activation ==
    OpenConversation \/ LeaveBranch \/ NoteContextReset \/ SendMessage \/ NoteDelivered
        \/ Delivered

Run ==
    \/ AdoptResponse \/ NoteProgress \/ RecoverStalled \/ StartRun
    \/ ModelTool \/ ModelFinish \/ RunStops
    \/ DeliverSteer \/ RunSucceeds \/ RunFails \/ ProviderFails \/ HistoryFails
    \/ Succeed

Pump == (\E k \in Key : PumpTakes(k)) \/ PumpAcknowledges

DeliveryNext ==
    \/ \E k \in Key : PostEvent(k)
    \/ Cycle \/ Activation \/ Run \/ Pump
    \/ CooldownEnds \/ DeferralEnds \/ Crash

DeliverySpec == DeliveryInit /\ [][DeliveryNext]_deliveryVars

\* The controller thread keeps going; a running pump finishes what it took; time
\* passes; and the conversation does not fail to load forever.
FairDelivery ==
    /\ DeliverySpec
    /\ WF_deliveryVars(Cycle \/ Activation \/ Run)
    /\ WF_deliveryVars(PumpAcknowledges)
    /\ WF_deliveryVars(CooldownEnds) /\ WF_deliveryVars(DeferralEnds)
    /\ SF_deliveryVars(OpenConversation)

-----------------------------------------------------------------------------
(* Properties. *)

\* A message is put before the model once: whichever step a crash or a failed run
\* interrupts, the branch never carries a delivery twice, so the "duplicate
\* sender" error of deliver_turn_messages is unreachable.
SentOnce ==
    \A i, j \in DOMAIN branch :
        branch[i] = branch[j] /\ branch[i][1] \in {"prompt", "row"} => i = j

\* The receipts do not run ahead of the conversation: what the inbox calls
\* delivered in an open turn, the model can read on the branch.
ReceiptsBacked ==
    \A t \in 1..lastTurn :
        Open(t) => \A d \in Deliveries(t) : d \in Unrecorded(t) \/ d \in On(branch)

\* A turn that counts as processed was answered: every message it holds, those
\* steered in while it ran included, is on the branch with an answer after it.
ProcessedWasAnswered ==
    \A t \in ProcessedTurns :
        /\ Deliveries(t) \subseteq On(branch)
        /\ \E i \in After(t) : branch[i][1] = "finish"

\* A recovery leaves the context it recovers from: once its reset is recorded, no
\* message of a superseded turn is on the branch with it.
RecoveryContextFresh ==
    \A t \in ActiveTurns(conversation) :
        turns[t].recoveryOf # NoTurn /\ turns[t].contextReset =>
            On(branch) \cap Deliveries(turns[t].recoveryOf) = {}

\* The event store lets go of an event only when the inbox has it: a crash between
\* the two files, on either path, loses nothing.
ReceiptCovered ==
    \A k \in Key :
        outbox[k] = "acked" =>
            \/ \E m \in DOMAIN messages : messages[m].key = k /\ Live(m)
            \/ Acknowledged(conversation, k)

\* The controller, the runner and the pump use the inbox only as PersistentInbox
\* allows, so that its theorems hold of the worker: this is PersistentInbox's Spec,
\* with the steps that leave the inbox alone told apart before Next is evaluated.
InboxUsedAsSpecified == Init /\ [][UNCHANGED vars \/ Next]_vars

\* Every event is answered once: the worker implements EventDelivery, crashes,
\* retries, reminders and recoveries included.
AnswersOf(k) ==
    Cardinality({t \in 1..lastTurn : turns[t].acknowledged /\ k \in KeysOf(t)})

Promise == INSTANCE EventDelivery WITH
    posted <- {k \in Key : outbox[k] # "absent"},
    held <- {messages[m].key : m \in {n \in DOMAIN messages : Live(n)}},
    answers <- [k \in Key |-> AnswersOf(k)]

AnsweredOnce == Promise!EventSpec

\* An event that is posted is answered in the end, unless its conversation waits
\* in quarantine for a human, whatever the model and its provider do.
EventSettled ==
    \A k \in Key :
        outbox[k] = "posted" ~>
            \/ outbox[k] = "acked" /\ AnswersOf(k) = 1
            \/ QuarantinedTurns(conversation) # {}

=============================================================================
