-------------------------- MODULE PersistentInbox --------------------------
(***************************************************************************)
(* The durable inbox of one Senpai worker (senpai_agent/inbox.py): events  *)
(* that wait for a model turn, the turns they are bound to, and the        *)
(* recovery, quarantine and acknowledgement of those turns.                *)
(*                                                                         *)
(* The inbox is an SQLite database and every public operation is one       *)
(* BEGIN IMMEDIATE transaction, so an operation is one action.  An         *)
(* operation that raises rolls back: it is a step that is not taken.  A    *)
(* crash loses nothing of this state; what it interrupts lives in the      *)
(* modules that compose this one.                                          *)
(*                                                                         *)
(* Rows of inbox_messages with an event key are `messages`; the one row    *)
(* without a key that opens each turn is the field `prompt` of the turn.   *)
(* Identifiers are row numbers.  The migration ledger of an older release  *)
(* (legacy_deliveries) is empty, as in every database born in this one.    *)
(***************************************************************************)
EXTENDS Integers, FiniteSets, FiniteSetsExt

CONSTANTS
    Conversation,      \* conversation identities
    Key,               \* event dedupe keys
    Body,              \* event payloads
    Kind,              \* the kind of event a key names
    Size,              \* the bytes of a payload
    MaxEvents,         \* MAX_EVENTS_PER_TURN
    MaxBytes,          \* MAX_EVENT_BYTES_PER_TURN
    MaxStalled,        \* inbox_max_stalled_attempts
    MaxAttempts,       \* MAX_INFERENCE_ATTEMPTS_PER_TURN
    MaxGenerations,    \* inbox_max_recovery_generations
    Progress,          \* identities of completed tool observations
    MaxTurns,          \* bound: turns created
    MaxMessages,       \* bound: message rows created
    MaxCooldown        \* bound: consecutive provider failures counted

EventKind == {"human", "feedback", "review", "assignment", "availability", "plain"}

ASSUME InboxAssumption ==
    /\ Kind \in [Key -> EventKind]
    /\ Size \in [Body -> Nat]
    /\ MaxEvents \in Nat \ {0} /\ MaxBytes \in Nat \ {0}
    /\ MaxStalled \in Nat \ {0} /\ MaxAttempts \in Nat \ {0}
    /\ MaxGenerations \in Nat
    /\ MaxTurns \in Nat /\ MaxMessages \in Nat /\ MaxCooldown \in Nat

VARIABLES
    messages,   \* row number -> event message
    sequence,   \* last row number given out (AUTOINCREMENT)
    turns,      \* turn number -> turn; turn numbers are 1 .. lastTurn
    lastTurn,   \* number of the newest turn
    cooldown    \* failure_count of the provider cooldown, 0 when there is none

vars == <<messages, sequence, turns, lastTurn, cooldown>>

NoTurn == 0
NoProgress == "none"
DeliveryState == {"pending", "delivered", "processed"}

QUEUE_PRIORITY == 1
STEER_PRIORITY == 2

Message == [conv : Conversation, key : Key, body : Body, state : DeliveryState,
            priority : 0..2, turn : Nat, position : Nat]

Turn == [conv : Conversation, state : DeliveryState, prompt : DeliveryState,
         recoveryOf : Nat, supersededBy : Nat, contextReset : BOOLEAN,
         acknowledged : BOOLEAN, stalled : Nat, attempts : Nat,
         progress : Progress \cup {NoProgress}, generation : Nat,
         quarantined : BOOLEAN]

TypeOK ==
    /\ sequence \in Nat /\ lastTurn \in Nat /\ cooldown \in Nat
    /\ IsFiniteSet(DOMAIN messages) /\ DOMAIN messages \subseteq 1..sequence
    /\ messages \in [DOMAIN messages -> Message]
    /\ turns \in [1..lastTurn -> Turn]
    /\ \A m \in DOMAIN messages : messages[m].turn \in 0..lastTurn
    /\ \A t \in 1..lastTurn : turns[t].supersededBy \in 0..lastTurn

-----------------------------------------------------------------------------
(* The queries the operations are built from. *)

Put(rows, id, row) == [x \in DOMAIN rows \cup {id} |-> IF x = id THEN row ELSE rows[x]]

\* EXACT_ONCE_EVENT_KINDS: a human message is answered by one conversation only.
Once(k) == Kind[k] = "human"

Events(t) == {m \in DOMAIN messages : messages[m].turn = t}

\* A turn that still has to be finished and acknowledged.
Open(t) == ~turns[t].acknowledged /\ turns[t].supersededBy = NoTurn

Live(m) == messages[m].turn = NoTurn \/ Open(messages[m].turn)

InScope(m, c, k) == messages[m].key = k /\ (Once(k) \/ messages[m].conv = c)

\* Fault: compare only with the rows still waiting.
PayloadConflictQueued(c, k, b) ==
    \E m \in DOMAIN messages : InScope(m, c, k) /\ Live(m) /\ messages[m].body # b
PayloadConflict(c, k, b) ==
    \E m \in DOMAIN messages : InScope(m, c, k) /\ messages[m].body # b

\* Fault: forget the rows a turn already holds.
LiveMessagesUnattached(c, k) ==
    {m \in DOMAIN messages : InScope(m, c, k) /\ messages[m].turn = NoTurn}
LiveMessages(c, k) == {m \in DOMAIN messages : InScope(m, c, k) /\ Live(m)}

HasAcknowledgedEvent(k) ==
    \E m \in DOMAIN messages :
        /\ messages[m].key = k
        /\ messages[m].turn # NoTurn /\ turns[messages[m].turn].acknowledged

\* The newest live row of the key, or the row about to be inserted.
QueuedRow(c, k) ==
    IF LiveMessages(c, k) = {} THEN sequence + 1
    ELSE CHOOSE m \in LiveMessages(c, k) : \A n \in LiveMessages(c, k) : n <= m

\* Fault: forget the events acknowledged before.
SuppressedElsewhere(c, k) ==
    Once(k) /\ LiveMessages(c, k) # {} /\ messages[QueuedRow(c, k)].conv # c
\* A once-only event that another conversation holds, or that was handled.
Suppressed(c, k) ==
    /\ Once(k)
    /\ IF LiveMessages(c, k) = {} THEN HasAcknowledgedEvent(k)
       ELSE messages[QueuedRow(c, k)].conv # c

UnfinishedTurns(c, quarantined) ==
    {t \in 1..lastTurn :
        /\ turns[t].conv = c /\ Open(t) /\ turns[t].state # "processed"
        /\ turns[t].quarantined = quarantined}
ActiveTurns(c) == UnfinishedTurns(c, FALSE)
QuarantinedTurns(c) == UnfinishedTurns(c, TRUE)
ProcessedTurns == {t \in 1..lastTurn : Open(t) /\ turns[t].state = "processed"}

Bytes(S) == MapThenSumSet(LAMBDA m : Size[messages[m].body], S)

HasPending(ms, ts, t) ==
    ts[t].prompt = "pending" \/ \E m \in DOMAIN ms : ms[m].turn = t /\ ms[m].state = "pending"

\* _refresh_turn_state: a turn is delivered once none of its messages is pending.
Refreshed(ms, ts, t) ==
    IF ts[t].state = "pending" /\ ~HasPending(ms, ts, t)
    THEN [ts EXCEPT ![t].state = "delivered"] ELSE ts

\* Fault: every turn, a recovery too, starts at generation 0.
NewTurnUncounted(c, predecessor, gen) ==
    [conv |-> c, state |-> "pending", prompt |-> "pending",
     recoveryOf |-> predecessor, supersededBy |-> NoTurn,
     contextReset |-> predecessor = NoTurn, acknowledged |-> FALSE,
     stalled |-> 0, attempts |-> 0, progress |-> NoProgress,
     generation |-> 0, quarantined |-> FALSE]
NewTurn(c, predecessor, gen) ==
    [conv |-> c, state |-> "pending", prompt |-> "pending",
     recoveryOf |-> predecessor, supersededBy |-> NoTurn,
     contextReset |-> predecessor = NoTurn, acknowledged |-> FALSE,
     stalled |-> 0, attempts |-> 0, progress |-> NoProgress,
     generation |-> gen, quarantined |-> FALSE]

-----------------------------------------------------------------------------
(* Accepting events. *)

\* _enqueue: keep the live row of the key, with the higher priority, or insert one.
Queued(c, k, b, p) ==
    LET row == QueuedRow(c, k) IN
    IF LiveMessages(c, k) = {}
    THEN Put(messages, row,
             [conv |-> c, key |-> k, body |-> b, state |-> "pending",
              priority |-> p, turn |-> NoTurn, position |-> 0])
    ELSE IF p > messages[row].priority
         THEN [messages EXCEPT ![row].priority = p] ELSE messages

Accepts(c, k, b) ==
    /\ QueuedRow(c, k) <= MaxMessages
    /\ ~PayloadConflict(c, k, b)
    /\ ~Suppressed(c, k)

Enqueue(c, k, b, p) ==
    /\ Accepts(c, k, b)
    /\ messages' = Queued(c, k, b, p)
    /\ sequence' = IF QueuedRow(c, k) > sequence THEN sequence + 1 ELSE sequence
    /\ UNCHANGED <<turns, lastTurn, cooldown>>

HasCapacityFor(t, b) ==
    /\ Cardinality(Events(t)) < MaxEvents
    /\ Events(t) = {} \/ Bytes(Events(t)) + Size[b] <= MaxBytes

\* The turn a steered event joins: the active one; for a human event, failing
\* that, the quarantined one.
SteerTargets(c, p) ==
    IF ActiveTurns(c) # {} THEN ActiveTurns(c)
    ELSE IF p = STEER_PRIORITY THEN QuarantinedTurns(c) ELSE {}

Joins(m, ms, t, b, p) ==
    ms[m].turn = NoTurn /\ (p = STEER_PRIORITY \/ HasCapacityFor(t, b))

\* Fault: MAX(position) without the + 1.
NextPositionTaken(t, position) ==
    /\ \A m \in Events(t) : messages[m].position <= position
    /\ position = 1 \/ \E m \in Events(t) : messages[m].position = position
\* position is COALESCE(MAX(position), 0) + 1 over the rows of the turn.
NextPosition(t, position) ==
    /\ \A m \in Events(t) : messages[m].position < position
    /\ position = 1 \/ \E m \in Events(t) : messages[m].position = position - 1

Steered(t, p) ==
    IF p = STEER_PRIORITY
    THEN [turns EXCEPT ![t].stalled = 0, ![t].attempts = 0, ![t].quarantined = FALSE]
    ELSE turns

\* steer, when the event joins a turn.
SteerTurn(c, k, b, p, t) ==
    LET m == QueuedRow(c, k)  queued == Queued(c, k, b, p) IN
    /\ Accepts(c, k, b)
    /\ t \in SteerTargets(c, p)
    /\ Joins(m, queued, t, b, p)
    /\ \E position \in 1..(sequence + 1) :
        /\ NextPosition(t, position)
        /\ messages' = [queued EXCEPT ![m].turn = t, ![m].position = position]
    /\ sequence' = IF m > sequence THEN sequence + 1 ELSE sequence
    /\ turns' = Refreshed(messages', Steered(t, p), t)
    /\ UNCHANGED <<lastTurn, cooldown>>

\* steer, when it stays in the queue: no turn takes it, or one already has it.
SteerQueue(c, k, b, p) ==
    /\ \A t \in SteerTargets(c, p) : ~Joins(QueuedRow(c, k), Queued(c, k, b, p), t, b, p)
    /\ Enqueue(c, k, b, p)

Steer(c, k, b, p) ==
    SteerQueue(c, k, b, p) \/ \E t \in 1..lastTurn : SteerTurn(c, k, b, p, t)

\* Controller._enqueue_events: what a poll does with one event.
ControllerEvent(c, k, b) ==
    CASE Kind[k] = "human"      -> Steer(c, k, b, STEER_PRIORITY)
      [] Kind[k] = "feedback"   -> Steer(c, k, b, QUEUE_PRIORITY)
      [] Kind[k] = "assignment" -> Enqueue(c, k, b, QUEUE_PRIORITY)
      [] OTHER                  -> Enqueue(c, k, b, 0)

\* AdvisorEventPump._transfer_to_inbox: the same for an event of a running turn.
PumpEvent(c, k, b) ==
    CASE Kind[k] = "human"                 -> Steer(c, k, b, STEER_PRIORITY)
      [] Kind[k] \in {"feedback", "review"} -> Steer(c, k, b, QUEUE_PRIORITY)
      [] OTHER                             -> Enqueue(c, k, b, 0)

\* retract_pending_prefix: availability events the last snapshot no longer has.
RetractPendingPrefix(c, retained) ==
    LET gone == {m \in DOMAIN messages :
                    /\ messages[m].conv = c
                    /\ Kind[messages[m].key] = "availability"
                    /\ messages[m].key \notin retained
                    /\ messages[m].state = "pending" /\ messages[m].turn = NoTurn}
    IN /\ gone # {}
       /\ messages' = [m \in DOMAIN messages \ gone |-> messages[m]]
       /\ UNCHANGED <<sequence, turns, lastTurn, cooldown>>

-----------------------------------------------------------------------------
(* The life of a turn. *)

Pending(c) ==
    {m \in DOMAIN messages :
        messages[m].conv = c /\ messages[m].state = "pending" /\ messages[m].turn = NoTurn}

\* ORDER BY priority DESC, sequence
Before(m, n) ==
    \/ messages[m].priority > messages[n].priority
    \/ messages[m].priority = messages[n].priority /\ m < n
Ahead(c, m) == {n \in Pending(c) : Before(n, m)}

\* Fault: measure the bytes before the row is added.
OverflowsLate(c, m) ==
    /\ Ahead(c, m) # {}
    /\ \/ Cardinality(Ahead(c, m)) >= MaxEvents
       \/ Bytes(Ahead(c, m)) > MaxBytes
Overflows(c, m) ==
    /\ Ahead(c, m) # {}
    /\ \/ Cardinality(Ahead(c, m)) >= MaxEvents
       \/ Bytes(Ahead(c, m) \cup {m}) > MaxBytes

\* The rows taken before the first that does not fit.
Batch(c) == {m \in Pending(c) : \A n \in Ahead(c, m) \cup {m} : ~Overflows(c, n)}

\* Fault: forget the turn that waits for its acknowledgement.
MayOpenIgnoringReceipt(c) == ActiveTurns(c) = {} /\ QuarantinedTurns(c) = {}
\* Fault: forget the quarantined turn.
MayOpenIgnoringQuarantine(c) ==
    ActiveTurns(c) = {} /\ \A t \in ProcessedTurns : turns[t].conv # c
MayOpen(c) ==
    /\ ActiveTurns(c) = {} /\ QuarantinedTurns(c) = {}
    /\ \A t \in ProcessedTurns : turns[t].conv # c

NextTurn(c) ==
    /\ lastTurn < MaxTurns
    /\ MayOpen(c)
    /\ Batch(c) # {}
    /\ lastTurn' = lastTurn + 1
    /\ turns' = Put(turns, lastTurn', NewTurn(c, NoTurn, 0))
    /\ messages' = [m \in DOMAIN messages |->
                      IF m \in Batch(c)
                      THEN [messages[m] EXCEPT !.turn = lastTurn',
                                               !.position = Cardinality(Ahead(c, m)) + 1]
                      ELSE messages[m]]
    /\ UNCHANGED <<sequence, cooldown>>

RecordDelivered(m) ==
    /\ messages[m].state = "pending" /\ messages[m].turn # NoTurn
    /\ messages' = [messages EXCEPT ![m].state = "delivered"]
    /\ turns' = Refreshed(messages', turns, messages[m].turn)
    /\ UNCHANGED <<sequence, lastTurn, cooldown>>

RecordPromptDelivered(t) ==
    /\ turns[t].prompt = "pending"
    /\ turns' = Refreshed(messages, [turns EXCEPT ![t].prompt = "delivered"], t)
    /\ UNCHANGED <<messages, sequence, lastTurn, cooldown>>

\* Fault: finish the turn whatever was steered into it.
ProcessableAlways(t) == turns[t].state # "processed"
Processable(t) == turns[t].state # "processed" /\ ~HasPending(messages, turns, t)

RecordProcessed(t) ==
    /\ Processable(t)
    /\ messages' = [m \in DOMAIN messages |->
                      IF messages[m].turn = t /\ messages[m].state = "delivered"
                      THEN [messages[m] EXCEPT !.state = "processed"] ELSE messages[m]]
    /\ turns' = [turns EXCEPT ![t].state = "processed",
                              ![t].prompt = IF @ = "delivered" THEN "processed" ELSE @]
    /\ UNCHANGED <<sequence, lastTurn, cooldown>>

RecordInferenceAttempt(t) ==
    /\ turns[t].state = "delivered"
    /\ turns' = [turns EXCEPT ![t].stalled = @ + 1, ![t].attempts = @ + 1]
    /\ UNCHANGED <<messages, sequence, lastTurn, cooldown>>

\* Fault: no floor under the counter.
DecrementFreely(n) == n - 1
Decrement(n) == IF n > 0 THEN n - 1 ELSE 0

DeferProviderRetry(t) ==
    /\ turns[t].state = "delivered" /\ turns[t].supersededBy = NoTurn
    /\ cooldown < MaxCooldown
    /\ turns' = [turns EXCEPT ![t].stalled = Decrement(@), ![t].attempts = Decrement(@)]
    /\ cooldown' = cooldown + 1
    /\ UNCHANGED <<messages, sequence, lastTurn>>

ClearProviderCooldown ==
    /\ cooldown # 0 /\ cooldown' = 0
    /\ UNCHANGED <<messages, sequence, turns, lastTurn>>

RecordProgress(t, e) ==
    /\ turns[t].state # "processed"
    /\ e # turns[t].progress
    /\ turns' = [turns EXCEPT ![t].progress = e, ![t].stalled = 0]
    /\ UNCHANGED <<messages, sequence, lastTurn, cooldown>>

\* Fault: count only the attempts since the last progress.
StalledRecoveryDue(t) ==
    /\ turns[t].state = "delivered" /\ turns[t].supersededBy = NoTurn
    /\ ~turns[t].quarantined
    /\ turns[t].stalled >= MaxStalled
TerminalRecoveryDue(t) ==
    /\ turns[t].state = "delivered" /\ turns[t].supersededBy = NoTurn
    /\ ~turns[t].quarantined
    /\ turns[t].stalled >= MaxStalled \/ turns[t].attempts >= MaxAttempts

-----------------------------------------------------------------------------
(* Recovery, quarantine and acknowledgement. *)

Quarantine(t) ==
    /\ turns[t].state # "processed"
    /\ turns' = [turns EXCEPT ![t].quarantined = TRUE]
    /\ UNCHANGED <<messages, sequence, lastTurn, cooldown>>

\* Fault: take over only what the model has not seen.
CopiedUndelivered(t) == {m \in Events(t) : messages[m].state = "pending"}
Copied(t) == Events(t)

\* reset_turn: a new turn takes over every event of the turn, under new rows.
ResetTurn(t) ==
    LET copies == {sequence + messages[m].position : m \in Copied(t)}
        source(row) == CHOOSE m \in Copied(t) : row = sequence + messages[m].position
    IN
    /\ lastTurn < MaxTurns /\ sequence + Cardinality(Events(t)) <= MaxMessages
    /\ turns[t].supersededBy = NoTurn
    /\ turns[t].state # "processed" /\ ~turns[t].quarantined
    /\ lastTurn' = lastTurn + 1
    /\ turns' = Put([turns EXCEPT ![t].supersededBy = lastTurn'], lastTurn',
                    NewTurn(turns[t].conv, t, turns[t].generation + 1))
    /\ messages' = [m \in DOMAIN messages \cup copies |->
                      IF m \in DOMAIN messages THEN messages[m]
                      ELSE [messages[source(m)] EXCEPT !.state = "pending",
                                                       !.turn = lastTurn']]
    /\ sequence' = sequence + Cardinality(Events(t))
    /\ UNCHANGED cooldown

\* recover_turn, on the latest turn of a chain.
RecoverTurn(t) ==
    \/ turns[t].generation >= MaxGenerations /\ Quarantine(t)
    \/ turns[t].generation < MaxGenerations /\ ResetTurn(t)

RecordContextReset(t) ==
    /\ turns[t].recoveryOf # NoTurn
    /\ turns' = [turns EXCEPT ![t].contextReset = TRUE]
    /\ UNCHANGED <<messages, sequence, lastTurn, cooldown>>

Acknowledge(t) ==
    /\ turns[t].state = "processed"
    /\ turns' = [turns EXCEPT ![t].acknowledged = TRUE]
    /\ UNCHANGED <<messages, sequence, lastTurn, cooldown>>

\* Fault: offer only conversations with queued events.
ReadyUnattachedOnly ==
    {c \in Conversation :
        /\ \A t \in 1..lastTurn : turns[t].conv = c /\ Open(t) => ~turns[t].quarantined
        /\ \E m \in DOMAIN messages : messages[m].conv = c /\ messages[m].turn = NoTurn}
\* ready_conversation_ids: the conversations the controller asks for a turn.
Ready ==
    {c \in Conversation :
        /\ \A t \in 1..lastTurn : turns[t].conv = c /\ Open(t) => ~turns[t].quarantined
        /\ \/ \E m \in DOMAIN messages : messages[m].conv = c /\ messages[m].turn = NoTurn
           \/ \E t \in 1..lastTurn : turns[t].conv = c /\ Open(t)}

-----------------------------------------------------------------------------
(* The inbox with the callers the worker has: the controller and the event *)
(* pump add events at any time; the runner works on the open, unquarantined *)
(* turn of a conversation, which next_turn or latest_turn gave it.          *)

Init ==
    /\ messages = [m \in {} |-> m] /\ sequence = 0
    /\ turns = [t \in {} |-> t] /\ lastTurn = 0
    /\ cooldown = 0

Accept ==
    \E c \in Conversation, k \in Key, b \in Body :
        ControllerEvent(c, k, b) \/ PumpEvent(c, k, b)

Retract ==
    \E c \in Conversation, retained \in SUBSET Key : RetractPendingPrefix(c, retained)

Running(t) == Open(t) /\ turns[t].state # "processed" /\ ~turns[t].quarantined

Deliver(t) ==
    \/ RecordPromptDelivered(t)
    \/ \E m \in Events(t) : RecordDelivered(m)

Attempt(t) == ~TerminalRecoveryDue(t) /\ RecordInferenceAttempt(t)

Work(t) ==
    \/ Deliver(t)
    \/ RecordContextReset(t)
    \/ \E e \in Progress : RecordProgress(t, e)
    \/ Attempt(t)
    \/ DeferProviderRetry(t)
    \/ RecoverTurn(t)
    \/ RecordProcessed(t)

Next ==
    \/ Accept
    \/ Retract
    \/ \E c \in Conversation : NextTurn(c)
    \/ \E t \in 1..lastTurn : Running(t) /\ Work(t)
    \/ \E t \in ProcessedTurns : Acknowledge(t)
    \/ ClearProviderCooldown

Spec == Init /\ [][Next]_vars

-----------------------------------------------------------------------------
(* Properties. *)

\* A conversation has one turn in flight: next_turn, recovery and the reopening
\* of a quarantined turn never leave two turns of it to run or to acknowledge.
OneOpenTurn ==
    \A s, t \in 1..lastTurn :
        Open(s) /\ Open(t) /\ turns[s].conv = turns[t].conv => s = t

\* An event waits or runs in one place: re-polls, the controller and the pump
\* racing each other, steering and recovery never make a second live row of a
\* key in a conversation, nor in any conversation when the key is once-only.
OneLiveMessage ==
    \A m, n \in DOMAIN messages :
        Live(m) /\ Live(n) /\ InScope(n, messages[m].conv, messages[m].key) => m = n

\* A human message that was acknowledged in one conversation is live in none:
\* no later poll, in any conversation, brings it back.
OnceNeverRepeats ==
    \A m \in DOMAIN messages :
        Once(messages[m].key) /\ HasAcknowledgedEvent(messages[m].key) => ~Live(m)

\* Nothing joins a turn behind its back: when a turn counts as processed, every
\* message bound to it, those steered in while it ran included, was processed.
ProcessedTurnComplete ==
    \A t \in 1..lastTurn :
        turns[t].state = "processed" =>
            /\ turns[t].prompt = "processed"
            /\ \A m \in Events(t) : messages[m].state = "processed"

\* Superseding links are a chain: each leads to the newer turn that recovers it,
\* one generation on, in the same conversation, so latest_turn always ends (its
\* cycle error is unreachable) and no chain outgrows the recovery budget.
RecoveryChain ==
    /\ \A t \in 1..lastTurn :
        turns[t].supersededBy # NoTurn =>
            LET s == turns[t].supersededBy IN
            /\ t < s /\ turns[s].recoveryOf = t
            /\ turns[s].conv = turns[t].conv
            /\ turns[s].generation = turns[t].generation + 1
    /\ \A t \in 1..lastTurn : turns[t].generation <= MaxGenerations

\* A key never names two payloads in a conversation (nor anywhere, once-only).
OnePayload ==
    \A m, n \in DOMAIN messages :
        InScope(n, messages[m].conv, messages[m].key) => messages[m].body = messages[n].body

\* The batch limit bounds a turn: only human steering takes it further.
BatchBounded ==
    \A t \in 1..lastTurn :
        LET ordinary == {m \in Events(t) : messages[m].priority # STEER_PRIORITY} IN
        /\ Cardinality(ordinary) <= MaxEvents
        /\ Bytes(ordinary) > MaxBytes => Cardinality(ordinary) = 1

\* No turn is run past its budgets, whatever steering, progress and provider
\* failures did to the two counters.
AttemptsBounded ==
    \A t \in 1..lastTurn :
        turns[t].stalled <= MaxStalled /\ turns[t].attempts <= MaxAttempts

\* The rows of a turn are in positions 1 .. n: the order the model reads them in.
PositionsContiguous ==
    \A t \in 1..lastTurn :
        {messages[m].position : m \in Events(t)} = 1..Cardinality(Events(t))

\* The two queries the controller combines agree: a conversation next_turn would
\* serve is one ready_conversation_ids offers.
ReadyCoversWork ==
    \A c \in Conversation :
        ActiveTurns(c) # {} \/ (MayOpen(c) /\ Batch(c) # {}) => c \in Ready

LiveEvents == {<<messages[m].conv, messages[m].key>> : m \in {n \in DOMAIN messages : Live(n)}}
BoundEvents ==
    {<<messages[m].conv, messages[m].key>> :
        m \in {n \in DOMAIN messages : messages[n].turn # NoTurn /\ Live(n)}}
Acknowledged(c, k) ==
    \E m \in DOMAIN messages :
        /\ messages[m].conv = c /\ messages[m].key = k /\ messages[m].turn # NoTurn
        /\ turns[messages[m].turn].acknowledged /\ messages[m].state = "processed"

\* No event is lost: an accepted event stays live until a turn that processed it
\* is acknowledged; only an availability event that no turn has can be retracted.
NoEventLost ==
    [][\A e \in LiveEvents :
        \/ e \in LiveEvents'
        \/ Acknowledged(e[1], e[2])'
        \/ Kind[e[2]] = "availability" /\ e \notin BoundEvents]_vars

\* A quarantined conversation is left alone until a human speaks in it: its turn
\* does not start, change or end, and no other turn takes its place, before a
\* steered message joins and reopens it.
QuarantineHolds ==
    [][\A t \in 1..lastTurn :
        turns[t].quarantined /\ Open(t) =>
            \/ /\ turns'[t] = turns[t]
               /\ \A s \in DOMAIN turns' \ DOMAIN turns : turns'[s].conv # turns[t].conv
            \/ \E m \in DOMAIN messages' :
                /\ m \in Events(t)' /\ m \notin Events(t)
                /\ messages'[m].priority = STEER_PRIORITY]_vars

=============================================================================
