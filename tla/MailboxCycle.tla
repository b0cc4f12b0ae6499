---------------------------- MODULE MailboxCycle ----------------------------
(***************************************************************************)
(* The way of an event from the mailboxes to the model and back            *)
(* (senpai_agent/controller.py, mailbox.py, github/mailbox/watcher.py):    *)
(* the controller polls the composite mailbox, keeps what is new in its    *)
(* inbox, and serves turns; during a turn a watcher thread polls GitHub    *)
(* and stages news in the local event store, from which the pump steers    *)
(* them into the turn; a processed turn is acknowledged to the mailboxes   *)
(* and then in the inbox.                                                  *)
(*                                                                         *)
(* What GitHub shows is left to the module that extends this one.  An      *)
(* event is a record of its key, whose first member is its kind, and its   *)
(* conversation.  The inside of the inbox and of a turn is the subject of  *)
(* PersistentInbox and TurnDelivery: here a row of the inbox is queued,    *)
(* open (in the turn of its conversation) or processed.                    *)
(***************************************************************************)
EXTENDS Naturals, Functions, FiniteSetsExt

CONSTANTS
    Scopes       \* bounds: what may happen in one behaviour

ASSUME ScopesAssumption ==
    \A s \in Scopes : /\ s.role \in {"student", "advisor"}
                      /\ {s.crashes, s.errors} \subseteq Nat

VARIABLES
    scope,    \* the role of the controller, and how often what may happen
    pc,       \* step of the controller
    post,     \* the cycle has served a turn: the next poll sends no reminders
    visible,  \* Controller._visible: keys of the last poll, or acknowledged since
    polled,   \* events of the poll that are not in the inbox yet
    failed,   \* failed_conversations of this cycle
    turn,     \* conversation of the running turn
    known,    \* ActiveGitHubWatcher.known_keys
    watcher,  \* "off", "waits", "polls", or "failed"
    rows,     \* inbox rows not acknowledged: <<conversation, key>> -> state
    done,     \* keys of acknowledged inbox turns
    store,    \* local event store: key -> conversation and acknowledged
    told,     \* history: how many processed turns carried a key that is no reminder (2: several)
    crashes, errors

cycleVars == <<scope, pc, post, visible, polled, failed, turn, known, watcher, rows, done, store,
               told, crashes, errors>>

None == <<"none", 0>>
Event(key, conversation) == [key |-> key, conv |-> conversation]
Keys(events) == {e.key : e \in events}
EXACT_ONCE_EVENT_KINDS == {"human", "remark"}
EDGE_TRIGGERED_EVENT_KINDS == EXACT_ONCE_EVENT_KINDS \cup {"base", "note"}
TOLD_KINDS == EDGE_TRIGGERED_EVENT_KINDS \cup {"feedback"}
STEERING_PRIORITIES == {"human", "remark", "feedback"}
ADVISOR_ACTIVE_STEERING_PRIORITIES == STEERING_PRIORITIES \cup {"review"}
Kind(key) == key[1]

CycleInit ==
    /\ scope \in Scopes
    /\ pc = "ack" /\ post = FALSE /\ visible = {} /\ polled = {} /\ failed = {} /\ turn = None
    /\ known = {} /\ watcher = "off" /\ rows = << >> /\ done = {} /\ store = << >>
    /\ told = << >> /\ crashes = 0 /\ errors = 0

RowsIn(state) == {r \in DOMAIN rows : rows[r] = state}
OpenIn(conv) == {r \in RowsIn("open") : r[1] = conv}

\* Mutant: a live row counts in its own conversation only.
LiveHere(e) == {r \in DOMAIN rows : r[2] = e.key /\ r[1] = e.conv}

Live(e) ==
    {r \in DOMAIN rows : r[2] = e.key /\ (Kind(e.key) \in EXACT_ONCE_EVENT_KINDS \/ r[1] = e.conv)}

(***************************************************************************)
(* The inbox, as the pump and the controller use it: an event that is live *)
(* keeps its row, which steering may attach to an open turn; one that is   *)
(* delivered exactly once is dropped when an acknowledged turn carried it. *)
(***************************************************************************)
Steered(e, kinds) == Kind(e.key) \in kinds /\ OpenIn(e.conv) # {}

Enqueued(events, kinds) ==
    LET fresh == {e \in events : Live(e) = {}
                    /\ ~(Kind(e.key) \in EXACT_ONCE_EVENT_KINDS /\ e.key \in done)}
        mine(state) == {<<e.conv, e.key>> : e \in {f \in events :
                            (f \in fresh \/ <<f.conv, f.key>> \in RowsIn("queued"))
                            /\ (state = "open") = Steered(f, kinds)}}
    IN  [r \in DOMAIN rows \cup mine("open") \cup mine("queued") |->
            IF r \in mine("open") THEN "open"
            ELSE IF r \in DOMAIN rows THEN rows[r] ELSE "queued"]

(***************************************************************************)
(* Acknowledging processed turns: the mailboxes first, then the inbox.     *)
(***************************************************************************)
Processed == RowsIn("processed")
ProcessedKeys == {r[2] : r \in Processed}

AcknowledgeMailboxes ==
    /\ pc = "ack" /\ Processed # {}
    /\ store' = [k \in DOMAIN store |->
                    IF k \in ProcessedKeys THEN [store[k] EXCEPT !.acked = TRUE] ELSE store[k]]
    /\ pc' = "acked"
    /\ UNCHANGED <<scope, post, visible, polled, failed, turn, known, watcher, rows, done, told,
                   crashes, errors>>

AcknowledgeInbox ==
    /\ pc = "acked"
    /\ rows' = Restrict(rows, DOMAIN rows \ Processed)
    /\ done' = done \cup ProcessedKeys
    /\ visible' = visible \cup ProcessedKeys
    /\ pc' = "poll"
    /\ UNCHANGED <<scope, post, polled, failed, turn, known, watcher, store, told, crashes,
                   errors>>

NothingProcessed ==
    /\ pc = "ack" /\ Processed = {}
    /\ pc' = "poll"
    /\ UNCHANGED <<scope, post, visible, polled, failed, turn, known, watcher, rows, done, store,
                   told, crashes, errors>>

(***************************************************************************)
(* A poll of the composite mailbox: what GitHub reports, nothing when it   *)
(* failed, and the pending local events under keys GitHub did not report.  *)
(***************************************************************************)
StartPoll ==
    /\ pc = "poll" /\ pc' = "polling"
    /\ UNCHANGED <<scope, post, visible, polled, failed, turn, known, watcher, rows, done, store,
                   told, crashes, errors>>

LocalEvents(stored) == {Event(k, stored[k].conv) : k \in {j \in DOMAIN stored : ~stored[j].acked}}
Merged(events, stored) == events \cup {e \in LocalEvents(stored) : e.key \notin Keys(events)}

\* Mutant: the poll after a turn sends reminders too.
RemindedAlways == SUBSET {k \in visible : Kind(k) \notin EDGE_TRIGGERED_EVENT_KINDS}

\* A reminder is due for some of the keys delivered long enough ago.
Reminded ==
    IF post THEN {{}} ELSE SUBSET {k \in visible : Kind(k) \notin EDGE_TRIGGERED_EVENT_KINDS}

NewEvents(events) ==
    \E due \in Reminded :
        /\ polled' = {e \in events : e.key \notin visible \/ e.key \in due}
        /\ visible' = Keys(events)

PollEnds(events) ==
    /\ pc = "polling" /\ pc' = "enqueue"
    /\ NewEvents(events)
    /\ UNCHANGED <<scope, post, failed, turn, known, watcher, done, told, crashes>>

EnqueueEvents ==
    /\ pc = "enqueue" /\ pc' = "serve"
    /\ rows' = Enqueued(polled, STEERING_PRIORITIES)
    /\ polled' = {}
    /\ UNCHANGED <<scope, post, visible, failed, turn, known, watcher, done, store, told, crashes,
                   errors>>

(***************************************************************************)
(* A turn.  Its events are acknowledged in the store, since the prompt     *)
(* carries them; the watcher starts from what is visible.                  *)
(***************************************************************************)
Ready == {r[1] : r \in RowsIn("open") \cup RowsIn("queued")} \ failed
Batch(conv) ==
    IF OpenIn(conv) # {} THEN OpenIn(conv) ELSE {r \in RowsIn("queued") : r[1] = conv}

StartTurn ==
    /\ pc = "serve"
    /\ \E conv \in Ready :
        LET keys == {r[2] : r \in Batch(conv)}
        IN  /\ turn' = conv
            /\ rows' = [r \in DOMAIN rows |-> IF r \in Batch(conv) THEN "open" ELSE rows[r]]
            /\ store' = [k \in DOMAIN store |->
                            IF k \in keys THEN [store[k] EXCEPT !.acked = TRUE] ELSE store[k]]
            /\ known' = visible \cup keys
    /\ pc' = "turn" /\ watcher' = "waits"
    /\ UNCHANGED <<scope, post, visible, polled, failed, done, told, crashes, errors>>

Pump ==
    /\ pc = "turn"
    /\ \E e \in LocalEvents(store) :
        /\ e.conv = turn
        /\ rows' = Enqueued({e}, ADVISOR_ACTIVE_STEERING_PRIORITIES)
        /\ store' = [store EXCEPT ![e.key].acked = TRUE]
    /\ UNCHANGED <<scope, pc, post, visible, polled, failed, turn, known, watcher, done, told,
                   crashes, errors>>

TurnProcessed ==
    /\ pc = "turn"
    /\ rows' = [r \in DOMAIN rows |-> IF r \in OpenIn(turn) THEN "processed" ELSE rows[r]]
    /\ LET keys == {r[2] : r \in {q \in OpenIn(turn) : Kind(q[2]) \in TOLD_KINDS}}
       IN  told' = [k \in DOMAIN told \cup keys |->
                        IF k \notin DOMAIN told THEN 1 ELSE IF k \in keys THEN 2 ELSE told[k]]
    /\ pc' = "joining"
    /\ UNCHANGED <<scope, post, visible, polled, failed, turn, known, watcher, done, store,
                   crashes, errors>>

TurnFails ==
    /\ pc = "turn" /\ errors < scope.errors
    /\ failed' = failed \cup {turn}
    /\ errors' = errors + 1
    /\ pc' = "joining"
    /\ UNCHANGED <<scope, post, visible, polled, turn, known, watcher, rows, done, store, told,
                   crashes>>

JoinWatcher ==
    /\ pc = "joining" /\ watcher # "polls"
    /\ watcher' = "off" /\ known' = {} /\ turn' = None
    /\ IF turn \in failed THEN pc' = "serve" /\ UNCHANGED post ELSE pc' = "ack" /\ post' = TRUE
    /\ UNCHANGED <<scope, visible, polled, failed, rows, done, store, told, crashes, errors>>

Sleep ==
    /\ pc = "serve" /\ Ready = {}
    /\ pc' = "sleep" /\ failed' = {}
    /\ UNCHANGED <<scope, post, visible, polled, turn, known, watcher, rows, done, store, told,
                   crashes, errors>>

NextCycle ==
    /\ pc = "sleep" /\ pc' = "ack" /\ post' = FALSE
    /\ UNCHANGED <<scope, visible, polled, failed, turn, known, watcher, rows, done, store, told,
                   crashes, errors>>

(***************************************************************************)
(* The watcher of a turn.                                                  *)
(***************************************************************************)
WatcherPolls ==
    /\ pc = "turn" /\ watcher = "waits"
    /\ watcher' = "polls"
    /\ UNCHANGED <<scope, pc, post, visible, polled, failed, turn, known, rows, done, store, told,
                   crashes, errors>>

\* Events new to the watcher are staged.  The store refuses a key it holds
\* for another conversation, which ends the watcher.
WatcherStages(events, staged, stored) ==
    LET news == {e \in staged : e.key \notin known}
        refused == {e \in news : e.key \in DOMAIN stored /\ stored[e.key].conv # e.conv}
        added == {e \in news : e.key \notin DOMAIN stored}
    IN  /\ watcher = "polls"
        /\ store' = [k \in DOMAIN stored \cup Keys(added) |->
                        IF k \in DOMAIN stored THEN stored[k]
                        ELSE [conv |-> turn, acked |-> FALSE]]
        /\ IF refused = {}
           THEN watcher' = "waits" /\ known' = Keys(events)
           ELSE watcher' = "failed" /\ UNCHANGED known
        /\ UNCHANGED <<scope, pc, post, visible, polled, failed, turn, done, told, crashes>>

WatcherMisses ==
    /\ watcher = "polls" /\ errors < scope.errors
    /\ watcher' = "waits" /\ errors' = errors + 1
    /\ UNCHANGED <<scope, pc, post, visible, polled, failed, turn, known, rows, done, store, told,
                   crashes>>

(***************************************************************************)
(* The worker dies, or gives up after failed turns.  Its memory is lost,   *)
(* and the next one takes what was acknowledged for visible.               *)
(***************************************************************************)
Restart ==
    /\ crashes < scope.crashes /\ crashes' = crashes + 1
    /\ pc' = "ack" /\ post' = FALSE /\ polled' = {} /\ failed' = {} /\ turn' = None /\ known' = {}
    /\ watcher' = "off" /\ visible' = done
    /\ UNCHANGED <<scope, rows, done, store, told, errors>>
=============================================================================
