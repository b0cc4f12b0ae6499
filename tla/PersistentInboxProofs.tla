----------------------- MODULE PersistentInboxProofs -----------------------
(***************************************************************************)
(* Machine-checked safety of PersistentInbox, for every set of             *)
(* conversations and keys and every value of the limits, and of the worker *)
(* around it (TurnDelivery): its use of the inbox, its receipts and its    *)
(* branch, and that it implements EventDelivery, for every limit and any   *)
(* number of crashes.  The first half is about Spec, the second, from      *)
(* "The worker around the inbox" on, about DeliverySpec; the action        *)
(* properties of Spec and its remaining invariants come last.              *)
(***************************************************************************)
EXTENDS TurnDelivery, FiniteSetTheorems, WellFoundedInduction, TLAPS

\* A turn is closed in one way only, and never while it is unprocessed.
TurnStates ==
    \A t \in 1..lastTurn :
        /\ turns[t].acknowledged => turns[t].state = "processed"
        /\ turns[t].supersededBy # NoTurn => turns[t].state # "processed"

\* A row belongs to the conversation of its turn.
Owners ==
    \A m \in DOMAIN messages :
        messages[m].turn # NoTurn => messages[m].conv = turns[messages[m].turn].conv

\* The rows of a turn fit in positions 1 .. n and no two share one.
Positions ==
    /\ \A t \in 1..lastTurn : \A m \in Events(t) :
        messages[m].position \in 1..Cardinality(Events(t))
    /\ \A m, n \in DOMAIN messages :
        /\ messages[m].turn = messages[n].turn /\ messages[m].turn # NoTurn
        /\ messages[m].position = messages[n].position
        => m = n

IInv ==
    /\ TypeOK
    /\ TurnStates
    /\ Owners
    /\ Positions
    /\ OneOpenTurn
    /\ OneLiveMessage
    /\ OnceNeverRepeats
    /\ ProcessedTurnComplete
    /\ RecoveryChain

-----------------------------------------------------------------------------

LEMMA InitIInv == Init => IInv
<1> SUFFICES ASSUME Init PROVE IInv
  OBVIOUS
<1>1. DOMAIN messages = {} /\ lastTurn = 0 /\ DOMAIN turns = {} /\ 1..lastTurn = {}
  BY DEF Init
<1>2. TypeOK
  <2>1. IsFiniteSet(DOMAIN messages)
    BY <1>1, FS_EmptySet
  <2>2. messages \in [DOMAIN messages -> Message] /\ turns \in [1..lastTurn -> Turn]
    BY <1>1 DEF Init
  <2> QED
    BY <1>1, <2>1, <2>2 DEF Init, TypeOK
<1> QED
  BY <1>1, <1>2 DEF IInv, TurnStates, Owners, Positions, OneOpenTurn, OneLiveMessage,
     OnceNeverRepeats, ProcessedTurnComplete, RecoveryChain, Events

\* A step that neither adds nor moves rows or turns: it changes the states of
\* messages and turns, and the counters and marks a turn keeps for itself.
Keeps ==
    /\ UNCHANGED <<sequence, lastTurn>> /\ cooldown' \in Nat
    /\ turns' \in [1..lastTurn -> Turn]
    /\ \A t \in 1..lastTurn :
        /\ turns'[t].conv = turns[t].conv
        /\ turns'[t].recoveryOf = turns[t].recoveryOf
        /\ turns'[t].supersededBy = turns[t].supersededBy
        /\ turns'[t].acknowledged = turns[t].acknowledged
        /\ turns'[t].generation = turns[t].generation
    /\ messages' \in [DOMAIN messages -> Message]
    /\ \A m \in DOMAIN messages :
        /\ messages'[m].conv = messages[m].conv
        /\ messages'[m].key = messages[m].key
        /\ messages'[m].turn = messages[m].turn
        /\ messages'[m].position = messages[m].position

\* What is left to show of such a step: the states it sets fit together.
StatesFit == TurnStates /\ ProcessedTurnComplete

LEMMA KeepsIInv == IInv /\ Keeps /\ StatesFit' => IInv'
<1> SUFFICES ASSUME IInv, Keeps, StatesFit' PROVE IInv'
  OBVIOUS
<1>t. TypeOK
  BY DEF IInv
<1>d. DOMAIN messages' = DOMAIN messages
  BY DEF Keeps
<1>o. \A t \in 1..lastTurn : Open(t)' <=> Open(t)
  BY DEF Keeps, Open
<1>e. \A t : Events(t)' = Events(t)
  BY <1>d DEF Keeps, Events
<1>l. \A m \in DOMAIN messages : Live(m)' <=> Live(m)
  BY <1>o, <1>t DEF Keeps, Live, TypeOK, NoTurn
<1>1. TypeOK'
  BY <1>t, <1>d DEF Keeps, TypeOK
<1>3. Owners'
  BY <1>t, <1>d DEF Keeps, IInv, Owners, TypeOK, NoTurn
<1>4. Positions'
  <2>1. (\A t \in 1..lastTurn : \A m \in Events(t) :
            messages[m].position \in 1..Cardinality(Events(t)))'
    BY <1>e DEF Keeps, IInv, Positions, Events
  <2> QED
    BY <2>1, <1>d DEF Keeps, IInv, Positions
<1>5. OneOpenTurn'
  BY <1>o DEF Keeps, IInv, OneOpenTurn
<1>6. OneLiveMessage'
  BY <1>l, <1>d DEF Keeps, IInv, OneLiveMessage, InScope
<1>7. OnceNeverRepeats'
  <2>1. ASSUME NEW k, HasAcknowledgedEvent(k)' PROVE HasAcknowledgedEvent(k)
    <3>1. PICK m \in DOMAIN messages :
            /\ messages'[m].key = k
            /\ messages'[m].turn # NoTurn /\ turns'[messages'[m].turn].acknowledged
      BY <2>1, <1>d DEF HasAcknowledgedEvent
    <3>2. messages[m].turn = messages'[m].turn /\ messages[m].key = k
      BY <3>1 DEF Keeps
    <3>3. messages[m].turn \in 1..lastTurn
      BY <3>1, <3>2, <1>t DEF TypeOK, NoTurn
    <3> QED
      BY <3>1, <3>2, <3>3 DEF Keeps, HasAcknowledgedEvent
  <2> QED
    BY <1>l, <1>d, <2>1 DEF Keeps, IInv, OnceNeverRepeats
<1>9. RecoveryChain'
  <2>1. \A t \in 1..lastTurn :
          turns[t].supersededBy # NoTurn => turns[t].supersededBy \in 1..lastTurn
    BY <1>t DEF TypeOK, NoTurn
  <2> QED
    BY <2>1 DEF Keeps, IInv, RecoveryChain
<1> QED
  BY <1>1, <1>3, <1>4, <1>5, <1>6, <1>7, <1>9 DEF IInv, StatesFit

-----------------------------------------------------------------------------
(* The steps of a turn. *)

\* The counters and marks of one turn change, no state does.
LEMMA MarksIInv ==
  ASSUME IInv, Keeps, messages' = messages,
         \A t \in 1..lastTurn : turns'[t].state = turns[t].state
                             /\ turns'[t].prompt = turns[t].prompt
  PROVE  IInv'
<1>1. TurnStates'
  BY DEF Keeps, IInv, TurnStates
<1>2. ProcessedTurnComplete'
  BY DEF Keeps, IInv, ProcessedTurnComplete, Events
<1> QED
  BY <1>1, <1>2, KeepsIInv DEF StatesFit

LEMMA RecordInferenceAttemptIInv ==
  ASSUME IInv, NEW t \in 1..lastTurn, RecordInferenceAttempt(t)
  PROVE  IInv'
<1>0. turns[t] \in Turn /\ turns \in [1..lastTurn -> Turn]
  BY DEF IInv, TypeOK
<1>1. turns' \in [1..lastTurn -> Turn]
  BY <1>0 DEF RecordInferenceAttempt, Turn
<1>2. Keeps
  BY <1>1 DEF RecordInferenceAttempt, IInv, TypeOK, Keeps
<1> QED
  BY <1>2, MarksIInv DEF RecordInferenceAttempt, IInv, TypeOK

LEMMA DeferProviderRetryIInv ==
  ASSUME IInv, NEW t \in 1..lastTurn, DeferProviderRetry(t)
  PROVE  IInv'
<1>0. turns[t] \in Turn /\ turns \in [1..lastTurn -> Turn]
  BY DEF IInv, TypeOK
<1>d. Decrement(turns[t].stalled) \in Nat /\ Decrement(turns[t].attempts) \in Nat
  BY <1>0 DEF Turn, Decrement
<1>1. turns' \in [1..lastTurn -> Turn]
  BY <1>0, <1>d DEF DeferProviderRetry, Turn
<1>2. Keeps
  BY <1>1 DEF DeferProviderRetry, IInv, TypeOK, Keeps
<1> QED
  BY <1>2, MarksIInv DEF DeferProviderRetry, IInv, TypeOK

LEMMA RecordProgressIInv ==
  ASSUME IInv, NEW t \in 1..lastTurn, NEW e \in Progress, RecordProgress(t, e)
  PROVE  IInv'
<1>0. turns[t] \in Turn /\ turns \in [1..lastTurn -> Turn]
  BY DEF IInv, TypeOK
<1>1. turns' \in [1..lastTurn -> Turn]
  BY <1>0 DEF RecordProgress, Turn
<1>2. Keeps
  BY <1>1 DEF RecordProgress, IInv, TypeOK, Keeps
<1> QED
  BY <1>2, MarksIInv DEF RecordProgress, IInv, TypeOK

LEMMA RecordContextResetIInv ==
  ASSUME IInv, NEW t \in 1..lastTurn, RecordContextReset(t)
  PROVE  IInv'
<1>0. turns[t] \in Turn /\ turns \in [1..lastTurn -> Turn]
  BY DEF IInv, TypeOK
<1>1. turns' \in [1..lastTurn -> Turn]
  BY <1>0 DEF RecordContextReset, Turn
<1>2. Keeps
  BY <1>1 DEF RecordContextReset, IInv, TypeOK, Keeps
<1> QED
  BY <1>2, MarksIInv DEF RecordContextReset, IInv, TypeOK

LEMMA QuarantineIInv ==
  ASSUME IInv, NEW t \in 1..lastTurn, Quarantine(t)
  PROVE  IInv'
<1>0. turns[t] \in Turn /\ turns \in [1..lastTurn -> Turn]
  BY DEF IInv, TypeOK
<1>1. turns' \in [1..lastTurn -> Turn]
  BY <1>0 DEF Quarantine, Turn
<1>2. Keeps
  BY <1>1 DEF Quarantine, IInv, TypeOK, Keeps
<1> QED
  BY <1>2, MarksIInv DEF Quarantine, IInv, TypeOK

LEMMA ClearProviderCooldownIInv ==
  ASSUME IInv, ClearProviderCooldown
  PROVE  IInv'
<1>1. Keeps
  BY DEF ClearProviderCooldown, IInv, TypeOK, Keeps
<1> QED
  BY <1>1, MarksIInv DEF ClearProviderCooldown

LEMMA StutterIInv == ASSUME IInv, UNCHANGED vars PROVE IInv'
<1>1. Keeps
  BY DEF vars, IInv, TypeOK, Keeps
<1> QED
  BY <1>1, MarksIInv DEF vars

\* What a refresh leaves alone: all but a pending state, which becomes delivered.
OnlyRefreshed(ts, us) ==
    /\ us \in [1..lastTurn -> Turn]
    /\ \A s \in 1..lastTurn :
        /\ us[s].conv = ts[s].conv /\ us[s].prompt = ts[s].prompt
        /\ us[s].recoveryOf = ts[s].recoveryOf
        /\ us[s].supersededBy = ts[s].supersededBy
        /\ us[s].acknowledged = ts[s].acknowledged
        /\ us[s].generation = ts[s].generation
        /\ us[s].contextReset = ts[s].contextReset
        /\ us[s].quarantined => ts[s].quarantined
        /\ us[s].state # ts[s].state => ts[s].state = "pending" /\ us[s].state = "delivered"

\* _refresh_turn_state does nothing else to the turns.
LEMMA RefreshedTurns ==
  ASSUME NEW ms, NEW ts \in [1..lastTurn -> Turn], NEW t \in 1..lastTurn
  PROVE  OnlyRefreshed(ts, Refreshed(ms, ts, t))
<1>1. CASE Refreshed(ms, ts, t) = ts
  BY <1>1 DEF OnlyRefreshed
<1>2. CASE /\ Refreshed(ms, ts, t) = [ts EXCEPT ![t].state = "delivered"]
           /\ ts[t].state = "pending"
  <2> DEFINE us == [ts EXCEPT ![t].state = "delivered"]
  <2>1. ts[t] \in Turn
    OBVIOUS
  <2>2. us \in [1..lastTurn -> Turn]
    BY <2>1 DEF Turn, DeliveryState
  <2>3. us[t] = [ts[t] EXCEPT !.state = "delivered"]
        /\ \A s \in 1..lastTurn : s # t => us[s] = ts[s]
    OBVIOUS
  <2>4. /\ us[t].conv = ts[t].conv /\ us[t].prompt = ts[t].prompt
        /\ us[t].recoveryOf = ts[t].recoveryOf
        /\ us[t].supersededBy = ts[t].supersededBy
        /\ us[t].acknowledged = ts[t].acknowledged
        /\ us[t].generation = ts[t].generation
        /\ us[t].contextReset = ts[t].contextReset
        /\ us[t].quarantined = ts[t].quarantined
        /\ us[t].state = "delivered"
    BY <2>1, <2>3 DEF Turn
  <2> HIDE DEF us
  <2>5. OnlyRefreshed(ts, us)
    BY <1>2, <2>2, <2>3, <2>4 DEF OnlyRefreshed
  <2> QED
    BY <1>2, <2>5 DEF us
<1> QED
  BY <1>1, <1>2 DEF Refreshed

LEMMA RecordDeliveredIInv ==
  ASSUME IInv, NEW m \in DOMAIN messages, RecordDelivered(m)
  PROVE  IInv'
<1>0. /\ messages[m].turn \in 1..lastTurn /\ messages[m].state = "pending"
      /\ turns \in [1..lastTurn -> Turn] /\ messages \in [DOMAIN messages -> Message]
      /\ cooldown \in Nat
  BY DEF RecordDelivered, IInv, TypeOK, NoTurn
<1>1. OnlyRefreshed(turns, turns')
  BY <1>0, RefreshedTurns DEF RecordDelivered
<1>2. messages' = [messages EXCEPT ![m].state = "delivered"] /\ messages[m] \in Message
  BY <1>0 DEF RecordDelivered
<1>a. messages' \in [DOMAIN messages -> Message]
  BY <1>0, <1>2 DEF Message, DeliveryState
<1>b. \A n \in DOMAIN messages :
        /\ messages'[n].conv = messages[n].conv
        /\ messages'[n].key = messages[n].key
        /\ messages'[n].turn = messages[n].turn
        /\ messages'[n].position = messages[n].position
        /\ n # m => messages'[n].state = messages[n].state
  <2>1. \A n \in DOMAIN messages : n # m => messages'[n] = messages[n]
    BY <1>0, <1>2
  <2>2. messages'[m] = [messages[m] EXCEPT !.state = "delivered"]
    BY <1>0, <1>2
  <2> QED
    BY <2>1, <2>2, <1>2 DEF Message
<1>3. Keeps
  BY <1>0, <1>1, <1>a, <1>b DEF RecordDelivered, Keeps, OnlyRefreshed
<1>4. TurnStates'
  BY <1>1, <1>3 DEF Keeps, IInv, TurnStates, OnlyRefreshed
<1>5. ProcessedTurnComplete'
  <2> SUFFICES ASSUME NEW s \in 1..lastTurn, turns'[s].state = "processed"
               PROVE  /\ turns'[s].prompt = "processed"
                      /\ \A n \in Events(s)' : messages'[n].state = "processed"
    BY <1>3 DEF Keeps, ProcessedTurnComplete
  <2>1. turns[s].state = "processed" /\ turns'[s].prompt = turns[s].prompt
    BY <1>1 DEF OnlyRefreshed
  <2>2. m \notin Events(s)
    BY <2>1, <1>0 DEF IInv, ProcessedTurnComplete
  <2>3. Events(s)' = Events(s)
    BY <1>3 DEF Keeps, Events
  <2> QED
    BY <2>1, <2>2, <2>3, <1>b DEF IInv, ProcessedTurnComplete, Events
<1> QED
  BY <1>3, <1>4, <1>5, KeepsIInv DEF StatesFit

LEMMA RecordPromptDeliveredIInv ==
  ASSUME IInv, NEW t \in 1..lastTurn, RecordPromptDelivered(t)
  PROVE  IInv'
<1> DEFINE ts == [turns EXCEPT ![t].prompt = "delivered"]
<1>0. /\ turns[t] \in Turn /\ turns \in [1..lastTurn -> Turn]
      /\ messages \in [DOMAIN messages -> Message] /\ cooldown \in Nat
  BY DEF IInv, TypeOK
<1>a. ts \in [1..lastTurn -> Turn]
  BY <1>0 DEF Turn, DeliveryState
<1>b. \A s \in 1..lastTurn :
        /\ ts[s].conv = turns[s].conv /\ ts[s].state = turns[s].state
        /\ ts[s].recoveryOf = turns[s].recoveryOf
        /\ ts[s].supersededBy = turns[s].supersededBy
        /\ ts[s].acknowledged = turns[s].acknowledged
        /\ ts[s].generation = turns[s].generation
        /\ s # t => ts[s].prompt = turns[s].prompt
  <2>1. \A s \in 1..lastTurn : s # t => ts[s] = turns[s]
    BY <1>0
  <2>2. ts[t] = [turns[t] EXCEPT !.prompt = "delivered"]
    BY <1>0
  <2> QED
    BY <2>1, <2>2, <1>0 DEF Turn
<1>1. turns' = Refreshed(messages, ts, t)
  BY DEF RecordPromptDelivered
<1> HIDE DEF ts
<1>2. OnlyRefreshed(ts, turns')
  BY <1>a, <1>1, RefreshedTurns
<1>3. Keeps
  <2>1. \A s \in 1..lastTurn :
          /\ turns'[s].conv = turns[s].conv
          /\ turns'[s].recoveryOf = turns[s].recoveryOf
          /\ turns'[s].supersededBy = turns[s].supersededBy
          /\ turns'[s].acknowledged = turns[s].acknowledged
          /\ turns'[s].generation = turns[s].generation
    BY <1>b, <1>2 DEF OnlyRefreshed
  <2>2. turns' \in [1..lastTurn -> Turn]
    BY <1>2 DEF OnlyRefreshed
  <2>3. messages' = messages /\ UNCHANGED <<sequence, lastTurn, cooldown>>
    BY DEF RecordPromptDelivered
  <2> QED
    BY <1>0, <2>1, <2>2, <2>3 DEF Keeps
<1>4. TurnStates'
  BY <1>b, <1>2, <1>3 DEF Keeps, IInv, TurnStates, OnlyRefreshed
<1>5. ProcessedTurnComplete'
  <2>1. \A s : Events(s)' = Events(s)
    BY DEF RecordPromptDelivered, Events
  <2>2. turns[t].prompt = "pending"
    BY DEF RecordPromptDelivered
  <2>3. \A s \in 1..lastTurn : turns'[s].state = "processed"
            => turns[s].state = "processed" /\ s # t /\ turns'[s].prompt = turns[s].prompt
    BY <2>2, <1>b, <1>2 DEF IInv, ProcessedTurnComplete, OnlyRefreshed
  <2> QED
    BY <2>1, <2>3 DEF RecordPromptDelivered, IInv, ProcessedTurnComplete
<1> QED
  BY <1>3, <1>4, <1>5, KeepsIInv DEF StatesFit

LEMMA RecordProcessedIInv ==
  ASSUME IInv, NEW t \in 1..lastTurn, Running(t), RecordProcessed(t)
  PROVE  IInv'
<1>t. TypeOK
  BY DEF IInv
<1>0. /\ turns[t] \in Turn /\ turns \in [1..lastTurn -> Turn]
      /\ messages \in [DOMAIN messages -> Message] /\ cooldown \in Nat
  BY <1>t DEF TypeOK
<1>c. (IF turns[t].prompt = "delivered" THEN "processed" ELSE turns[t].prompt)
        \in DeliveryState
  BY <1>0 DEF Turn, DeliveryState
<1>r. turns' = [turns EXCEPT ![t] =
                 [turns[t] EXCEPT !.state = "processed",
                    !.prompt = IF turns[t].prompt = "delivered" THEN "processed"
                               ELSE turns[t].prompt]]
  BY <1>0 DEF RecordProcessed, Turn
<1>a. /\ turns' \in [1..lastTurn -> Turn]
      /\ turns'[t].state = "processed"
      /\ turns'[t].prompt = IF turns[t].prompt = "delivered" THEN "processed"
                            ELSE turns[t].prompt
      /\ \A s \in 1..lastTurn \ {t} : turns'[s] = turns[s]
      /\ turns'[t].conv = turns[t].conv
      /\ turns'[t].recoveryOf = turns[t].recoveryOf
      /\ turns'[t].supersededBy = turns[t].supersededBy
      /\ turns'[t].acknowledged = turns[t].acknowledged
      /\ turns'[t].generation = turns[t].generation
  BY <1>0, <1>c, <1>r DEF Turn, DeliveryState
<1>b. /\ messages' \in [DOMAIN messages -> Message]
      /\ \A n \in DOMAIN messages :
          /\ messages'[n].conv = messages[n].conv
          /\ messages'[n].key = messages[n].key
          /\ messages'[n].turn = messages[n].turn
          /\ messages'[n].position = messages[n].position
  BY <1>0 DEF RecordProcessed, Message, DeliveryState
<1>2. Keeps
  BY <1>0, <1>a, <1>b DEF RecordProcessed, Keeps
<1>3. TurnStates'
  BY <1>a, <1>2 DEF Running, Open, Keeps, IInv, TurnStates
<1>4. ProcessedTurnComplete'
  <2> SUFFICES ASSUME NEW s \in 1..lastTurn, turns'[s].state = "processed"
               PROVE  /\ turns'[s].prompt = "processed"
                      /\ \A n \in Events(s)' : messages'[n].state = "processed"
    BY <1>2 DEF Keeps, ProcessedTurnComplete
  <2>1. Events(s)' = Events(s)
    BY <1>2 DEF Keeps, Events
  <2>2. CASE s = t
    <3>1. turns[t].prompt # "pending" /\ \A n \in Events(t) : messages[n].state # "pending"
      BY DEF RecordProcessed, Processable, HasPending, Events
    <3>2. turns[t].prompt \in DeliveryState
      BY <1>t DEF TypeOK, Turn
    <3>3. turns'[t].prompt = "processed"
      BY <3>1, <3>2, <1>t DEF RecordProcessed, TypeOK, Turn, DeliveryState
    <3>4. ASSUME NEW n \in Events(t) PROVE messages'[n].state = "processed"
      <4>1. n \in DOMAIN messages /\ messages[n].turn = t
            /\ messages[n] \in Message /\ messages[n].state \in DeliveryState
        BY <1>t DEF Events, TypeOK, Message
      <4> QED
        BY <3>1, <4>1 DEF RecordProcessed, DeliveryState, Message
    <3> QED
      BY <2>1, <2>2, <3>3, <3>4
  <2>3. CASE s # t
    <3>1. turns'[s] = turns[s]
      BY <2>3, <1>t DEF RecordProcessed, TypeOK
    <3>2. \A n \in Events(s) : messages'[n] = messages[n]
      BY <2>3 DEF RecordProcessed, Events
    <3> QED
      BY <2>1, <3>1, <3>2 DEF IInv, ProcessedTurnComplete
  <2> QED
    BY <2>2, <2>3
<1> QED
  BY <1>2, <1>3, <1>4, KeepsIInv DEF StatesFit

\* Closing a turn ends the life of its rows: a key it acknowledges had its one
\* live row in that turn.
LEMMA AcknowledgeIInv ==
  ASSUME IInv, NEW t \in ProcessedTurns, Acknowledge(t)
  PROVE  IInv'
<1>t. TypeOK
  BY DEF IInv
<1>0. /\ t \in 1..lastTurn /\ Open(t) /\ turns[t] \in Turn
      /\ turns \in [1..lastTurn -> Turn]
  BY <1>t DEF ProcessedTurns, TypeOK
<1>1. /\ turns' \in [1..lastTurn -> Turn]
      /\ turns'[t].acknowledged /\ turns[t].state = "processed"
      /\ \A s \in 1..lastTurn \ {t} : turns'[s] = turns[s]
      /\ turns'[t].conv = turns[t].conv /\ turns'[t].state = turns[t].state
      /\ turns'[t].prompt = turns[t].prompt
      /\ turns'[t].recoveryOf = turns[t].recoveryOf
      /\ turns'[t].supersededBy = turns[t].supersededBy
      /\ turns'[t].generation = turns[t].generation
  BY <1>0 DEF Acknowledge, Turn
<1>2. UNCHANGED <<messages, sequence, lastTurn, cooldown>>
  BY DEF Acknowledge
<1>3. \A s \in 1..lastTurn : Open(s)' <=> Open(s) /\ s # t
  BY <1>0, <1>1 DEF Open
<1>4. \A m \in DOMAIN messages : Live(m)' <=> Live(m) /\ m \notin Events(t)
  <2>1. \A m \in DOMAIN messages :
          messages[m].turn # NoTurn => messages[m].turn \in 1..lastTurn
    BY <1>t DEF TypeOK, NoTurn
  <2> QED
    BY <1>0, <1>2, <1>3, <2>1 DEF Live, Events, NoTurn
<1>5. \A s : Events(s)' = Events(s)
  BY <1>2 DEF Events
<1>6. TypeOK'
  BY <1>t, <1>1, <1>2 DEF TypeOK
<1>7. TurnStates'
  BY <1>0, <1>1, <1>2 DEF IInv, TurnStates, Open
<1>8. Owners'
  <2>1. \A m \in DOMAIN messages :
          messages[m].turn # NoTurn => messages[m].turn \in 1..lastTurn
    BY <1>t DEF TypeOK, NoTurn
  <2> QED
    BY <1>1, <1>2, <2>1 DEF IInv, Owners
<1>9. Positions'
  BY <1>2, <1>5 DEF IInv, Positions
<1>10. OneOpenTurn'
  BY <1>1, <1>2, <1>3 DEF IInv, OneOpenTurn
<1>11. OneLiveMessage'
  BY <1>2, <1>4 DEF IInv, OneLiveMessage, InScope
<1>12. OnceNeverRepeats'
  <2> SUFFICES ASSUME NEW m \in DOMAIN messages, Once(messages[m].key), Live(m)',
                      HasAcknowledgedEvent(messages[m].key)'
               PROVE  FALSE
    BY <1>2 DEF OnceNeverRepeats
  <2>1. PICK n \in DOMAIN messages :
          /\ messages[n].key = messages[m].key
          /\ messages[n].turn # NoTurn /\ turns'[messages[n].turn].acknowledged
    BY <1>2 DEF HasAcknowledgedEvent
  <2>2. messages[n].turn \in 1..lastTurn
    BY <2>1, <1>t DEF TypeOK, NoTurn
  <2>3. CASE messages[n].turn = t
    <3>1. Live(n) /\ Live(m) /\ m \notin Events(t) /\ n \in Events(t)
      BY <2>3, <1>0, <1>4 DEF Live, Events
    <3> QED
      BY <3>1, <2>1 DEF IInv, OneLiveMessage, InScope
  <2>4. CASE messages[n].turn # t
    <3>1. HasAcknowledgedEvent(messages[m].key)
      BY <2>1, <2>2, <2>4, <1>1 DEF HasAcknowledgedEvent
    <3> QED
      BY <3>1, <1>4 DEF IInv, OnceNeverRepeats
  <2> QED
    BY <2>3, <2>4
<1>13. ProcessedTurnComplete'
  BY <1>0, <1>1, <1>2, <1>5 DEF IInv, ProcessedTurnComplete
<1>14. RecoveryChain'
  <2>1. \A s \in 1..lastTurn :
          turns[s].supersededBy # NoTurn => turns[s].supersededBy \in 1..lastTurn
    BY <1>t DEF TypeOK, NoTurn
  <2>2. \A s \in 1..lastTurn :
          /\ turns'[s].conv = turns[s].conv
          /\ turns'[s].recoveryOf = turns[s].recoveryOf
          /\ turns'[s].supersededBy = turns[s].supersededBy
          /\ turns'[s].generation = turns[s].generation
    BY <1>1
  <2> QED
    BY <2>1, <2>2, <1>2 DEF IInv, RecoveryChain
<1> QED
  BY <1>6, <1>7, <1>8, <1>9, <1>10, <1>11, <1>12, <1>13, <1>14 DEF IInv

\* A retraction only removes rows that no turn has.
LEMMA RetractIInv ==
  ASSUME IInv, NEW c \in Conversation, NEW retained \in SUBSET Key,
         RetractPendingPrefix(c, retained)
  PROVE  IInv'
<1>t. TypeOK
  BY DEF IInv
<1>1. PICK gone \in SUBSET DOMAIN messages :
        /\ \A m \in gone : messages[m].turn = NoTurn
        /\ messages' = [m \in DOMAIN messages \ gone |-> messages[m]]
  BY DEF RetractPendingPrefix
<1>2. UNCHANGED <<sequence, turns, lastTurn, cooldown>>
  BY DEF RetractPendingPrefix
<1>3. /\ DOMAIN messages' = DOMAIN messages \ gone
      /\ \A m \in DOMAIN messages' : messages'[m] = messages[m]
  BY <1>1
<1>4. \A t \in 1..lastTurn : Events(t)' = Events(t)
  BY <1>1, <1>3 DEF Events, NoTurn
<1>5. \A m \in DOMAIN messages' : Live(m)' <=> Live(m)
  BY <1>2, <1>3 DEF Live, Open
<1>6. TypeOK'
  <2>1. IsFiniteSet(DOMAIN messages')
    BY <1>t, <1>3, FS_Subset DEF TypeOK
  <2> QED
    BY <1>t, <1>2, <1>3, <1>1, <2>1 DEF TypeOK
<1>7. TurnStates' /\ OneOpenTurn' /\ RecoveryChain'
  BY <1>2 DEF IInv, TurnStates, OneOpenTurn, RecoveryChain, Open
<1>8. Owners'
  BY <1>2, <1>3 DEF IInv, Owners
<1>9. Positions'
  <2>1. (\A t \in 1..lastTurn : \A m \in Events(t) :
            messages[m].position \in 1..Cardinality(Events(t)))'
    BY <1>2, <1>3, <1>4 DEF IInv, Positions, Events
  <2> QED
    BY <2>1, <1>3 DEF IInv, Positions
<1>10. OneLiveMessage'
  BY <1>3, <1>5 DEF IInv, OneLiveMessage, InScope
<1>11. OnceNeverRepeats'
  <2>1. ASSUME NEW k, HasAcknowledgedEvent(k)' PROVE HasAcknowledgedEvent(k)
    BY <2>1, <1>2, <1>3 DEF HasAcknowledgedEvent
  <2> QED
    BY <2>1, <1>3, <1>5 DEF IInv, OnceNeverRepeats
<1>12. ProcessedTurnComplete'
  BY <1>2, <1>3, <1>4 DEF IInv, ProcessedTurnComplete, Events
<1> QED
  BY <1>6, <1>7, <1>8, <1>9, <1>10, <1>11, <1>12 DEF IInv

-----------------------------------------------------------------------------
(* Accepting events. *)

\* The row an accepted event ends up in: its live row, or a fresh one no live
\* row and no acknowledged once-only event stands against.
RowFits(c, k, row) ==
    IF row \in DOMAIN messages
    THEN Live(row) /\ messages[row].conv = c /\ messages[row].key = k
    ELSE /\ LiveMessages(c, k) = {}
         /\ Once(k) => ~HasAcknowledgedEvent(k)

\* What accepting an event may do to that row and to the turn it joins.
Accepted(c, k, row) ==
    /\ UNCHANGED <<lastTurn, cooldown>>
    /\ sequence' \in Nat /\ row \in 1..sequence' /\ sequence <= sequence'
    /\ DOMAIN messages' = DOMAIN messages \cup {row}
    /\ messages' \in [DOMAIN messages' -> Message]
    /\ \A m \in DOMAIN messages : m # row => messages'[m] = messages[m]
    /\ messages'[row].conv = c /\ messages'[row].key = k
    /\ messages'[row].state = IF row \in DOMAIN messages THEN messages[row].state ELSE "pending"

Stays(row) ==
    IF row \in DOMAIN messages
    THEN /\ messages'[row].turn = messages[row].turn
         /\ messages'[row].position = messages[row].position
    ELSE messages'[row].turn = NoTurn

JoinsTurn(c, row, t) ==
    /\ t \in 1..lastTurn /\ Open(t) /\ turns[t].conv = c /\ turns[t].state # "processed"
    /\ row \in DOMAIN messages => messages[row].turn = NoTurn
    /\ messages'[row].turn = t
    /\ NextPosition(t, messages'[row].position)

LEMMA AcceptedIInv ==
  ASSUME IInv, NEW c \in Conversation, NEW k \in Key, NEW row,
         RowFits(c, k, row), Accepted(c, k, row), OnlyRefreshed(turns, turns'),
         Stays(row) \/ \E t : JoinsTurn(c, row, t)
  PROVE  IInv'
<1>t. TypeOK
  BY DEF IInv
<1>0. \A m \in DOMAIN messages :
        messages[m].turn # NoTurn => messages[m].turn \in 1..lastTurn
  BY <1>t DEF TypeOK, NoTurn
<1>1. \A s \in 1..lastTurn :
        /\ turns'[s].conv = turns[s].conv /\ turns'[s].prompt = turns[s].prompt
        /\ turns'[s].recoveryOf = turns[s].recoveryOf
        /\ turns'[s].supersededBy = turns[s].supersededBy
        /\ turns'[s].acknowledged = turns[s].acknowledged
        /\ turns'[s].generation = turns[s].generation
        /\ turns'[s].state = "processed" <=> turns[s].state = "processed"
  BY DEF OnlyRefreshed
<1>2. \A s \in 1..lastTurn : Open(s)' <=> Open(s)
  BY <1>1 DEF Open
<1>3. /\ UNCHANGED <<lastTurn, cooldown>>
      /\ DOMAIN messages' = DOMAIN messages \cup {row}
      /\ \A m \in DOMAIN messages : m # row => messages'[m] = messages[m]
      /\ messages'[row].conv = c /\ messages'[row].key = k
  BY DEF Accepted
<1>4. /\ Live(row)'
      /\ messages'[row].turn \in 0..lastTurn
      /\ messages'[row].turn # NoTurn => turns[messages'[row].turn].conv = c
      /\ messages'[row].turn # NoTurn => ~turns[messages'[row].turn].acknowledged
  <2>1. CASE Stays(row) /\ row \in DOMAIN messages
    <3>1. messages'[row].turn = messages[row].turn /\ Live(row) /\ messages[row].conv = c
      BY <2>1 DEF Stays, RowFits
    <3>2. messages[row].turn # NoTurn =>
            messages[row].turn \in 1..lastTurn /\ turns[messages[row].turn].conv = c
      BY <2>1, <3>1, <1>0 DEF IInv, Owners
    <3>3. messages'[row].turn \in 0..lastTurn
      BY <2>1, <3>1, <1>t DEF TypeOK
    <3> QED
      BY <3>1, <3>2, <3>3, <1>2 DEF Live, Open, NoTurn
  <2>2. CASE Stays(row) /\ row \notin DOMAIN messages
    BY <2>2, <1>t DEF Stays, Live, NoTurn, TypeOK
  <2>3. CASE \E t : JoinsTurn(c, row, t)
    BY <2>3, <1>2 DEF JoinsTurn, Live, Open
  <2> QED
    BY <2>1, <2>2, <2>3
<1>5. \A m \in DOMAIN messages : m # row => (Live(m)' <=> Live(m))
  BY <1>0, <1>2, <1>3 DEF Live
<1>6. \A s \in 1..lastTurn : s # messages'[row].turn => Events(s)' = Events(s)
  <2> SUFFICES ASSUME NEW s \in 1..lastTurn, s # messages'[row].turn
               PROVE  Events(s)' = Events(s)
    OBVIOUS
  <2>1. row \in DOMAIN messages => messages[row].turn # s
    BY DEF Stays, JoinsTurn, NoTurn
  <2> QED
    BY <1>3, <2>1 DEF Events
<1>7. TypeOK'
  <2>1. IsFiniteSet(DOMAIN messages')
    BY <1>t, <1>3, FS_AddElement DEF TypeOK
  <2>2. DOMAIN messages' \subseteq 1..sequence'
    BY <1>t, <1>3 DEF TypeOK, Accepted
  <2>3. \A m \in DOMAIN messages' : messages'[m].turn \in 0..lastTurn
    BY <1>t, <1>3, <1>4 DEF TypeOK
  <2>4. turns' \in [1..lastTurn' -> Turn] /\ messages' \in [DOMAIN messages' -> Message]
        /\ sequence' \in Nat
    BY <1>3 DEF OnlyRefreshed, Accepted
  <2> QED
    BY <1>t, <1>1, <1>3, <2>1, <2>2, <2>3, <2>4 DEF TypeOK
<1>8. TurnStates'
  BY <1>1, <1>3 DEF IInv, TurnStates
<1>9. Owners'
  <2> SUFFICES ASSUME NEW m \in DOMAIN messages', messages'[m].turn # NoTurn
               PROVE  messages'[m].conv = turns'[messages'[m].turn].conv
    BY DEF Owners
  <2>1. CASE m = row
    <3>1. messages'[row].turn \in 1..lastTurn
      BY <2>1, <1>4, <1>t DEF TypeOK, NoTurn
    <3>2. turns'[messages'[row].turn].conv = turns[messages'[row].turn].conv
      BY <3>1, <1>1
    <3>3. turns[messages'[row].turn].conv = c
      BY <2>1, <1>4
    <3> QED
      BY <2>1, <3>2, <3>3, <1>3
  <2>2. CASE m # row
    BY <2>2, <1>0, <1>1, <1>3 DEF IInv, Owners
  <2> QED
    BY <2>1, <2>2
<1>10. OneOpenTurn'
  BY <1>1, <1>2, <1>3 DEF IInv, OneOpenTurn
<1>11. OneLiveMessage'
  <2>1. ASSUME NEW m \in DOMAIN messages, m # row, Live(m),
               InScope(m, c, k) \/ InScope(row, messages[m].conv, messages[m].key)'
        PROVE  FALSE
    <3>1. messages[m].key = k /\ (Once(k) \/ messages[m].conv = c)
      BY <2>1, <1>3 DEF InScope
    <3>2. CASE row \in DOMAIN messages
      BY <2>1, <3>1, <3>2 DEF RowFits, IInv, OneLiveMessage, InScope
    <3>3. CASE row \notin DOMAIN messages
      BY <2>1, <3>1, <3>3 DEF RowFits, LiveMessages, InScope
    <3> QED
      BY <3>2, <3>3
  <2> SUFFICES ASSUME NEW m \in DOMAIN messages', NEW n \in DOMAIN messages',
                      Live(m)', Live(n)', InScope(n, messages[m].conv, messages[m].key)'
               PROVE  m = n
    BY DEF OneLiveMessage
  <2>2. CASE m = row \/ n = row
    BY <2>1, <2>2, <1>3, <1>5 DEF InScope
  <2>3. CASE m # row /\ n # row
    BY <2>3, <1>3, <1>5 DEF InScope, IInv, OneLiveMessage
  <2> QED
    BY <2>2, <2>3
<1>12. OnceNeverRepeats'
  <2>1. ASSUME NEW j, HasAcknowledgedEvent(j)' PROVE HasAcknowledgedEvent(j)
    <3>1. PICK m \in DOMAIN messages' :
            /\ messages'[m].key = j
            /\ messages'[m].turn # NoTurn /\ turns'[messages'[m].turn].acknowledged
      BY <2>1 DEF HasAcknowledgedEvent
    <3>2. m # row
      BY <3>1, <1>1, <1>4 DEF NoTurn
    <3>3. m \in DOMAIN messages /\ messages'[m] = messages[m]
      BY <3>2, <1>3
    <3> QED
      BY <3>1, <3>3, <1>0, <1>1 DEF HasAcknowledgedEvent
  <2>2. Once(k) => ~HasAcknowledgedEvent(k)
    BY DEF RowFits, IInv, OnceNeverRepeats
  <2> SUFFICES ASSUME NEW m \in DOMAIN messages', Once(messages'[m].key),
                      HasAcknowledgedEvent(messages[m].key)', Live(m)'
               PROVE  FALSE
    BY DEF OnceNeverRepeats
  <2>3. HasAcknowledgedEvent(messages'[m].key)
    BY <2>1
  <2>4. m # row
    BY <2>2, <2>3, <1>3
  <2> QED
    BY <2>3, <2>4, <1>3, <1>5 DEF IInv, OnceNeverRepeats
<1>13. Positions'
  <2>1. CASE Stays(row)
    <3>1. \A s \in 1..lastTurn : Events(s)' = Events(s)
      BY <2>1, <1>3 DEF Stays, Events, NoTurn
    <3>2. \A m \in DOMAIN messages : /\ messages'[m].turn = messages[m].turn
                                     /\ messages'[m].position = messages[m].position
      BY <2>1, <1>3 DEF Stays
    <3>3. row \notin DOMAIN messages => messages'[row].turn = NoTurn
      BY <2>1 DEF Stays
    <3>4. (\A s \in 1..lastTurn : \A m \in Events(s) :
              messages[m].position \in 1..Cardinality(Events(s)))'
      BY <3>1, <3>2, <1>3 DEF IInv, Positions, Events
    <3> QED
      BY <3>2, <3>3, <3>4, <1>3 DEF IInv, Positions
  <2>2. CASE \E t : JoinsTurn(c, row, t)
    <3> PICK t : JoinsTurn(c, row, t)
      BY <2>2
    <3> DEFINE q == messages'[row].position
               N == Cardinality(Events(t))
    <3>1. t \in 1..lastTurn /\ messages'[row].turn = t /\ NextPosition(t, q)
          /\ row \notin Events(t)
      BY DEF JoinsTurn, Events, NoTurn
    <3>2. Events(t)' = Events(t) \cup {row}
      BY <3>1, <1>3 DEF Events
    <3>3. IsFiniteSet(Events(t))
      BY <1>t, FS_Subset DEF TypeOK, Events
    <3>4. N \in Nat /\ Cardinality(Events(t)') = N + 1
      BY <3>1, <3>2, <3>3, FS_CardinalityType, FS_AddElement
    <3>5. \A m \in Events(t) : messages[m].position \in 1..N /\ messages'[m] = messages[m]
      BY <3>1, <1>3 DEF IInv, Positions, Events
    <3>6. q \in Nat
      BY <1>3 DEF Accepted, Message
    <3>7. q \in 1..(N + 1)
      BY <3>1, <3>4, <3>5, <3>6 DEF NextPosition
    <3>8. \A m \in Events(t) : messages[m].position # q
      BY <3>1, <3>4, <3>5, <3>6 DEF NextPosition
    <3>9. (\A s \in 1..lastTurn : \A m \in Events(s) :
              messages[m].position \in 1..Cardinality(Events(s)))'
      <4> SUFFICES ASSUME NEW s \in 1..lastTurn, NEW m \in Events(s)'
                   PROVE  messages'[m].position \in 1..Cardinality(Events(s)')
        BY <1>3
      <4>1. CASE s = t
        BY <4>1, <3>2, <3>4, <3>5, <3>7
      <4>2. CASE s # t
        <5>1. m \in Events(s) /\ Events(s)' = Events(s)
          BY <4>2, <3>1, <1>6
        <5>2. m # row
          BY <4>2, <3>1 DEF Events
        <5> QED
          BY <5>1, <5>2, <1>3 DEF IInv, Positions, Events
      <4> QED
        BY <4>1, <4>2
    <3>10. \A m \in DOMAIN messages : m # row =>
             ~(messages'[m].turn = messages'[row].turn /\ messages'[m].position = q)
      BY <3>1, <3>5, <3>8, <1>3 DEF Events
    <3> QED
      BY <3>9, <3>10, <1>3 DEF IInv, Positions
  <2> QED
    BY <2>1, <2>2
<1>14. ProcessedTurnComplete'
  <2> SUFFICES ASSUME NEW s \in 1..lastTurn, turns'[s].state = "processed"
               PROVE  /\ turns'[s].prompt = "processed"
                      /\ \A m \in Events(s)' : messages'[m].state = "processed"
    BY <1>3 DEF ProcessedTurnComplete
  <2>1. turns[s].state = "processed" /\ turns'[s].prompt = "processed"
        /\ \A m \in Events(s) : messages[m].state = "processed"
    BY <1>1 DEF IInv, ProcessedTurnComplete
  <2>2. \A m \in Events(s)' : m \in Events(s)
    <3>1. row \notin DOMAIN messages \/ messages[row].turn = NoTurn
              \/ messages'[row].turn = messages[row].turn
      BY DEF Stays, JoinsTurn
    <3>2. row \in Events(s)' => row \in DOMAIN messages /\ messages[row].turn = s
      BY <2>1 DEF Stays, JoinsTurn, Events, NoTurn
    <3> QED
      BY <3>2, <1>3 DEF Events
  <2>3. \A m \in Events(s) : messages'[m].state = messages[m].state
    BY <1>3 DEF Accepted, Events
  <2> QED
    BY <2>1, <2>2, <2>3
<1>15. RecoveryChain'
  <2>1. \A s \in 1..lastTurn :
          turns[s].supersededBy # NoTurn => turns[s].supersededBy \in 1..lastTurn
    BY <1>t DEF TypeOK, NoTurn
  <2> QED
    BY <2>1, <1>1, <1>3 DEF IInv, RecoveryChain
<1> QED
  BY <1>7, <1>8, <1>9, <1>10, <1>11, <1>12, <1>13, <1>14, <1>15 DEF IInv

\* _enqueue works on the one live row of the key, or on a fresh one.
LEMMA QueuedRowFits ==
  ASSUME IInv, NEW c \in Conversation, NEW k \in Key, ~Suppressed(c, k)
  PROVE  /\ RowFits(c, k, QueuedRow(c, k))
         /\ IF LiveMessages(c, k) = {}
            THEN QueuedRow(c, k) = sequence + 1 /\ QueuedRow(c, k) \notin DOMAIN messages
            ELSE QueuedRow(c, k) \in LiveMessages(c, k)
<1> DEFINE L == LiveMessages(c, k)
           row == QueuedRow(c, k)
<1>t. TypeOK
  BY DEF IInv
<1>1. CASE L = {}
  <2>1. row = sequence + 1
    BY <1>1 DEF QueuedRow
  <2>2. row \notin DOMAIN messages
    BY <2>1, <1>t DEF TypeOK
  <2> QED
    BY <1>1, <2>1, <2>2 DEF RowFits, Suppressed
<1>2. CASE L # {}
  <2>1. \A m, n \in L : m = n
    BY DEF LiveMessages, InScope, IInv, OneLiveMessage
  <2>2. \A m \in L : m \in Int
    BY <1>t DEF LiveMessages, TypeOK
  <2>3. \E m \in L : \A n \in L : n <= m
    BY <1>2, <2>1, <2>2
  <2>4. row \in L
    BY <1>2, <2>3 DEF QueuedRow
  <2>5. messages[row].conv = c
    BY <1>2, <2>4 DEF Suppressed, LiveMessages, InScope
  <2> QED
    BY <1>2, <2>4, <2>5 DEF RowFits, LiveMessages, InScope
<1> QED
  BY <1>1, <1>2

\* The rows a write of one row leaves: every other is as it was.
WritesRow(q, c, k, row) ==
    /\ DOMAIN q = DOMAIN messages \cup {row}
    /\ q \in [DOMAIN messages \cup {row} -> Message]
    /\ \A m \in DOMAIN messages : m # row => q[m] = messages[m]
    /\ q[row].conv = c /\ q[row].key = k
    /\ IF row \in DOMAIN messages
       THEN /\ q[row].state = messages[row].state /\ q[row].turn = messages[row].turn
            /\ q[row].position = messages[row].position
       ELSE q[row].turn = NoTurn /\ q[row].state = "pending"

\* _enqueue writes the row of its event only.
LEMMA QueuedRows ==
  ASSUME IInv, NEW c \in Conversation, NEW k \in Key, NEW b \in Body, NEW p \in 0..2,
         ~Suppressed(c, k)
  PROVE  WritesRow(Queued(c, k, b, p), c, k, QueuedRow(c, k))
<1> DEFINE row == QueuedRow(c, k)
           q == Queued(c, k, b, p)
           new == [conv |-> c, key |-> k, body |-> b, state |-> "pending",
                   priority |-> p, turn |-> NoTurn, position |-> 0]
<1>t. messages \in [DOMAIN messages -> Message]
  BY DEF IInv, TypeOK
<1>1. RowFits(c, k, row)
  BY QueuedRowFits
<1>2. CASE LiveMessages(c, k) = {}
  <2>1. row \notin DOMAIN messages
    BY <1>2, QueuedRowFits
  <2>2. q = [x \in DOMAIN messages \cup {row} |-> IF x = row THEN new ELSE messages[x]]
    BY <1>2 DEF Queued, Put
  <2>3. new \in Message
    BY DEF Message, DeliveryState, NoTurn
  <2> HIDE DEF row
  <2>4. q[row] = new /\ \A m \in DOMAIN messages : q[m] = messages[m]
    BY <2>1, <2>2
  <2>5. new.conv = c /\ new.key = k /\ new.turn = NoTurn /\ new.state = "pending"
    OBVIOUS
  <2> HIDE DEF q, new
  <2> QED
    BY <1>t, <2>1, <2>2, <2>3, <2>4, <2>5 DEF row, q, WritesRow
<1>3. CASE LiveMessages(c, k) # {}
  <2>1. row \in DOMAIN messages /\ messages[row].conv = c /\ messages[row].key = k
    BY <1>1, <1>3, QueuedRowFits DEF RowFits, LiveMessages
  <2>2. q = [messages EXCEPT ![row].priority = p] \/ q = messages
    BY <1>3 DEF Queued
  <2>3. CASE q = [messages EXCEPT ![row].priority = p]
    <3> HIDE DEF row
    <3>1. messages[row] \in Message
      BY <2>1, <1>t
    <3>2. q \in [DOMAIN messages -> Message]
      BY <2>1, <2>3, <3>1, <1>t DEF Message
    <3>3. q[row] = [messages[row] EXCEPT !.priority = p]
          /\ \A m \in DOMAIN messages : m # row => q[m] = messages[m]
      BY <2>1, <2>3, <1>t
    <3>4. /\ q[row].conv = c /\ q[row].key = k /\ q[row].state = messages[row].state
          /\ q[row].turn = messages[row].turn /\ q[row].position = messages[row].position
      BY <2>1, <3>1, <3>3 DEF Message
    <3>5. DOMAIN messages \cup {row} = DOMAIN messages
      BY <2>1
    <3> HIDE DEF q
    <3> QED
      BY <2>1, <3>2, <3>3, <3>4, <3>5 DEF q, row, WritesRow
  <2>4. CASE q = messages
    <3> HIDE DEF row, q, WritesRow
    <3>1. DOMAIN messages \cup {row} = DOMAIN messages
      BY <2>1
    <3> QED
      BY <2>1, <2>4, <3>1, <1>t DEF q, row, WritesRow
  <2> QED
    BY <2>2, <2>3, <2>4
<1> QED
  BY <1>2, <1>3

\* What an operation that accepts an event does: to the row of the event and, if it
\* joins one, to a turn.
AcceptsRow(c, k, row) ==
    /\ RowFits(c, k, row) /\ Accepted(c, k, row) /\ OnlyRefreshed(turns, turns')
    /\ Stays(row) \/ \E t : JoinsTurn(c, row, t)

LEMMA EnqueueRows ==
  ASSUME IInv, NEW c \in Conversation, NEW k \in Key, NEW b \in Body, NEW p \in 0..2,
         Enqueue(c, k, b, p)
  PROVE  \E row : AcceptsRow(c, k, row)
<1> DEFINE row == QueuedRow(c, k)
<1>0. /\ ~Suppressed(c, k) /\ messages' = Queued(c, k, b, p)
      /\ sequence' = IF row > sequence THEN sequence + 1 ELSE sequence
      /\ UNCHANGED <<turns, lastTurn, cooldown>>
  BY DEF Enqueue, Accepts
<1>1. RowFits(c, k, row)
  BY <1>0, QueuedRowFits
<1>2. sequence' \in Nat /\ row \in 1..sequence' /\ sequence <= sequence'
  <2>1. row = sequence + 1 \/ row \in DOMAIN messages
    BY <1>0, QueuedRowFits DEF LiveMessages
  <2> HIDE DEF row
  <2> QED
    BY <2>1, <1>0 DEF IInv, TypeOK
<1>q. WritesRow(messages', c, k, row)
  BY <1>0, QueuedRows
<1> HIDE DEF row
<1>3. Accepted(c, k, row) /\ Stays(row)
  BY <1>0, <1>2, <1>q DEF Accepted, Stays, WritesRow
<1>4. OnlyRefreshed(turns, turns')
  BY <1>0 DEF IInv, TypeOK, OnlyRefreshed
<1> QED
  BY <1>1, <1>3, <1>4 DEF AcceptsRow

\* A turn an event may be steered into is open and unprocessed.
LEMMA SteerTargetsOpen ==
  ASSUME NEW c, NEW p, NEW t \in SteerTargets(c, p)
  PROVE  t \in 1..lastTurn /\ Open(t) /\ turns[t].conv = c /\ turns[t].state # "processed"
BY DEF SteerTargets, ActiveTurns, QuarantinedTurns, UnfinishedTurns

\* Reopening a turn touches its counters and its quarantine only.
LEMMA SteeredTurns ==
  ASSUME NEW t \in 1..lastTurn, NEW p, turns \in [1..lastTurn -> Turn]
  PROVE  OnlyRefreshed(turns, Steered(t, p))
<1>1. turns[t] \in Turn
  OBVIOUS
<1>2. Steered(t, p) \in [1..lastTurn -> Turn]
  BY <1>1 DEF Steered, Turn
<1>3. /\ \A s \in 1..lastTurn : s # t => Steered(t, p)[s] = turns[s]
      /\ \/ Steered(t, p)[t] = turns[t]
         \/ Steered(t, p)[t] = [turns[t] EXCEPT !.stalled = 0, !.attempts = 0,
                                                 !.quarantined = FALSE]
  BY <1>1 DEF Steered, Turn
<1>4. LET u == Steered(t, p)[t] IN
      /\ u.conv = turns[t].conv /\ u.prompt = turns[t].prompt
      /\ u.recoveryOf = turns[t].recoveryOf /\ u.supersededBy = turns[t].supersededBy
      /\ u.acknowledged = turns[t].acknowledged /\ u.generation = turns[t].generation
      /\ u.contextReset = turns[t].contextReset
      /\ u.quarantined => turns[t].quarantined
      /\ u.state = turns[t].state
  BY <1>1, <1>3 DEF Turn
<1> QED
  BY <1>2, <1>3, <1>4 DEF OnlyRefreshed

LEMMA SteerTurnRows ==
  ASSUME IInv, NEW c \in Conversation, NEW k \in Key, NEW b \in Body, NEW p \in 0..2,
         NEW t \in 1..lastTurn, SteerTurn(c, k, b, p, t)
  PROVE  \E row : AcceptsRow(c, k, row)
<1> DEFINE row == QueuedRow(c, k)
           q == Queued(c, k, b, p)
<1>0. /\ ~Suppressed(c, k) /\ t \in SteerTargets(c, p) /\ q[row].turn = NoTurn
      /\ sequence' = IF row > sequence THEN sequence + 1 ELSE sequence
      /\ turns' = Refreshed(messages', Steered(t, p), t)
      /\ UNCHANGED <<lastTurn, cooldown>>
  BY DEF SteerTurn, Accepts, Joins
<1>1. RowFits(c, k, row)
  BY <1>0, QueuedRowFits
<1>2. sequence' \in Nat /\ row \in 1..sequence' /\ sequence <= sequence'
  <2>1. row = sequence + 1 \/ row \in DOMAIN messages
    BY <1>0, QueuedRowFits DEF LiveMessages
  <2> HIDE DEF row
  <2> QED
    BY <2>1, <1>0 DEF IInv, TypeOK
<1>3. PICK position \in 1..(sequence + 1) :
        /\ NextPosition(t, position)
        /\ messages' = [q EXCEPT ![row].turn = t, ![row].position = position]
  BY DEF SteerTurn
<1>q. WritesRow(q, c, k, row)
  BY <1>0, QueuedRows
<1> HIDE DEF row, q
<1>4. q[row] \in Message /\ t \in Nat /\ position \in Nat
  BY <1>q DEF IInv, TypeOK, WritesRow
<1>5. messages' = [q EXCEPT ![row] = [q[row] EXCEPT !.turn = t, !.position = position]]
  BY <1>3, <1>q, <1>4 DEF Message, WritesRow
<1>6. [q[row] EXCEPT !.turn = t, !.position = position] \in Message
  BY <1>4 DEF Message
<1>7. /\ DOMAIN messages' = DOMAIN messages \cup {row}
      /\ messages' \in [DOMAIN messages' -> Message]
      /\ \A m \in DOMAIN messages : m # row => messages'[m] = messages[m]
      /\ messages'[row] = [q[row] EXCEPT !.turn = t, !.position = position]
  BY <1>q, <1>5, <1>6 DEF WritesRow
<1>8. /\ messages'[row].conv = c /\ messages'[row].key = k
      /\ messages'[row].state = q[row].state
      /\ messages'[row].turn = t /\ messages'[row].position = position
  BY <1>4, <1>7, <1>q DEF Message, WritesRow
<1>9. Accepted(c, k, row)
  BY <1>0, <1>2, <1>7, <1>8, <1>q DEF Accepted, WritesRow
<1>10. JoinsTurn(c, row, t)
  BY <1>0, <1>3, <1>8, <1>q, SteerTargetsOpen DEF JoinsTurn, WritesRow
<1>11. OnlyRefreshed(turns, turns')
  <2>1. turns \in [1..lastTurn -> Turn]
    BY DEF IInv, TypeOK
  <2>2. OnlyRefreshed(turns, Steered(t, p))
    BY <2>1, SteeredTurns
  <2>3. OnlyRefreshed(Steered(t, p), turns')
    <3>1. Steered(t, p) \in [1..lastTurn -> Turn]
      BY <2>2 DEF OnlyRefreshed
    <3> QED
      BY <1>0, <3>1, RefreshedTurns
  <2> QED
    BY <2>2, <2>3 DEF OnlyRefreshed
<1> QED
  BY <1>1, <1>9, <1>10, <1>11 DEF AcceptsRow

LEMMA EventRows ==
  ASSUME IInv, NEW c \in Conversation, NEW k \in Key, NEW b \in Body,
         ControllerEvent(c, k, b) \/ PumpEvent(c, k, b)
  PROVE  \E row : AcceptsRow(c, k, row)
<1>1. PICK p \in 0..2 : Enqueue(c, k, b, p) \/ Steer(c, k, b, p)
  BY DEF ControllerEvent, PumpEvent, QUEUE_PRIORITY, STEER_PRIORITY
<1> QED
  BY <1>1, EnqueueRows, SteerTurnRows DEF Steer, SteerQueue

LEMMA AcceptIInv == ASSUME IInv, Accept PROVE IInv'
<1>1. PICK c \in Conversation, k \in Key, b \in Body :
        ControllerEvent(c, k, b) \/ PumpEvent(c, k, b)
  BY DEF Accept
<1> QED
  BY <1>1, EventRows, AcceptedIInv DEF AcceptsRow

-----------------------------------------------------------------------------
(* Opening turns. *)

\* next_turn numbers its batch 1 .. n in the order it was read.
LEMMA BatchPositions ==
  ASSUME IInv, NEW c \in Conversation
  PROVE  /\ \A m \in Batch(c) : Cardinality(Ahead(c, m)) + 1 \in 1..Cardinality(Batch(c))
         /\ \A m, n \in Batch(c) : Cardinality(Ahead(c, m)) = Cardinality(Ahead(c, n)) => m = n
<1>t. TypeOK
  BY DEF IInv
<1>1. Pending(c) \subseteq DOMAIN messages /\ IsFiniteSet(Pending(c))
  BY <1>t, FS_Subset DEF Pending, TypeOK
<1>2. \A m \in Pending(c) : m \in Nat /\ messages[m].priority \in 0..2
  <2> SUFFICES ASSUME NEW m \in Pending(c) PROVE m \in Nat /\ messages[m].priority \in 0..2
    OBVIOUS
  <2>1. m \in 1..sequence /\ messages[m] \in Message
    BY <1>1, <1>t DEF TypeOK
  <2> QED
    BY <2>1 DEF Message
<1>3. Batch(c) \subseteq Pending(c) /\ IsFiniteSet(Batch(c))
  BY <1>1, FS_Subset DEF Batch
<1>4. ASSUME NEW m \in Pending(c), NEW n \in Pending(c), NEW o \in Pending(c),
             Before(o, m), Before(m, n)
      PROVE  Before(o, n) /\ o # m
  BY <1>2, <1>4 DEF Before
<1>5. \A m, n \in Pending(c) : m # n => Before(m, n) \/ Before(n, m)
  BY <1>2 DEF Before
<1>6. \A m \in Pending(c) : ~Before(m, m)
  BY <1>2 DEF Before
<1>7. \A m \in Pending(c) : IsFiniteSet(Ahead(c, m)) /\ Cardinality(Ahead(c, m)) \in Nat
  BY <1>1, FS_Subset, FS_CardinalityType DEF Ahead
<1>8. ASSUME NEW m \in Batch(c)
      PROVE  Cardinality(Ahead(c, m)) + 1 \in 1..Cardinality(Batch(c))
  <2>1. Ahead(c, m) \subseteq Batch(c)
    <3> SUFFICES ASSUME NEW n \in Ahead(c, m) PROVE n \in Batch(c)
      OBVIOUS
    <3>1. n \in Pending(c) /\ m \in Pending(c) /\ Before(n, m)
      BY <1>3 DEF Ahead
    <3>2. Ahead(c, n) \cup {n} \subseteq Ahead(c, m) \cup {m}
      BY <3>1, <1>4 DEF Ahead
    <3> QED
      BY <3>1, <3>2 DEF Batch
  <2>2. Ahead(c, m) \cup {m} \subseteq Batch(c) /\ m \notin Ahead(c, m)
    BY <2>1, <1>3, <1>6 DEF Ahead
  <2>3. Cardinality(Ahead(c, m) \cup {m}) = Cardinality(Ahead(c, m)) + 1
    BY <2>2, <1>3, <1>7, FS_AddElement
  <2>4. Cardinality(Ahead(c, m) \cup {m}) <= Cardinality(Batch(c))
    BY <2>2, <1>3, FS_Subset
  <2> QED
    BY <2>3, <2>4, <1>3, <1>7, FS_CardinalityType
<1>9. ASSUME NEW m \in Batch(c), NEW n \in Batch(c), Before(m, n)
      PROVE  Cardinality(Ahead(c, m)) < Cardinality(Ahead(c, n))
  <2>1. m \in Pending(c) /\ n \in Pending(c)
    BY <1>3
  <2>2. Ahead(c, m) \cup {m} \subseteq Ahead(c, n) /\ m \notin Ahead(c, m)
    BY <2>1, <1>4, <1>6, <1>9 DEF Ahead
  <2>3. Cardinality(Ahead(c, m) \cup {m}) = Cardinality(Ahead(c, m)) + 1
    BY <2>1, <2>2, <1>7, FS_AddElement
  <2>4. Cardinality(Ahead(c, m) \cup {m}) <= Cardinality(Ahead(c, n))
    BY <2>1, <2>2, <1>7, FS_Subset
  <2> QED
    BY <2>1, <2>3, <2>4, <1>7
<1>10. ASSUME NEW m \in Batch(c), NEW n \in Batch(c),
              Cardinality(Ahead(c, m)) = Cardinality(Ahead(c, n))
       PROVE  m = n
  <2>1. m \in Pending(c) /\ n \in Pending(c)
    BY <1>3
  <2> QED
    BY <2>1, <1>5, <1>7, <1>9, <1>10
<1> QED
  BY <1>8, <1>10

\* next_turn adds a turn and binds the batch to it.
LEMMA NextTurnRows ==
  ASSUME IInv, NEW c \in Conversation, NextTurn(c), NEW new, new = lastTurn + 1
  PROVE  /\ turns' \in [1..new -> Turn]
         /\ \A t \in 1..lastTurn : turns'[t] = turns[t]
         /\ turns'[new] = NewTurn(c, NoTurn, 0)
         /\ messages' \in [DOMAIN messages -> Message] /\ DOMAIN messages' = DOMAIN messages
         /\ \A m \in DOMAIN messages \ Batch(c) : messages'[m] = messages[m]
         /\ \A m \in Batch(c) : /\ messages'[m].turn = new
                                /\ messages'[m].position = Cardinality(Ahead(c, m)) + 1
         /\ \A m \in DOMAIN messages : /\ messages'[m].conv = messages[m].conv
                                       /\ messages'[m].key = messages[m].key
                                       /\ messages'[m].state = messages[m].state
<1> DEFINE batch == Batch(c)
<1>t. TypeOK
  BY DEF IInv
<1>0. /\ lastTurn \in Nat /\ new \in Nat /\ new # NoTurn /\ new \notin 1..lastTurn
      /\ 1..new = 1..lastTurn \cup {new}
  <2>1. lastTurn \in Nat
    BY <1>t DEF TypeOK
  <2> QED
    BY <2>1 DEF NoTurn
<1>c. lastTurn' = new /\ UNCHANGED <<sequence, cooldown>>
  BY DEF NextTurn
<1>1. \A m \in batch : m \in DOMAIN messages /\ messages[m].turn = NoTurn
                       /\ messages[m].conv = c
  BY DEF Batch, Pending
<1>2. /\ turns' \in [1..new -> Turn]
      /\ \A t \in 1..lastTurn : turns'[t] = turns[t]
      /\ turns'[new] = NewTurn(c, NoTurn, 0)
  <2>1. NewTurn(c, NoTurn, 0) \in Turn
    BY DEF NewTurn, Turn, DeliveryState, NoTurn
  <2>2. turns' = [x \in DOMAIN turns \cup {new} |->
                    IF x = new THEN NewTurn(c, NoTurn, 0) ELSE turns[x]]
    BY <1>c DEF NextTurn, Put
  <2>3. turns \in [1..lastTurn -> Turn]
    BY <1>t DEF TypeOK
  <2> QED
    BY <1>0, <2>1, <2>2, <2>3
<1>4. /\ messages' \in [DOMAIN messages -> Message] /\ DOMAIN messages' = DOMAIN messages
      /\ \A m \in DOMAIN messages \ batch : messages'[m] = messages[m]
      /\ \A m \in batch : /\ messages'[m].turn = new
                          /\ messages'[m].position = Cardinality(Ahead(c, m)) + 1
      /\ \A m \in DOMAIN messages : /\ messages'[m].conv = messages[m].conv
                                    /\ messages'[m].key = messages[m].key
                                    /\ messages'[m].state = messages[m].state
  <2> DEFINE pos(m) == Cardinality(Ahead(c, m)) + 1
  <2>1. /\ DOMAIN messages' = DOMAIN messages
        /\ messages' = [m \in DOMAIN messages |-> messages'[m]]
    BY ZenonT(30) DEF NextTurn
  <2>2. ASSUME NEW m \in DOMAIN messages
        PROVE  messages'[m] = IF m \in batch
                              THEN [messages[m] EXCEPT !.turn = new, !.position = pos(m)]
                              ELSE messages[m]
    BY <1>c, ZenonT(30) DEF NextTurn
  <2>3. \A m \in batch : pos(m) \in Nat
    BY BatchPositions
  <2> HIDE DEF pos, batch
  <2>4. ASSUME NEW m \in DOMAIN messages
        PROVE  /\ messages'[m] \in Message
               /\ m \in batch => messages'[m].turn = new /\ messages'[m].position = pos(m)
               /\ m \notin batch => messages'[m] = messages[m]
               /\ messages'[m].conv = messages[m].conv
               /\ messages'[m].key = messages[m].key
               /\ messages'[m].state = messages[m].state
    <3>1. messages[m] \in Message
      BY <1>t DEF TypeOK
    <3>2. CASE m \in batch
      <4>1. messages'[m] = [messages[m] EXCEPT !.turn = new, !.position = pos(m)]
        BY <2>2, <3>2
      <4>2. pos(m) \in Nat
        BY <2>3, <3>2
      <4> QED
        BY <3>1, <3>2, <4>1, <4>2, <1>0 DEF Message
    <3>3. CASE m \notin batch
      BY <2>2, <3>1, <3>3
    <3> QED
      BY <3>2, <3>3
  <2> QED
    BY <1>1, <2>1, <2>4 DEF pos
<1> QED
  BY <1>2, <1>4

LEMMA NextTurnIInv ==
  ASSUME IInv, NEW c \in Conversation, NextTurn(c)
  PROVE  IInv'
<1> SUFFICES ASSUME NEW new, new = lastTurn + 1 PROVE IInv'
  OBVIOUS
<1> DEFINE batch == Batch(c)
<1>t. TypeOK
  BY DEF IInv
<1>0. /\ lastTurn \in Nat /\ new \in Nat /\ new # NoTurn /\ new \notin 1..lastTurn
      /\ 1..new = 1..lastTurn \cup {new}
  <2>1. lastTurn \in Nat
    BY <1>t DEF TypeOK
  <2> QED
    BY <2>1 DEF NoTurn
<1>c. lastTurn' = new /\ UNCHANGED <<sequence, cooldown>>
  BY DEF NextTurn
<1>1. \A m \in batch : m \in DOMAIN messages /\ messages[m].turn = NoTurn
                       /\ messages[m].conv = c
  BY DEF Batch, Pending
<1>2. /\ turns' \in [1..new -> Turn]
      /\ \A t \in 1..lastTurn : turns'[t] = turns[t]
      /\ turns'[new] = NewTurn(c, NoTurn, 0)
  BY NextTurnRows
<1>3. /\ turns'[new].conv = c /\ turns'[new].state = "pending"
      /\ turns'[new].supersededBy = NoTurn /\ turns'[new].generation = 0
      /\ ~turns'[new].acknowledged
  BY <1>2 DEF NewTurn
<1>4. /\ messages' \in [DOMAIN messages -> Message] /\ DOMAIN messages' = DOMAIN messages
      /\ \A m \in DOMAIN messages \ batch : messages'[m] = messages[m]
      /\ \A m \in batch : /\ messages'[m].turn = new
                          /\ messages'[m].position = Cardinality(Ahead(c, m)) + 1
      /\ \A m \in DOMAIN messages : /\ messages'[m].conv = messages[m].conv
                                    /\ messages'[m].key = messages[m].key
                                    /\ messages'[m].state = messages[m].state
  BY NextTurnRows
<1> HIDE DEF batch
<1>5. \A m \in DOMAIN messages :
        messages[m].turn # NoTurn => messages[m].turn \in 1..lastTurn
  BY <1>t DEF TypeOK, NoTurn
<1>6. Open(new)' /\ \A t \in 1..lastTurn : Open(t)' <=> Open(t)
  BY <1>2, <1>3 DEF Open
<1>7. \A m \in DOMAIN messages : Live(m)' <=> Live(m)
  <2> SUFFICES ASSUME NEW m \in DOMAIN messages PROVE Live(m)' <=> Live(m)
    OBVIOUS
  <2>1. CASE m \in batch
    BY <2>1, <1>1, <1>4, <1>6 DEF Live
  <2>2. CASE m \notin batch
    BY <2>2, <1>4, <1>5, <1>6 DEF Live
  <2> QED
    BY <2>1, <2>2
<1>8. /\ Events(new)' = batch
      /\ \A t \in 1..lastTurn : Events(t)' = Events(t)
  <2>1. Events(new)' = batch
    BY <1>0, <1>1, <1>4, <1>5 DEF Events
  <2>2. ASSUME NEW t \in 1..lastTurn PROVE Events(t)' = Events(t)
    BY <1>0, <1>1, <1>4 DEF Events, NoTurn
  <2> QED
    BY <2>1, <2>2
<1>9. TypeOK'
  <2>1. \A m \in DOMAIN messages : messages'[m].turn \in 0..new
    BY <1>t, <1>0, <1>4 DEF TypeOK
  <2>2. \A t \in 1..new : turns'[t].supersededBy \in 0..new
    BY <1>t, <1>0, <1>2, <1>3 DEF TypeOK, NoTurn
  <2> QED
    BY <1>t, <1>0, <1>c, <1>2, <1>4, <2>1, <2>2 DEF TypeOK
<1>10. TurnStates'
  BY <1>0, <1>c, <1>2, <1>3 DEF IInv, TurnStates
<1>11. Owners'
  <2> SUFFICES ASSUME NEW m \in DOMAIN messages, messages'[m].turn # NoTurn
               PROVE  messages'[m].conv = turns'[messages'[m].turn].conv
    BY <1>4 DEF Owners
  <2>1. CASE m \in batch
    BY <2>1, <1>1, <1>3, <1>4
  <2>2. CASE m \notin batch
    BY <2>2, <1>2, <1>4, <1>5 DEF IInv, Owners
  <2> QED
    BY <2>1, <2>2
<1>12. Positions'
  <2>1. \A t \in 1..new : \A m \in Events(t)' :
            messages'[m].position \in 1..Cardinality(Events(t)')
    <3> SUFFICES ASSUME NEW t \in 1..new, NEW m \in Events(t)'
                 PROVE  messages'[m].position \in 1..Cardinality(Events(t)')
      OBVIOUS
    <3>1. CASE t = new
      BY <3>1, <1>4, <1>8, BatchPositions DEF batch
    <3>2. CASE t # new
      <4>1. t \in 1..lastTurn /\ m \in Events(t) /\ Events(t)' = Events(t)
        BY <3>2, <1>0, <1>8
      <4>2. messages'[m] = messages[m]
        BY <4>1, <1>1, <1>4 DEF Events, NoTurn
      <4> QED
        BY <4>1, <4>2 DEF IInv, Positions
    <3> QED
      BY <3>1, <3>2
  <2>2. ASSUME NEW m \in DOMAIN messages, NEW n \in DOMAIN messages,
               messages'[m].turn = messages'[n].turn, messages'[m].turn # NoTurn,
               messages'[m].position = messages'[n].position
        PROVE  m = n
    <3>1. CASE m \in batch
      <4>1. n \in batch
        BY <2>2, <3>1, <1>0, <1>4, <1>5
      <4>2. Cardinality(Ahead(c, m)) = Cardinality(Ahead(c, n))
        <5>1. \A o \in batch : Cardinality(Ahead(c, o)) + 1 \in Nat
          BY BatchPositions DEF batch
        <5>2. \A o \in batch : Cardinality(Ahead(c, o)) \in Nat
          BY <1>t, <1>1, FS_Subset, FS_CardinalityType DEF TypeOK, Ahead, Pending
        <5> QED
          BY <2>2, <3>1, <4>1, <5>2, <1>4
      <4> QED
        BY <3>1, <4>1, <4>2, BatchPositions DEF batch
    <3>2. CASE m \notin batch
      <4>1. n \notin batch
        BY <2>2, <3>2, <1>0, <1>4, <1>5
      <4> QED
        BY <2>2, <3>2, <4>1, <1>4 DEF IInv, Positions
    <3> QED
      BY <3>1, <3>2
  <2> QED
    BY <2>1, <2>2, <1>c, <1>4 DEF Positions
<1>13. OneOpenTurn'
  <2>1. \A t \in 1..lastTurn : turns[t].conv = c => ~Open(t)
    <3> SUFFICES ASSUME NEW t \in 1..lastTurn, turns[t].conv = c, Open(t) PROVE FALSE
      OBVIOUS
    <3>1. turns[t].quarantined \in BOOLEAN
      BY <1>t DEF TypeOK, Turn
    <3>2. t \in ActiveTurns(c) \/ t \in QuarantinedTurns(c) \/ t \in ProcessedTurns
      BY <3>1 DEF ActiveTurns, QuarantinedTurns, UnfinishedTurns, ProcessedTurns
    <3> QED
      BY <3>2 DEF NextTurn, MayOpen
  <2> SUFFICES ASSUME NEW s \in 1..new, NEW t \in 1..new, Open(s)', Open(t)',
                      turns'[s].conv = turns'[t].conv
               PROVE  s = t
    BY <1>c DEF OneOpenTurn
  <2>2. CASE s \in 1..lastTurn /\ t \in 1..lastTurn
    BY <2>2, <1>2, <1>6 DEF IInv, OneOpenTurn
  <2>3. CASE s = new /\ t \in 1..lastTurn
    BY <2>1, <2>3, <1>2, <1>3, <1>6
  <2>4. CASE t = new /\ s \in 1..lastTurn
    BY <2>1, <2>4, <1>2, <1>3, <1>6
  <2> QED
    BY <2>2, <2>3, <2>4, <1>0
<1>14. OneLiveMessage'
  BY <1>4, <1>7 DEF IInv, OneLiveMessage, InScope
<1>15. OnceNeverRepeats'
  <2>1. ASSUME NEW k, HasAcknowledgedEvent(k)' PROVE HasAcknowledgedEvent(k)
    <3>1. PICK m \in DOMAIN messages :
            /\ messages'[m].key = k
            /\ messages'[m].turn # NoTurn /\ turns'[messages'[m].turn].acknowledged
      BY <2>1, <1>4 DEF HasAcknowledgedEvent
    <3>2. m \notin batch
      BY <3>1, <1>3, <1>4
    <3> QED
      BY <3>1, <3>2, <1>2, <1>4, <1>5 DEF HasAcknowledgedEvent
  <2> SUFFICES ASSUME NEW m \in DOMAIN messages, Once(messages'[m].key),
                      HasAcknowledgedEvent(messages[m].key)', Live(m)'
               PROVE  FALSE
    BY <1>4 DEF OnceNeverRepeats
  <2> QED
    BY <2>1, <1>4, <1>7 DEF IInv, OnceNeverRepeats
<1>16. ProcessedTurnComplete'
  <2> SUFFICES ASSUME NEW t \in 1..new, turns'[t].state = "processed"
               PROVE  /\ turns'[t].prompt = "processed"
                      /\ \A m \in Events(t)' : messages'[m].state = "processed"
    BY <1>c DEF ProcessedTurnComplete
  <2>1. t \in 1..lastTurn
    BY <1>0, <1>3
  <2>2. \A m \in Events(t) : m \in DOMAIN messages
    BY DEF Events
  <2> QED
    BY <2>1, <2>2, <1>2, <1>4, <1>8 DEF IInv, ProcessedTurnComplete
<1>17. RecoveryChain'
  <2>1. \A t \in 1..lastTurn :
          turns[t].supersededBy # NoTurn => turns[t].supersededBy \in 1..lastTurn
    BY <1>t DEF TypeOK, NoTurn
  <2>2. MaxGenerations \in Nat
    BY InboxAssumption
  <2> QED
    BY <2>1, <2>2, <1>0, <1>c, <1>2, <1>3 DEF IInv, RecoveryChain, NoTurn
<1> QED
  BY <1>9, <1>10, <1>11, <1>12, <1>13, <1>14, <1>15, <1>16, <1>17 DEF IInv

\* The row that takes over row m of a turn that is reset.
Copy(m) == sequence + messages[m].position

\* reset_turn gives each row of the turn one fresh row, and no row two.
LEMMA Copies ==
  ASSUME IInv, NEW t \in 1..lastTurn
  PROVE  LET N == Cardinality(Events(t))
             copies == {Copy(m) : m \in Events(t)} IN
         /\ N \in Nat /\ IsFiniteSet(copies) /\ Cardinality(copies) = N
         /\ \A m \in Events(t) : Copy(m) \in (sequence + 1)..(sequence + N)
         /\ \A m, n \in Events(t) : Copy(m) = Copy(n) => m = n
<1> DEFINE N == Cardinality(Events(t))
           copies == {Copy(m) : m \in Events(t)}
           f == [m \in Events(t) |-> Copy(m)]
<1>t. TypeOK
  BY DEF IInv
<1>1. IsFiniteSet(Events(t)) /\ N \in Nat /\ sequence \in Nat
  BY <1>t, FS_Subset, FS_CardinalityType DEF TypeOK, Events
<1>2. \A m \in Events(t) : messages[m].position \in 1..N
  BY DEF IInv, Positions
<1>3. \A m \in Events(t) : Copy(m) \in (sequence + 1)..(sequence + N)
  BY <1>1, <1>2 DEF Copy
<1>4. ASSUME NEW m \in Events(t), NEW n \in Events(t), Copy(m) = Copy(n)
      PROVE  m = n
  <2>1. messages[m].position \in 1..N /\ messages[n].position \in 1..N
    BY <1>2
  <2>2. messages[m].position = messages[n].position
    BY <1>1, <1>4, <2>1 DEF Copy
  <2>3. /\ m \in DOMAIN messages /\ n \in DOMAIN messages
        /\ messages[m].turn = t /\ messages[n].turn = t /\ t # NoTurn
    BY <1>t DEF Events, NoTurn, TypeOK
  <2> QED
    BY <2>2, <2>3 DEF IInv, Positions
<1>5. f \in Bijection(Events(t), copies)
  <2>1. \A m \in Events(t) : f[m] = Copy(m)
    OBVIOUS
  <2>2. f \in [Events(t) -> copies]
    OBVIOUS
  <2> HIDE DEF f
  <2>3. \A m, n \in Events(t) : f[m] = f[n] => m = n
    BY <2>1, <1>4
  <2>4. \A x \in copies : \E m \in Events(t) : f[m] = x
    BY <2>1
  <2> QED
    BY <2>2, <2>3, <2>4 DEF Bijection, Injection, IsInjective, Surjection
<1>6. IsFiniteSet(copies) /\ Cardinality(copies) = N
  BY <1>1, <1>5, FS_Bijection DEF ExistsBijection
<1> QED
  BY <1>1, <1>3, <1>4, <1>6

\* reset_turn adds a turn and copies of the rows of the turn it supersedes.
LEMMA ResetRows ==
  ASSUME IInv, NEW t \in 1..lastTurn, ResetTurn(t), NEW new, new = lastTurn + 1
  PROVE  /\ DOMAIN messages' = DOMAIN messages \cup {Copy(m) : m \in Events(t)}
         /\ messages' \in [DOMAIN messages' -> Message]
         /\ \A m \in DOMAIN messages : messages'[m] = messages[m]
         /\ \A m \in Events(t) :
             /\ Copy(m) \notin DOMAIN messages
             /\ messages'[Copy(m)].conv = messages[m].conv
             /\ messages'[Copy(m)].key = messages[m].key
             /\ messages'[Copy(m)].position = messages[m].position
             /\ messages'[Copy(m)].turn = new
             /\ messages'[Copy(m)].state = "pending"
<1> DEFINE copies == {Copy(m) : m \in Events(t)}
           source(r) == CHOOSE m \in Events(t) : r = Copy(m)
<1>t. TypeOK
  BY DEF IInv
<1>1. /\ DOMAIN messages' = DOMAIN messages \cup copies
      /\ messages' = [r \in DOMAIN messages' |-> messages'[r]]
  BY Zenon DEF ResetTurn, Copied, Copy
<1>2. \A r \in DOMAIN messages : messages'[r] = messages[r]
  BY Zenon DEF ResetTurn
<1>3. ASSUME NEW r \in copies, r \notin DOMAIN messages
      PROVE  messages'[r] = [messages[source(r)] EXCEPT !.state = "pending", !.turn = lastTurn']
  <2> DEFINE heir(y) == [messages[source(y)] EXCEPT !.state = "pending", !.turn = lastTurn']
  <2>1. messages' = [x \in DOMAIN messages \cup copies |->
                       IF x \in DOMAIN messages THEN messages[x] ELSE heir(x)]
    BY Zenon DEF ResetTurn, Copied, Copy
  <2>2. r \in DOMAIN messages \cup copies
    OBVIOUS
  <2>3. messages'[r] = heir(r)
    <3> HIDE DEF heir, copies
    <3> QED
      BY <1>3, <2>1, <2>2, Zenon
  <2> QED
    BY <2>3
<1>4. lastTurn' = new /\ new \in Nat
  <2>1. lastTurn' = lastTurn + 1
    BY Zenon DEF ResetTurn
  <2> QED
    BY <2>1, <1>t DEF TypeOK
<1>5. ASSUME NEW m \in Events(t)
      PROVE  /\ Copy(m) \in copies /\ Copy(m) \notin DOMAIN messages
             /\ source(Copy(m)) = m
  <2>1. Copy(m) \in (sequence + 1)..(sequence + Cardinality(Events(t)))
    BY Copies
  <2>2. Copy(m) \notin DOMAIN messages
    BY <2>1, <1>t, Copies DEF TypeOK
  <2>3. \A n \in Events(t) : Copy(m) = Copy(n) => n = m
    BY Copies
  <2> QED
    BY <2>2, <2>3
<1>6. ASSUME NEW m \in Events(t)
      PROVE  messages'[Copy(m)] = [messages[m] EXCEPT !.state = "pending", !.turn = new]
  BY <1>3, <1>4, <1>5
<1>7. \A m \in Events(t) : messages[m] \in Message
  BY <1>t DEF TypeOK, Events
<1> HIDE DEF copies, source
<1>8. ASSUME NEW m \in Events(t)
      PROVE  /\ messages'[Copy(m)] \in Message
             /\ messages'[Copy(m)].conv = messages[m].conv
             /\ messages'[Copy(m)].key = messages[m].key
             /\ messages'[Copy(m)].position = messages[m].position
             /\ messages'[Copy(m)].turn = new
             /\ messages'[Copy(m)].state = "pending"
  BY <1>4, <1>6, <1>7 DEF Message, DeliveryState
<1>9. ASSUME NEW r \in DOMAIN messages' PROVE messages'[r] \in Message
  <2>1. CASE r \in DOMAIN messages
    BY <2>1, <1>2, <1>t DEF TypeOK
  <2>2. CASE r \in copies
    BY <2>2, <1>8 DEF copies
  <2> QED
    BY <2>1, <2>2, <1>1
<1>10. messages' \in [DOMAIN messages' -> Message]
  BY <1>1, <1>9
<1> QED
  BY <1>1, <1>2, <1>5, <1>8, <1>10 DEF copies

LEMMA ResetTurns ==
  ASSUME IInv, NEW t \in 1..lastTurn, ResetTurn(t), NEW new, new = lastTurn + 1
  PROVE  /\ turns' \in [1..new -> Turn]
         /\ turns'[new] = NewTurn(turns[t].conv, t, turns[t].generation + 1)
         /\ turns'[t] = [turns[t] EXCEPT !.supersededBy = new]
         /\ \A s \in 1..lastTurn \ {t} : turns'[s] = turns[s]
<1>t. TypeOK
  BY DEF IInv
<1>0. /\ lastTurn \in Nat /\ new \in Nat /\ new # NoTurn /\ new \notin 1..lastTurn
      /\ 1..new = 1..lastTurn \cup {new}
  <2>1. lastTurn \in Nat
    BY <1>t DEF TypeOK
  <2> QED
    BY <2>1 DEF NoTurn
<1>c. lastTurn' = new
  BY DEF ResetTurn
<1>1. /\ turns' \in [1..new -> Turn]
      /\ turns'[new] = NewTurn(turns[t].conv, t, turns[t].generation + 1)
      /\ turns'[t] = [turns[t] EXCEPT !.supersededBy = new]
      /\ \A s \in 1..lastTurn \ {t} : turns'[s] = turns[s]
  <2> DEFINE gone == [turns EXCEPT ![t].supersededBy = new]
             heir == NewTurn(turns[t].conv, t, turns[t].generation + 1)
  <2>1. turns[t] \in Turn /\ turns \in [1..lastTurn -> Turn]
    BY <1>t DEF TypeOK
  <2>2. heir \in Turn
    <3>1. /\ turns[t].conv \in Conversation /\ turns[t].generation + 1 \in Nat
          /\ t \in Nat
      BY <2>1 DEF Turn
    <3> QED
      BY <3>1 DEF NewTurn, Turn, DeliveryState, NoTurn
  <2>3. /\ gone \in [1..lastTurn -> Turn]
        /\ gone[t] = [turns[t] EXCEPT !.supersededBy = new]
        /\ \A s \in 1..lastTurn \ {t} : gone[s] = turns[s]
    BY <2>1, <1>0 DEF Turn
  <2>4. turns' = [x \in DOMAIN gone \cup {new} |-> IF x = new THEN heir ELSE gone[x]]
    BY <1>c DEF ResetTurn, Put
  <2> HIDE DEF gone, heir
  <2>5. DOMAIN gone = 1..lastTurn
    BY <2>3
  <2> QED
    BY <1>0, <2>2, <2>3, <2>4, <2>5 DEF heir
<1> QED
  BY <1>1

LEMMA ResetTurnIInv ==
  ASSUME IInv, NEW t \in 1..lastTurn, Running(t), turns[t].generation < MaxGenerations,
         ResetTurn(t)
  PROVE  IInv'
<1> SUFFICES ASSUME NEW new, new = lastTurn + 1 PROVE IInv'
  OBVIOUS
<1> DEFINE N == Cardinality(Events(t))
           copies == {Copy(m) : m \in Events(t)}
<1>t. TypeOK
  BY DEF IInv
<1>0. /\ lastTurn \in Nat /\ new \in Nat /\ new # NoTurn /\ new \notin 1..lastTurn
      /\ 1..new = 1..lastTurn \cup {new}
  <2>1. lastTurn \in Nat
    BY <1>t DEF TypeOK
  <2> QED
    BY <2>1 DEF NoTurn
<1>c. lastTurn' = new /\ sequence' = sequence + N /\ cooldown' = cooldown
  BY DEF ResetTurn
<1>r. Open(t) /\ turns[t].state # "processed"
  BY DEF Running
<1>1. /\ turns' \in [1..new -> Turn]
      /\ turns'[new] = NewTurn(turns[t].conv, t, turns[t].generation + 1)
      /\ turns'[t] = [turns[t] EXCEPT !.supersededBy = new]
      /\ \A s \in 1..lastTurn \ {t} : turns'[s] = turns[s]
  BY ResetTurns
<1>2. /\ turns'[new].conv = turns[t].conv /\ turns'[new].state = "pending"
      /\ turns'[new].recoveryOf = t /\ turns'[new].supersededBy = NoTurn
      /\ turns'[new].generation = turns[t].generation + 1
      /\ ~turns'[new].acknowledged
  BY <1>1 DEF NewTurn
<1>3. /\ turns'[t].supersededBy = new
      /\ \A s \in 1..lastTurn :
          /\ turns'[s].conv = turns[s].conv /\ turns'[s].state = turns[s].state
          /\ turns'[s].prompt = turns[s].prompt
          /\ turns'[s].recoveryOf = turns[s].recoveryOf
          /\ turns'[s].acknowledged = turns[s].acknowledged
          /\ turns'[s].generation = turns[s].generation
          /\ s # t => turns'[s].supersededBy = turns[s].supersededBy
  <2>1. turns[t] \in Turn
    BY <1>t DEF TypeOK
  <2>2. /\ turns'[t].conv = turns[t].conv /\ turns'[t].state = turns[t].state
        /\ turns'[t].prompt = turns[t].prompt
        /\ turns'[t].recoveryOf = turns[t].recoveryOf
        /\ turns'[t].acknowledged = turns[t].acknowledged
        /\ turns'[t].generation = turns[t].generation
        /\ turns'[t].supersededBy = new
    BY <1>1, <2>1 DEF Turn
  <2> QED
    BY <1>1, <2>2
<1>4. /\ DOMAIN messages' = DOMAIN messages \cup copies
      /\ messages' \in [DOMAIN messages' -> Message]
      /\ \A m \in DOMAIN messages : messages'[m] = messages[m]
      /\ \A m \in Events(t) :
          /\ Copy(m) \notin DOMAIN messages
          /\ messages'[Copy(m)].conv = messages[m].conv
          /\ messages'[Copy(m)].key = messages[m].key
          /\ messages'[Copy(m)].position = messages[m].position
          /\ messages'[Copy(m)].turn = new
  BY ResetRows
<1>5. /\ N \in Nat /\ IsFiniteSet(copies) /\ Cardinality(copies) = N
      /\ \A m \in Events(t) : Copy(m) \in (sequence + 1)..(sequence + N)
  BY Copies
<1>6. \A r \in copies : \E m \in Events(t) : r = Copy(m)
  OBVIOUS
<1> HIDE DEF N, copies
<1>7. \A m \in DOMAIN messages :
        messages[m].turn # NoTurn => messages[m].turn \in 1..lastTurn
  BY <1>t DEF TypeOK, NoTurn
<1>8. /\ Open(new)' /\ ~Open(t)'
      /\ \A s \in 1..lastTurn \ {t} : Open(s)' <=> Open(s)
  BY <1>0, <1>2, <1>3 DEF Open
<1>9. /\ \A m \in DOMAIN messages : Live(m)' <=> Live(m) /\ m \notin Events(t)
      /\ \A m \in Events(t) : Live(m)
  <2>1. ASSUME NEW m \in DOMAIN messages
        PROVE  Live(m)' <=> Live(m) /\ m \notin Events(t)
    <3>1. CASE messages[m].turn = t
      <4>1. t # NoTurn /\ m \in Events(t)
        BY <3>1, <1>t DEF TypeOK, NoTurn, Events
      <4> QED
        BY <3>1, <4>1, <1>4, <1>8 DEF Live
    <3>2. CASE messages[m].turn # t
      BY <3>2, <1>4, <1>7, <1>8 DEF Live, Events
    <3> QED
      BY <3>1, <3>2
  <2>2. \A m \in Events(t) : Live(m)
    BY <1>r DEF Live, Events
  <2> QED
    BY <2>1, <2>2
<1>10. /\ Events(new)' = copies
       /\ \A s \in 1..lastTurn : Events(s)' = Events(s)
  <2>1. Events(new)' = copies
    <3>1. \A m \in DOMAIN messages : messages'[m].turn # new
      BY <1>0, <1>4, <1>7
    <3>2. \A r \in copies : messages'[r].turn = new
      BY <1>4, <1>6
    <3> QED
      BY <3>1, <3>2, <1>4 DEF Events
  <2>2. ASSUME NEW s \in 1..lastTurn PROVE Events(s)' = Events(s)
    BY <1>0, <1>4, <1>6 DEF Events
  <2> QED
    BY <2>1, <2>2
<1>11. TypeOK'
  <2>1. IsFiniteSet(DOMAIN messages')
    <3>1. IsFiniteSet(DOMAIN messages) /\ IsFiniteSet(copies)
      BY <1>t, <1>5 DEF TypeOK
    <3>2. IsFiniteSet(DOMAIN messages \cup copies)
      BY <3>1, FS_Union, Zenon
    <3> QED
      BY <3>2, <1>4
  <2>2. DOMAIN messages' \subseteq 1..sequence' /\ sequence' \in Nat
    BY <1>t, <1>c, <1>4, <1>5, <1>6 DEF TypeOK
  <2>3. \A m \in DOMAIN messages' : messages'[m].turn \in 0..new
    <3>1. \A m \in DOMAIN messages : messages'[m].turn \in 0..new
      BY <1>t, <1>0, <1>4 DEF TypeOK
    <3> QED
      BY <3>1, <1>0, <1>4, <1>6
  <2>4. \A s \in 1..new : turns'[s].supersededBy \in 0..new
    <3>1. \A s \in 1..lastTurn : turns'[s].supersededBy \in 0..new
      BY <1>t, <1>0, <1>3 DEF TypeOK
    <3> QED
      BY <3>1, <1>0, <1>2 DEF NoTurn
  <2> QED
    BY <1>t, <1>0, <1>c, <1>1, <1>4, <2>1, <2>2, <2>3, <2>4 DEF TypeOK
<1>12. TurnStates'
  BY <1>0, <1>c, <1>r, <1>2, <1>3 DEF IInv, TurnStates
<1>13. Owners'
  <2> SUFFICES ASSUME NEW m \in DOMAIN messages', messages'[m].turn # NoTurn
               PROVE  messages'[m].conv = turns'[messages'[m].turn].conv
    BY DEF Owners
  <2>1. CASE m \in DOMAIN messages
    BY <2>1, <1>3, <1>4, <1>7 DEF IInv, Owners
  <2>2. CASE m \in copies
    <3> PICK n \in Events(t) : m = Copy(n)
      BY <2>2, <1>6
    <3>1. messages[n].conv = turns[t].conv
      BY <1>t DEF IInv, Owners, Events, TypeOK, NoTurn
    <3> QED
      BY <3>1, <1>2, <1>4
  <2> QED
    BY <2>1, <2>2, <1>4
<1>14. Positions'
  <2>1. \A s \in 1..new : \A m \in Events(s)' :
            messages'[m].position \in 1..Cardinality(Events(s)')
    <3> SUFFICES ASSUME NEW s \in 1..new, NEW m \in Events(s)'
                 PROVE  messages'[m].position \in 1..Cardinality(Events(s)')
      OBVIOUS
    <3>1. CASE s = new
      <4> PICK n \in Events(t) : m = Copy(n)
        BY <3>1, <1>6, <1>10
      <4>1. messages'[m].position = messages[n].position
        BY <1>4
      <4>2. messages[n].position \in 1..N
        BY DEF IInv, Positions, N
      <4> QED
        BY <3>1, <4>1, <4>2, <1>5, <1>10
    <3>2. CASE s # new
      <4>1. s \in 1..lastTurn /\ m \in Events(s) /\ Events(s)' = Events(s)
        BY <3>2, <1>0, <1>10
      <4>2. messages'[m] = messages[m]
        BY <4>1, <1>4 DEF Events
      <4> QED
        BY <4>1, <4>2 DEF IInv, Positions
    <3> QED
      BY <3>1, <3>2
  <2>2. ASSUME NEW m \in DOMAIN messages', NEW n \in DOMAIN messages',
               messages'[m].turn = messages'[n].turn, messages'[m].turn # NoTurn,
               messages'[m].position = messages'[n].position
        PROVE  m = n
    <3>1. CASE messages'[m].turn = new
      <4>1. m \in copies /\ n \in copies
        BY <2>2, <3>1, <1>0, <1>4, <1>7
      <4>2. PICK a \in Events(t) : m = Copy(a)
        BY <4>1, <1>6
      <4>3. PICK b \in Events(t) : n = Copy(b)
        BY <4>1, <1>6
      <4>4. messages[a].position = messages[b].position
        BY <2>2, <4>2, <4>3, <1>4
      <4> QED
        BY <4>2, <4>3, <4>4 DEF Copy
    <3>2. CASE messages'[m].turn # new
      <4>1. m \in DOMAIN messages /\ n \in DOMAIN messages
        BY <2>2, <3>2, <1>4, <1>6
      <4> QED
        BY <2>2, <4>1, <1>4 DEF IInv, Positions
    <3> QED
      BY <3>1, <3>2
  <2> QED
    BY <2>1, <2>2, <1>c DEF Positions
<1>15. OneOpenTurn'
  <2>1. \A s \in 1..lastTurn : turns[s].conv = turns[t].conv => ~Open(s)'
    BY <1>r, <1>8 DEF IInv, OneOpenTurn
  <2> SUFFICES ASSUME NEW s \in 1..new, NEW u \in 1..new, Open(s)', Open(u)',
                      turns'[s].conv = turns'[u].conv
               PROVE  s = u
    BY <1>c DEF OneOpenTurn
  <2>2. CASE s \in 1..lastTurn /\ u \in 1..lastTurn
    BY <2>2, <1>3, <1>8 DEF IInv, OneOpenTurn
  <2>3. CASE s = new /\ u \in 1..lastTurn
    BY <2>1, <2>3, <1>2, <1>3
  <2>4. CASE u = new /\ s \in 1..lastTurn
    BY <2>1, <2>4, <1>2, <1>3
  <2> QED
    BY <2>2, <2>3, <2>4, <1>0
<1>16. OneLiveMessage'
  <2>1. ASSUME NEW m \in Events(t), NEW n \in DOMAIN messages, Live(n), n \notin Events(t),
               messages[m].key = messages[n].key,
               Once(messages[m].key) \/ messages[m].conv = messages[n].conv
        PROVE  FALSE
    <3>1. Live(m) /\ m \in DOMAIN messages
      BY <1>9 DEF Events
    <3> QED
      BY <2>1, <3>1 DEF IInv, OneLiveMessage, InScope
  <2>2. ASSUME NEW m \in Events(t), NEW n \in Events(t), messages[m].key = messages[n].key,
               Once(messages[m].key) \/ messages[m].conv = messages[n].conv
        PROVE  m = n
    <3>1. Live(m) /\ m \in DOMAIN messages /\ Live(n) /\ n \in DOMAIN messages
      BY <1>9 DEF Events
    <3> QED
      BY <2>2, <3>1 DEF IInv, OneLiveMessage, InScope
  <2> SUFFICES ASSUME NEW m \in DOMAIN messages', NEW n \in DOMAIN messages', Live(m)',
                      Live(n)', messages'[n].key = messages'[m].key,
                      Once(messages'[m].key) \/ messages'[n].conv = messages'[m].conv
               PROVE  m = n
    BY DEF OneLiveMessage, InScope
  <2>3. CASE m \in DOMAIN messages /\ n \in DOMAIN messages
    BY <2>3, <1>4, <1>9 DEF IInv, OneLiveMessage, InScope
  <2>4. CASE m \in copies /\ n \in DOMAIN messages
    <3> PICK a \in Events(t) : m = Copy(a)
      BY <2>4, <1>6
    <3> QED
      BY <2>1, <2>4, <1>4, <1>9
  <2>5. CASE n \in copies /\ m \in DOMAIN messages
    <3> PICK a \in Events(t) : n = Copy(a)
      BY <2>5, <1>6
    <3> QED
      BY <2>1, <2>5, <1>4, <1>9
  <2>6. CASE m \in copies /\ n \in copies
    <3>1. PICK a \in Events(t) : m = Copy(a)
      BY <2>6, <1>6
    <3>2. PICK b \in Events(t) : n = Copy(b)
      BY <2>6, <1>6
    <3> QED
      BY <2>2, <3>1, <3>2, <1>4
  <2> QED
    BY <2>3, <2>4, <2>5, <2>6, <1>4
<1>17. OnceNeverRepeats'
  <2>1. ASSUME NEW k, HasAcknowledgedEvent(k)' PROVE HasAcknowledgedEvent(k)
    <3>1. PICK m \in DOMAIN messages' :
            /\ messages'[m].key = k
            /\ messages'[m].turn # NoTurn /\ turns'[messages'[m].turn].acknowledged
      BY <2>1 DEF HasAcknowledgedEvent
    <3>2. m \in DOMAIN messages
      BY <3>1, <1>2, <1>4, <1>6
    <3> QED
      BY <3>1, <3>2, <1>3, <1>4, <1>7 DEF HasAcknowledgedEvent
  <2> SUFFICES ASSUME NEW m \in DOMAIN messages', Once(messages'[m].key),
                      HasAcknowledgedEvent(messages[m].key)', Live(m)'
               PROVE  FALSE
    BY DEF OnceNeverRepeats
  <2>2. HasAcknowledgedEvent(messages'[m].key)
    BY <2>1
  <2>3. CASE m \in DOMAIN messages
    BY <2>2, <2>3, <1>4, <1>9 DEF IInv, OnceNeverRepeats
  <2>4. CASE m \in copies
    <3> PICK a \in Events(t) : m = Copy(a)
      BY <2>4, <1>6
    <3>1. a \in DOMAIN messages /\ Live(a) /\ messages'[m].key = messages[a].key
      BY <1>4, <1>9 DEF Events
    <3> QED
      BY <2>2, <3>1 DEF IInv, OnceNeverRepeats
  <2> QED
    BY <2>3, <2>4, <1>4
<1>18. ProcessedTurnComplete'
  <2> SUFFICES ASSUME NEW s \in 1..new, turns'[s].state = "processed"
               PROVE  /\ turns'[s].prompt = "processed"
                      /\ \A m \in Events(s)' : messages'[m].state = "processed"
    BY <1>c DEF ProcessedTurnComplete
  <2>1. s \in 1..lastTurn
    BY <1>0, <1>2
  <2>2. \A m \in Events(s) : m \in DOMAIN messages
    BY DEF Events
  <2> QED
    BY <2>1, <2>2, <1>3, <1>4, <1>10 DEF IInv, ProcessedTurnComplete
<1>19. RecoveryChain'
  <2>1. \A s \in 1..lastTurn :
          turns[s].supersededBy # NoTurn => turns[s].supersededBy \in 1..lastTurn
    BY <1>t DEF TypeOK, NoTurn
  <2>2. turns[t].generation \in Nat /\ MaxGenerations \in Nat
    BY <1>t, InboxAssumption DEF TypeOK, Turn
  <2>3. \A s \in 1..new : turns'[s].generation <= MaxGenerations
    BY <2>2, <1>0, <1>2, <1>3 DEF IInv, RecoveryChain
  <2>4. ASSUME NEW s \in 1..new, turns'[s].supersededBy # NoTurn
        PROVE  LET u == turns'[s].supersededBy IN
               /\ s < u /\ turns'[u].recoveryOf = s /\ turns'[u].conv = turns'[s].conv
               /\ turns'[u].generation = turns'[s].generation + 1
    <3>1. s \in 1..lastTurn
      BY <2>4, <1>0, <1>2
    <3>2. CASE s = t
      BY <3>2, <1>0, <1>2, <1>3
    <3>3. CASE s # t
      BY <2>1, <2>4, <3>1, <3>3, <1>3 DEF IInv, RecoveryChain
    <3> QED
      BY <3>2, <3>3
  <2> QED
    BY <2>3, <2>4, <1>c DEF RecoveryChain
<1> QED
  BY <1>11, <1>12, <1>13, <1>14, <1>15, <1>16, <1>17, <1>18, <1>19 DEF IInv

LEMMA RecoverTurnIInv ==
  ASSUME IInv, NEW t \in 1..lastTurn, Running(t), RecoverTurn(t)
  PROVE  IInv'
BY QuarantineIInv, ResetTurnIInv DEF RecoverTurn

-----------------------------------------------------------------------------
(* The theorems. *)

LEMMA WorkIInv ==
  ASSUME IInv, NEW t \in 1..lastTurn, Running(t), Work(t)
  PROVE  IInv'
<1>1. CASE RecordPromptDelivered(t)
  BY <1>1, RecordPromptDeliveredIInv
<1>2. ASSUME NEW m \in Events(t), RecordDelivered(m) PROVE IInv'
  <2>1. m \in DOMAIN messages
    BY DEF Events
  <2> QED
    BY <1>2, <2>1, RecordDeliveredIInv
<1>3. CASE RecordContextReset(t)
  BY <1>3, RecordContextResetIInv
<1>4. ASSUME NEW e \in Progress, RecordProgress(t, e) PROVE IInv'
  BY <1>4, RecordProgressIInv
<1>5. CASE RecordInferenceAttempt(t)
  BY <1>5, RecordInferenceAttemptIInv
<1>6. CASE DeferProviderRetry(t)
  BY <1>6, DeferProviderRetryIInv
<1>7. CASE RecoverTurn(t)
  BY <1>7, RecoverTurnIInv
<1>8. CASE RecordProcessed(t)
  BY <1>8, RecordProcessedIInv
<1> QED
  BY <1>1, <1>2, <1>3, <1>4, <1>5, <1>6, <1>7, <1>8 DEF Work, Deliver, Attempt

LEMMA NextIInv == IInv /\ [Next]_vars => IInv'
<1> SUFFICES ASSUME IInv, [Next]_vars PROVE IInv'
  OBVIOUS
<1>1. CASE Accept
  BY <1>1, AcceptIInv
<1>2. CASE Retract
  BY <1>2, RetractIInv DEF Retract
<1>3. ASSUME NEW c \in Conversation, NextTurn(c) PROVE IInv'
  BY <1>3, NextTurnIInv
<1>4. ASSUME NEW t \in 1..lastTurn, Running(t), Work(t) PROVE IInv'
  BY <1>4, WorkIInv
<1>5. ASSUME NEW t \in ProcessedTurns, Acknowledge(t) PROVE IInv'
  BY <1>5, AcknowledgeIInv
<1>6. CASE ClearProviderCooldown
  BY <1>6, ClearProviderCooldownIInv
<1>7. CASE UNCHANGED vars
  BY <1>7, StutterIInv
<1> QED
  BY <1>1, <1>2, <1>3, <1>4, <1>5, <1>6, <1>7 DEF Next

\* The inductive invariant holds in every reachable state, however many
\* conversations and keys there are and whatever the limits.
THEOREM InboxInvariant == Spec => []IInv
BY InitIInv, NextIInv, PTL DEF Spec

\* Every operation of the inbox keeps its tables well formed.
THEOREM InboxTypeOK == Spec => []TypeOK
BY InboxInvariant, PTL DEF IInv

\* next_turn, recovery, quarantine and steering never leave a conversation two
\* turns to run or to acknowledge.
THEOREM InboxOneOpenTurn == Spec => []OneOpenTurn
BY InboxInvariant, PTL DEF IInv

\* enqueue, steer and reset_turn never give an event two live rows.
THEOREM InboxOneLiveMessage == Spec => []OneLiveMessage
BY InboxInvariant, PTL DEF IInv

\* An acknowledged human message is never live again, in any conversation.
THEOREM InboxOnceNeverRepeats == Spec => []OnceNeverRepeats
BY InboxInvariant, PTL DEF IInv

\* A processed turn has processed its prompt and every event bound to it.
THEOREM InboxProcessedTurnComplete == Spec => []ProcessedTurnComplete
BY InboxInvariant, PTL DEF IInv

\* Recovery chains go forward, one generation at a time, within their budget.
THEOREM InboxRecoveryChain == Spec => []RecoveryChain
BY InboxInvariant, PTL DEF IInv

-----------------------------------------------------------------------------
(* The worker around the inbox: TurnDelivery.                              *)

RunningPcs == {"receive", "open", "activate", "decide", "run", "settle", "steer"}
Entries == ({"prompt", "row", "finish"} \X Nat) \cup ({"tool"} \X Progress)

\* Where the controller thread, the branch and the store can be.
WorkerTypes ==
    /\ outbox \in [Key -> {"absent", "posted", "acked"}]
    /\ branch \in Seq(Entries)
    /\ pc \in RunningPcs \cup {"acknowledge", "confirm", "enqueue", "select", "succeed"}
    /\ todo \subseteq Key /\ pumping \in Key \cup {NoKey}

\* A turn is run until it ends, and one that was processed is acknowledged before the
\* next poll.
Control ==
    /\ pc \in RunningPcs => active \in 1..lastTurn /\ Running(active)
    /\ pc \in {"decide", "run", "settle", "steer"} => turns[active].contextReset
    /\ pc = "confirm" => active \in ProcessedTurns
    /\ pc \notin {"succeed", "acknowledge", "confirm"} => ProcessedTurns = {}

\* The inbox of one conversation: a turn has events, a queued event is pending and a
\* recovery is newer than what it recovers.
RowsInv ==
    /\ \A m \in DOMAIN messages :
        /\ messages[m].conv = conversation
        /\ messages[m].turn = NoTurn => messages[m].state = "pending"
    /\ \A t \in 1..lastTurn :
        /\ turns[t].conv = conversation
        /\ Events(t) # {}
        /\ turns[t].recoveryOf # NoTurn => turns[t].recoveryOf \in 1..(t - 1)

\* What the inbox holds, and the turns that answered a key.
Held == {messages[m].key : m \in {n \in DOMAIN messages : Live(n)}}
Answering(k) == {t \in 1..lastTurn : turns[t].acknowledged /\ k \in KeysOf(t)}

\* The store lets go of an event that the inbox has, and of each that is answered; what
\* was polled or taken by the pump is in the store.
StoreCovers ==
    /\ \A k \in Held : outbox[k] # "absent"
    /\ \A k \in Key : Answering(k) # {} => outbox[k] = "acked"
    /\ \A k \in Key : outbox[k] = "acked" => k \in Held \/ Answering(k) # {}
StoreInv ==
    /\ StoreCovers
    /\ pc = "confirm" => \A k \in KeysOf(active) : outbox[k] = "acked"
    /\ pc # "enqueue" => todo = {}
    /\ \A k \in todo : outbox[k] # "absent" /\ Answering(k) = {}
    /\ pc \notin {"run", "settle", "steer"} => pumping = NoKey
    /\ pumping # NoKey =>
        /\ outbox[pumping] # "absent"
        /\ pumping \in Held \/ Answering(pumping) # {}

\* What is on the branch was bound to a turn, whose context was reset before.
BranchKnown ==
    /\ \A m : Row(m) \in On(branch) => m \in DOMAIN messages /\ messages[m].turn # NoTurn
    /\ \A t : Prompt(t) \in On(branch) => t \in 1..lastTurn
ContextFirst ==
    \A t \in 1..lastTurn : ~turns[t].contextReset => On(branch) \cap Deliveries(t) = {}
\* RecoveryContextFresh, of a turn that waits for its acknowledgement as well.
ContextFresh ==
    \A t \in 1..lastTurn :
        Open(t) /\ turns[t].recoveryOf # NoTurn /\ turns[t].contextReset =>
            On(branch) \cap Deliveries(turns[t].recoveryOf) = {}
BranchInv ==
    /\ SentOnce /\ BranchKnown /\ ContextFirst /\ ContextFresh
    /\ ReceiptsBacked /\ ProcessedWasAnswered

DInv == IInv /\ WorkerTypes /\ Control /\ RowsInv /\ StoreInv /\ BranchInv

\* What a turn was answered by.
Answers(t) ==
    /\ Deliveries(t) \subseteq On(branch)
    /\ \E i \in After(t) : branch[i][1] = "finish"

\* A step that marks rows and turns, and neither adds nor moves any.
SameRows ==
    /\ UNCHANGED lastTurn /\ DOMAIN messages' = DOMAIN messages
    /\ \A m \in DOMAIN messages :
        /\ messages'[m].conv = messages[m].conv /\ messages'[m].key = messages[m].key
        /\ messages'[m].turn = messages[m].turn
        /\ messages[m].turn = NoTurn => messages'[m].state = messages[m].state
    /\ \A t \in 1..lastTurn :
        /\ turns'[t].conv = turns[t].conv /\ turns'[t].recoveryOf = turns[t].recoveryOf
        /\ turns'[t].supersededBy = turns[t].supersededBy
        /\ turns'[t].acknowledged = turns[t].acknowledged
        /\ turns[t].contextReset => turns'[t].contextReset

\* The inbox holds the same events and answered the same.
EventsKept == Held' = Held /\ \A k : Answering(k)' = Answering(k)

\* A turn that runs goes on.
RunsKept ==
    /\ ProcessedTurns' = ProcessedTurns
    /\ \A t \in 1..lastTurn :
        Running(t) => /\ t \in 1..lastTurn' /\ Running(t)'
                      /\ turns[t].contextReset => turns'[t].contextReset

LEMMA RowTurns ==
  ASSUME TypeOK
  PROVE  \A m \in DOMAIN messages : messages[m].turn # NoTurn => messages[m].turn \in 1..lastTurn
BY DEF TypeOK, NoTurn

LEMMA SameRowsFacts ==
  ASSUME TypeOK, SameRows
  PROVE  /\ \A t : Events(t)' = Events(t) /\ Deliveries(t)' = Deliveries(t)
                   /\ KeysOf(t)' = KeysOf(t)
         /\ \A t \in 1..lastTurn : Open(t)' <=> Open(t)
         /\ \A m \in DOMAIN messages : Live(m)' <=> Live(m)
         /\ EventsKept
<1>1. ASSUME NEW t PROVE Events(t)' = Events(t)
  BY DEF SameRows, Events
<1>2. ASSUME NEW t PROVE Deliveries(t)' = Deliveries(t)
  BY <1>1 DEF Deliveries
<1>3. ASSUME NEW t PROVE KeysOf(t)' = KeysOf(t)
  BY <1>1 DEF KeysOf, Events, SameRows
<1>4. \A t \in 1..lastTurn : Open(t)' <=> Open(t)
  BY DEF SameRows, Open
<1>5. \A m \in DOMAIN messages : Live(m)' <=> Live(m)
  BY <1>4, RowTurns DEF SameRows, Live
<1>6. Held' = Held
  BY <1>5 DEF Held, SameRows
<1>7. ASSUME NEW k PROVE Answering(k)' = Answering(k)
  BY <1>3 DEF Answering, SameRows
<1> QED  BY <1>1, <1>2, <1>3, <1>4, <1>5, <1>6, <1>7 DEF EventsKept

LEMMA SameRowsInv ==
  ASSUME TypeOK, RowsInv, SameRows
  PROVE  RowsInv'
BY SameRowsFacts DEF RowsInv, SameRows

\* The receipts a step writes are those of messages on the branch, and a turn it
\* processes was answered.
LEMMA SameRowsBranch ==
  ASSUME TypeOK, BranchInv, SameRows, UNCHANGED branch,
         \A t \in 1..lastTurn : Open(t) =>
             \A d \in Deliveries(t) : d \in Unrecorded(t) => d \in Unrecorded(t)' \cup On(branch),
         \A t \in ProcessedTurns' \ ProcessedTurns : Answers(t),
         \A t \in 1..lastTurn :
             turns'[t].contextReset => turns[t].contextReset \/ On(branch) = {}
  PROVE  BranchInv'
<1>0. On(branch)' = On(branch)
  BY DEF On
<1>f. /\ \A t : Events(t)' = Events(t) /\ Deliveries(t)' = Deliveries(t)
      /\ \A t \in 1..lastTurn : Open(t)' <=> Open(t)
  BY SameRowsFacts
<1>1. SentOnce'
  BY DEF BranchInv, SentOnce
<1>2. BranchKnown'
  BY <1>0 DEF BranchInv, BranchKnown, SameRows, Row, Prompt
<1>3. ContextFirst'
  BY <1>0, <1>f DEF BranchInv, ContextFirst, SameRows
<1>4. ContextFresh'
  BY <1>0, <1>f DEF BranchInv, ContextFresh, SameRows
<1>5. ReceiptsBacked'
  BY <1>0, <1>f DEF BranchInv, ReceiptsBacked, SameRows
<1>6. ProcessedWasAnswered'
  <2> SUFFICES ASSUME NEW t \in ProcessedTurns'
               PROVE  /\ Deliveries(t)' \subseteq On(branch)'
                      /\ \E i \in After(t)' : branch'[i][1] = "finish"
    BY DEF ProcessedWasAnswered
  <2>1. Answers(t)
    BY DEF Answers, BranchInv, ProcessedWasAnswered
  <2>2. After(t)' = After(t)
    BY <1>f DEF After
  <2> QED  BY <2>1, <2>2, <1>0, <1>f DEF Answers
<1> QED  BY <1>1, <1>2, <1>3, <1>4, <1>5, <1>6 DEF BranchInv

-----------------------------------------------------------------------------
(* The operations on one turn.                                             *)

\* Counters and marks only.
Marks ==
    /\ UNCHANGED <<messages, lastTurn>>
    /\ \A t \in 1..lastTurn :
        /\ turns'[t].conv = turns[t].conv /\ turns'[t].recoveryOf = turns[t].recoveryOf
        /\ turns'[t].supersededBy = turns[t].supersededBy
        /\ turns'[t].acknowledged = turns[t].acknowledged
        /\ turns'[t].state = turns[t].state /\ turns'[t].prompt = turns[t].prompt
        /\ turns[t].contextReset => turns'[t].contextReset
        /\ turns'[t].contextReset => turns[t].contextReset \/ On(branch) = {}

LEMMA MarksKeep ==
  ASSUME TypeOK, RowsInv, Marks
  PROVE  /\ SameRows /\ RowsInv' /\ EventsKept /\ ProcessedTurns' = ProcessedTurns
         /\ (\A t \in 1..lastTurn : turns'[t].quarantined => turns[t].quarantined) => RunsKept
         /\ BranchInv /\ UNCHANGED branch => BranchInv'
<1>1. SameRows
  BY DEF Marks, SameRows
<1>2. RowsInv' /\ EventsKept
  BY <1>1, SameRowsInv, SameRowsFacts
<1>3. \A t \in 1..lastTurn : Open(t)' <=> Open(t)
  BY <1>1, SameRowsFacts
<1>4. ProcessedTurns' = ProcessedTurns
  BY <1>3 DEF Marks, ProcessedTurns
<1>5. ASSUME \A t \in 1..lastTurn : turns'[t].quarantined => turns[t].quarantined
      PROVE  RunsKept
  BY <1>3, <1>4, <1>5 DEF RunsKept, Running, Marks
<1>6. \A t \in 1..lastTurn : \A d \in Deliveries(t) : d \in Unrecorded(t) => d \in Unrecorded(t)'
  <2>1. \A t \in 1..lastTurn : Unrecorded(t)' = Unrecorded(t)
    BY <1>1, SameRowsFacts DEF Unrecorded, Marks
  <2> QED  BY <2>1
<1>7. ASSUME BranchInv, UNCHANGED branch PROVE BranchInv'
  BY <1>1, <1>4, <1>6, <1>7, SameRowsBranch DEF Marks
<1> QED  BY <1>1, <1>2, <1>4, <1>5, <1>7

LEMMA StutterMarks == ASSUME UNCHANGED <<messages, turns, lastTurn>> PROVE Marks
BY DEF Marks

LEMMA TurnMarks ==
  ASSUME TypeOK, NEW t \in 1..lastTurn,
         \/ RecordInferenceAttempt(t) \/ DeferProviderRetry(t)
         \/ \E e \in Progress : RecordProgress(t, e)
  PROVE  Marks /\ \A s \in 1..lastTurn : turns'[s].quarantined => turns[s].quarantined
<1>0. turns[t] \in Turn /\ turns \in [1..lastTurn -> Turn]
  BY DEF TypeOK
<1>1. CASE RecordInferenceAttempt(t)
  BY <1>0, <1>1 DEF RecordInferenceAttempt, Marks, Turn
<1>2. CASE DeferProviderRetry(t)
  BY <1>0, <1>2 DEF DeferProviderRetry, Marks, Turn
<1>3. ASSUME NEW e \in Progress, RecordProgress(t, e)
      PROVE  Marks /\ \A s \in 1..lastTurn : turns'[s].quarantined => turns[s].quarantined
  BY <1>0, <1>3 DEF RecordProgress, Marks, Turn
<1> QED  BY <1>1, <1>2, <1>3

LEMMA ContextMarks ==
  ASSUME TypeOK, NEW t \in 1..lastTurn, RecordContextReset(t), On(branch) = {}
  PROVE  Marks /\ \A s \in 1..lastTurn : turns'[s].quarantined => turns[s].quarantined
<1>0. turns[t] \in Turn /\ turns \in [1..lastTurn -> Turn]
  BY DEF TypeOK
<1> QED  BY <1>0 DEF RecordContextReset, Marks, Turn

LEMMA QuarantineMarks ==
  ASSUME TypeOK, NEW t \in 1..lastTurn, Quarantine(t)
  PROVE  Marks
<1>0. turns[t] \in Turn /\ turns \in [1..lastTurn -> Turn]
  BY DEF TypeOK
<1> QED  BY <1>0 DEF Quarantine, Marks, Turn

\* record_delivered and the receipt of the prompt write the receipt of one message.
LEMMA DeliveredKeeps ==
  ASSUME IInv, RowsInv, BranchInv, UNCHANGED branch,
         NEW t \in 1..lastTurn, NEW d \in Deliveries(t), d \in On(branch),
         IF d[1] = "prompt" THEN RecordPromptDelivered(t) ELSE RecordDelivered(d[2])
  PROVE  RowsInv' /\ EventsKept /\ RunsKept /\ BranchInv'
<1>t. TypeOK
  BY DEF IInv
<1>0. /\ turns[t] \in Turn /\ turns \in [1..lastTurn -> Turn]
      /\ messages \in [DOMAIN messages -> Message]
  BY <1>t DEF TypeOK
<1> DEFINE Receipts ==
      /\ SameRows
      /\ \A s \in 1..lastTurn :
           /\ turns'[s].state # turns[s].state => turns'[s].state = "delivered"
           /\ turns[s].state = "processed" => turns'[s].state = "processed"
           /\ turns'[s].quarantined => turns[s].quarantined
           /\ turns'[s].contextReset = turns[s].contextReset
           /\ turns'[s].prompt = turns[s].prompt \/ Prompt(s) \in On(branch)
      /\ \A m \in DOMAIN messages :
           messages'[m].state = messages[m].state \/ Row(m) \in On(branch)
<1>1. ASSUME d[1] = "prompt" PROVE Receipts
  <2> DEFINE ts == [turns EXCEPT ![t].prompt = "delivered"]
  <2>0. RecordPromptDelivered(t) /\ d = Prompt(t)
    BY <1>1 DEF Deliveries, Prompt, Row
  <2>a. ts \in [1..lastTurn -> Turn]
    BY <1>0 DEF Turn, DeliveryState
  <2>b. \A s \in 1..lastTurn :
          /\ ts[s].conv = turns[s].conv /\ ts[s].state = turns[s].state
          /\ ts[s].recoveryOf = turns[s].recoveryOf
          /\ ts[s].supersededBy = turns[s].supersededBy
          /\ ts[s].acknowledged = turns[s].acknowledged
          /\ ts[s].contextReset = turns[s].contextReset
          /\ ts[s].quarantined = turns[s].quarantined
          /\ s # t => ts[s].prompt = turns[s].prompt
    BY <1>0 DEF Turn
  <2>1. turns' = Refreshed(messages, ts, t) /\ UNCHANGED <<messages, lastTurn>>
    BY <2>0 DEF RecordPromptDelivered
  <2> HIDE DEF ts
  <2>2. OnlyRefreshed(ts, turns')
    BY <2>a, <2>1, RefreshedTurns
  <2>3. SameRows
    BY <2>b, <2>1, <2>2 DEF OnlyRefreshed, SameRows
  <2> QED  BY <2>0, <2>b, <2>1, <2>2, <2>3 DEF OnlyRefreshed
<1>2. ASSUME d[1] # "prompt" PROVE Receipts
  <2>0. PICK m \in Events(t) : d = Row(m) /\ RecordDelivered(m)
    BY <1>2 DEF Deliveries, Prompt, Row
  <2>1. m \in DOMAIN messages /\ messages[m].turn \in 1..lastTurn /\ messages[m].turn # NoTurn
    BY <2>0, <1>t DEF Events, RecordDelivered, TypeOK, NoTurn
  <2>2. OnlyRefreshed(turns, turns')
    BY <1>0, <2>0, <2>1, RefreshedTurns DEF RecordDelivered
  <2>3. /\ UNCHANGED lastTurn /\ messages' = [messages EXCEPT ![m].state = "delivered"]
        /\ messages[m] \in Message
    BY <1>0, <2>0, <2>1 DEF RecordDelivered
  <2>4. /\ DOMAIN messages' = DOMAIN messages
        /\ \A n \in DOMAIN messages : n # m => messages'[n] = messages[n]
        /\ messages'[m].conv = messages[m].conv /\ messages'[m].key = messages[m].key
        /\ messages'[m].turn = messages[m].turn
    BY <1>0, <2>1, <2>3 DEF Message
  <2>5. SameRows
    BY <2>1, <2>2, <2>3, <2>4 DEF OnlyRefreshed, SameRows
  <2> QED  BY <2>0, <2>2, <2>4, <2>5 DEF OnlyRefreshed
<1>3. Receipts
  BY <1>1, <1>2
<1> HIDE DEF Receipts
<1>4. SameRows /\ RowsInv' /\ EventsKept
  BY <1>3, <1>t, SameRowsInv, SameRowsFacts DEF Receipts
<1>f. /\ \A s : Events(s)' = Events(s) /\ Deliveries(s)' = Deliveries(s)
      /\ \A s \in 1..lastTurn : Open(s)' <=> Open(s)
  BY <1>4, <1>t, SameRowsFacts
<1>5. ProcessedTurns' = ProcessedTurns
  BY <1>3, <1>4, <1>f DEF Receipts, SameRows, ProcessedTurns
<1>6. RunsKept
  BY <1>3, <1>4, <1>5, <1>f DEF Receipts, RunsKept, Running, SameRows
<1>7. ASSUME NEW s \in 1..lastTurn, NEW e \in Deliveries(s), e \in Unrecorded(s),
             e \notin On(branch)
      PROVE  e \in Unrecorded(s)'
  <2>1. CASE e = Prompt(s)
    BY <1>3, <1>7, <1>f, <2>1 DEF Receipts, Unrecorded, Prompt
  <2>2. ASSUME NEW m \in Events(s), e = Row(m) PROVE e \in Unrecorded(s)'
    <3>1. m \in DOMAIN messages /\ messages'[m].state = messages[m].state
      BY <1>3, <1>7, <2>2 DEF Receipts, Events
    <3> QED  BY <1>7, <1>f, <2>2, <3>1 DEF Unrecorded, Row
  <2> QED  BY <2>1, <2>2 DEF Deliveries
<1>8. \A s \in 1..lastTurn : turns'[s].contextReset => turns[s].contextReset
  BY <1>3 DEF Receipts
<1>9. BranchInv'
  BY <1>4, <1>5, <1>7, <1>8, <1>t, SameRowsBranch
<1> QED  BY <1>4, <1>6, <1>9

-----------------------------------------------------------------------------
\* record_processed, of a turn that was answered.
LEMMA ProcessedKeeps ==
  ASSUME IInv, RowsInv, BranchInv, UNCHANGED branch,
         NEW t \in 1..lastTurn, RecordProcessed(t), Answers(t)
  PROVE  RowsInv' /\ EventsKept /\ BranchInv'
<1>t. TypeOK
  BY DEF IInv
<1>0. /\ turns[t] \in Turn /\ turns \in [1..lastTurn -> Turn]
      /\ messages \in [DOMAIN messages -> Message] /\ t # NoTurn
  BY <1>t DEF TypeOK, NoTurn
<1>1. /\ UNCHANGED lastTurn
      /\ \A s \in 1..lastTurn : s # t => turns'[s] = turns[s]
      /\ turns'[t].conv = turns[t].conv /\ turns'[t].recoveryOf = turns[t].recoveryOf
      /\ turns'[t].supersededBy = turns[t].supersededBy
      /\ turns'[t].acknowledged = turns[t].acknowledged
      /\ turns'[t].contextReset = turns[t].contextReset
      /\ turns'[t].prompt = "pending" <=> turns[t].prompt = "pending"
  BY <1>0 DEF RecordProcessed, Turn
<1>2. /\ DOMAIN messages' = DOMAIN messages
      /\ \A m \in DOMAIN messages :
          /\ messages'[m].conv = messages[m].conv /\ messages'[m].key = messages[m].key
          /\ messages'[m].turn = messages[m].turn
          /\ messages'[m].state = "pending" <=> messages[m].state = "pending"
          /\ messages[m].turn # t => messages'[m] = messages[m]
  <2>1. ASSUME NEW m \in DOMAIN messages
        PROVE  /\ messages'[m].conv = messages[m].conv /\ messages'[m].key = messages[m].key
               /\ messages'[m].turn = messages[m].turn
               /\ messages'[m].state = "pending" <=> messages[m].state = "pending"
               /\ messages[m].turn # t => messages'[m] = messages[m]
    <3>1. messages[m] \in Message
      BY <1>0
    <3>2. messages'[m] = IF messages[m].turn = t /\ messages[m].state = "delivered"
                         THEN [messages[m] EXCEPT !.state = "processed"] ELSE messages[m]
      BY DEF RecordProcessed
    <3> QED  BY <3>1, <3>2 DEF Message
  <2>2. DOMAIN messages' = DOMAIN messages
    BY DEF RecordProcessed
  <2> QED  BY <2>1, <2>2
<1>3. SameRows
  BY <1>0, <1>1, <1>2 DEF SameRows
<1>4. RowsInv' /\ EventsKept
  BY <1>3, <1>t, SameRowsInv, SameRowsFacts
<1>f. /\ \A s : Deliveries(s)' = Deliveries(s)
      /\ \A s \in 1..lastTurn : Open(s)' <=> Open(s)
  BY <1>3, <1>t, SameRowsFacts
<1>5. ASSUME NEW s \in 1..lastTurn, NEW e \in Deliveries(s), e \in Unrecorded(s)
      PROVE  e \in Unrecorded(s)'
  <2>1. CASE e = Prompt(s)
    BY <1>1, <1>5, <1>f, <2>1 DEF Unrecorded, Prompt
  <2>2. ASSUME NEW m \in Events(s), e = Row(m) PROVE e \in Unrecorded(s)'
    <3>1. m \in DOMAIN messages /\ messages'[m].state = "pending" <=> messages[m].state = "pending"
      BY <1>2, <2>2 DEF Events
    <3> QED  BY <1>5, <1>f, <2>2, <3>1 DEF Unrecorded, Row
  <2> QED  BY <2>1, <2>2 DEF Deliveries
<1>6. \A s \in ProcessedTurns' \ ProcessedTurns : s = t
  BY <1>1, <1>f DEF ProcessedTurns
<1>7. \A s \in 1..lastTurn : turns'[s].contextReset => turns[s].contextReset
  BY <1>1
<1>8. BranchInv'
  BY <1>3, <1>5, <1>6, <1>7, <1>t, SameRowsBranch
<1> QED  BY <1>4, <1>8

\* Acknowledging a turn answers what it holds: the inbox lets go of its events and no
\* other.
AnswersTurn(t) ==
    /\ KeysOf(t) # {} /\ KeysOf(t) \subseteq Held
    /\ Held' = Held \ KeysOf(t)
    /\ \A k : Answering(k)' = IF k \in KeysOf(t) THEN Answering(k) \cup {t} ELSE Answering(k)

LEMMA AcknowledgeAnswers ==
  ASSUME IInv, RowsInv, BranchInv, UNCHANGED branch, NEW t \in ProcessedTurns, Acknowledge(t)
  PROVE  RowsInv' /\ BranchInv' /\ AnswersTurn(t) /\ t \notin UNION {Answering(k) : k \in Key}
         /\ KeysOf(t)' = KeysOf(t)
<1>t. TypeOK
  BY DEF IInv
<1>0. /\ t \in 1..lastTurn /\ Open(t) /\ turns[t] \in Turn /\ t # NoTurn
      /\ turns \in [1..lastTurn -> Turn] /\ messages \in [DOMAIN messages -> Message]
  BY <1>t DEF ProcessedTurns, TypeOK, NoTurn
<1>1. /\ turns'[t].acknowledged /\ ~turns[t].acknowledged
      /\ \A s \in 1..lastTurn \ {t} : turns'[s] = turns[s]
      /\ turns'[t].conv = turns[t].conv /\ turns'[t].state = turns[t].state
      /\ turns'[t].prompt = turns[t].prompt /\ turns'[t].contextReset = turns[t].contextReset
      /\ turns'[t].recoveryOf = turns[t].recoveryOf
      /\ turns'[t].supersededBy = turns[t].supersededBy
  BY <1>0 DEF Acknowledge, Turn, Open
<1>2. UNCHANGED <<messages, lastTurn>>
  BY DEF Acknowledge
<1>3. \A s \in 1..lastTurn : Open(s)' <=> Open(s) /\ s # t
  BY <1>0, <1>1 DEF Open
<1>4. \A m \in DOMAIN messages : Live(m)' <=> Live(m) /\ m \notin Events(t)
  BY <1>0, <1>2, <1>3, <1>t, RowTurns DEF Live, Events, NoTurn
<1>5. \A s : Events(s)' = Events(s) /\ Deliveries(s)' = Deliveries(s) /\ KeysOf(s)' = KeysOf(s)
  BY <1>2 DEF Events, Deliveries, KeysOf
<1>6. RowsInv'
  BY <1>0, <1>1, <1>2, <1>5 DEF RowsInv
<1>7. BranchInv'
  <2>0. On(branch)' = On(branch)
    BY DEF On
  <2>1. SentOnce'
    BY DEF BranchInv, SentOnce
  <2>2. BranchKnown'
    BY <1>2, <2>0 DEF BranchInv, BranchKnown, Row, Prompt
  <2>3. ContextFirst'
    BY <1>1, <1>2, <1>5, <2>0 DEF BranchInv, ContextFirst
  <2>4. ContextFresh'
    BY <1>1, <1>2, <1>3, <1>5, <2>0 DEF BranchInv, ContextFresh
  <2>5. ReceiptsBacked'
    <3>1. \A s \in 1..lastTurn : Unrecorded(s)' = Unrecorded(s)
      BY <1>1, <1>2, <1>5 DEF Unrecorded
    <3> QED  BY <1>2, <1>3, <1>5, <2>0, <3>1 DEF BranchInv, ReceiptsBacked
  <2>6. ProcessedWasAnswered'
    <3>1. \A s : After(s)' = After(s)
      BY <1>5 DEF After
    <3>2. ProcessedTurns' \subseteq ProcessedTurns
      BY <1>1, <1>2, <1>3 DEF ProcessedTurns
    <3> QED  BY <1>5, <2>0, <3>1, <3>2 DEF BranchInv, ProcessedWasAnswered
  <2> QED  BY <2>1, <2>2, <2>3, <2>4, <2>5, <2>6 DEF BranchInv
<1>8. \A m \in Events(t) : Live(m)
  BY <1>0 DEF Events, Live
<1>9. KeysOf(t) # {} /\ KeysOf(t) \subseteq Held
  <2>1. KeysOf(t) # {}
    BY <1>0 DEF RowsInv, KeysOf
  <2> QED  BY <2>1, <1>8 DEF KeysOf, Held, Events
<1>10. Held' = Held \ KeysOf(t)
  <2>1. ASSUME NEW m \in DOMAIN messages, Live(m), messages[m].key \in KeysOf(t)
        PROVE  m \in Events(t)
    <3>1. PICK n \in Events(t) : messages[n].key = messages[m].key
      BY <2>1 DEF KeysOf
    <3>2. n \in DOMAIN messages /\ Live(n) /\ messages[n].conv = messages[m].conv
      BY <3>1, <1>8 DEF Events, RowsInv
    <3>3. m = n
      BY <2>1, <3>1, <3>2 DEF IInv, OneLiveMessage, InScope
    <3> QED  BY <3>1, <3>3
  <2>2. \A m \in DOMAIN messages : Live(m)' <=> Live(m) /\ messages[m].key \notin KeysOf(t)
    BY <1>4, <2>1 DEF KeysOf
  <2> QED  BY <1>2, <2>2 DEF Held
<1>11. ASSUME NEW k
       PROVE  Answering(k)' = IF k \in KeysOf(t) THEN Answering(k) \cup {t} ELSE Answering(k)
  BY <1>0, <1>1, <1>2, <1>5 DEF Answering
<1>12. t \notin UNION {Answering(k) : k \in Key}
  BY <1>1 DEF Answering
<1> QED  BY <1>5, <1>6, <1>7, <1>9, <1>10, <1>11, <1>12 DEF AnswersTurn

-----------------------------------------------------------------------------
\* The inbox accepts an event of this conversation: it holds one key more, and nothing
\* of it is on the branch.
HoldsToo(k) == Held' = Held \cup {k} /\ \A j : Answering(j)' = Answering(j)

LEMMA AcceptsKeeps ==
  ASSUME IInv, RowsInv, BranchInv, UNCHANGED branch,
         NEW k \in Key, NEW row, AcceptsRow(conversation, k, row)
  PROVE  RowsInv' /\ BranchInv' /\ HoldsToo(k) /\ RunsKept
<1>t. TypeOK
  BY DEF IInv
<1>a. /\ RowFits(conversation, k, row) /\ Accepted(conversation, k, row)
      /\ OnlyRefreshed(turns, turns')
      /\ Stays(row) \/ \E t : JoinsTurn(conversation, row, t)
  BY DEF AcceptsRow
<1>1. /\ UNCHANGED lastTurn
      /\ \A s \in 1..lastTurn :
          /\ turns'[s].conv = turns[s].conv /\ turns'[s].prompt = turns[s].prompt
          /\ turns'[s].recoveryOf = turns[s].recoveryOf
          /\ turns'[s].supersededBy = turns[s].supersededBy
          /\ turns'[s].acknowledged = turns[s].acknowledged
          /\ turns'[s].contextReset = turns[s].contextReset
          /\ turns'[s].quarantined => turns[s].quarantined
          /\ turns'[s].state = "processed" <=> turns[s].state = "processed"
  BY <1>a DEF OnlyRefreshed, Accepted
<1>2. \A s \in 1..lastTurn : Open(s)' <=> Open(s)
  BY <1>1 DEF Open
<1>3. /\ DOMAIN messages' = DOMAIN messages \cup {row}
      /\ \A m \in DOMAIN messages : m # row => messages'[m] = messages[m]
      /\ messages'[row].conv = conversation /\ messages'[row].key = k
      /\ messages'[row].state = IF row \in DOMAIN messages THEN messages[row].state ELSE "pending"
  BY <1>a DEF Accepted
<1>4. row \in DOMAIN messages =>
        Live(row) /\ messages[row].key = k /\ messages[row].conv = conversation
  BY <1>a DEF RowFits
\* The row keeps its turn, or had none and has none or an open one now.
<1>5. \/ row \in DOMAIN messages /\ messages'[row].turn = messages[row].turn
      \/ /\ row \in DOMAIN messages => messages[row].turn = NoTurn
         /\ \/ messages'[row].turn = NoTurn
            \/ /\ messages'[row].turn \in 1..lastTurn /\ Open(messages'[row].turn)
               /\ turns[messages'[row].turn].state # "processed"
  BY <1>a DEF Stays, JoinsTurn
<1>6. \A m \in DOMAIN messages : m # row => (Live(m)' <=> Live(m))
  BY <1>2, <1>3, <1>t, RowTurns DEF Live
<1>7. Live(row)'
  BY <1>2, <1>3, <1>4, <1>5, <1>t, RowTurns DEF Live
<1>8. \A s : Events(s)' \ Events(s) \subseteq {row}
  BY <1>3 DEF Events
<1>9. \A s : s # NoTurn => Events(s) \subseteq Events(s)'
  BY <1>3, <1>5 DEF Events
<1>10. ASSUME NEW s \in 1..lastTurn, ~Open(s) \/ turns[s].state = "processed"
       PROVE  Events(s)' = Events(s)
  <2>1. s # NoTurn
    BY <1>t DEF NoTurn, TypeOK
  <2>2. row \in Events(s)' => row \in Events(s)
    BY <2>1, <1>3, <1>5, <1>10 DEF Events
  <2> QED  BY <2>1, <2>2, <1>8, <1>9
<1>11. Held' = Held \cup {k}
  <2>1. Held' \subseteq Held \cup {k}
    BY <1>3, <1>6 DEF Held
  <2>2. Held \subseteq Held'
    BY <1>3, <1>4, <1>6, <1>7 DEF Held
  <2>3. k \in Held'
    BY <1>3, <1>7 DEF Held
  <2> QED  BY <2>1, <2>2, <2>3
<1>12. ASSUME NEW j PROVE Answering(j)' = Answering(j)
  <2>1. \A s \in 1..lastTurn : turns[s].acknowledged => KeysOf(s)' = KeysOf(s)
    <3> SUFFICES ASSUME NEW s \in 1..lastTurn, turns[s].acknowledged PROVE KeysOf(s)' = KeysOf(s)
      OBVIOUS
    <3>1. Events(s)' = Events(s) /\ s # NoTurn
      BY <1>10, <1>t DEF Open, NoTurn, TypeOK
    <3>2. \A m \in Events(s) : messages'[m].key = messages[m].key
      BY <1>3, <1>4 DEF Events
    <3> QED  BY <3>1, <3>2 DEF KeysOf
  <2> QED  BY <2>1, <1>1 DEF Answering
<1>13. HoldsToo(k)
  BY <1>11, <1>12 DEF HoldsToo
<1>14. ProcessedTurns' = ProcessedTurns
  BY <1>1, <1>2 DEF ProcessedTurns
<1>15. RunsKept
  BY <1>1, <1>2, <1>14 DEF RunsKept, Running
<1>16. RowsInv'
  <2>1. (\A m \in DOMAIN messages :
          /\ messages[m].conv = conversation
          /\ messages[m].turn = NoTurn => messages[m].state = "pending")'
    BY <1>3, <1>5 DEF RowsInv
  <2>2. \A s \in 1..lastTurn : Events(s)' # {}
    BY <1>9, <1>t DEF RowsInv, NoTurn, TypeOK
  <2> QED  BY <1>1, <2>1, <2>2 DEF RowsInv
\* Its message is not on the branch.
<1>17. Row(row) \notin On(branch) \/ \A s : s # NoTurn => Events(s)' = Events(s)
  <2>1. CASE row \in DOMAIN messages /\ messages'[row].turn = messages[row].turn
    <3>1. \A s : row \in Events(s)' => row \in Events(s)
      BY <2>1 DEF Events
    <3> QED  BY <3>1, <1>8, <1>9
  <2>2. CASE row \in DOMAIN messages => messages[row].turn = NoTurn
    BY <2>2 DEF BranchInv, BranchKnown
  <2> QED  BY <2>1, <2>2, <1>5
<1>18. \A s \in 1..lastTurn : On(branch) \cap Deliveries(s)' = On(branch) \cap Deliveries(s)
  <2> SUFFICES ASSUME NEW s \in 1..lastTurn
               PROVE  On(branch) \cap Deliveries(s)' = On(branch) \cap Deliveries(s)
    OBVIOUS
  <2>1. s # NoTurn
    BY <1>t DEF NoTurn, TypeOK
  <2> QED  BY <2>1, <1>8, <1>9, <1>17 DEF Deliveries
<1>0. On(branch)' = On(branch)
  BY DEF On
<1>19. SentOnce'
  BY DEF BranchInv, SentOnce
<1>20. BranchKnown'
  BY <1>0, <1>1, <1>3, <1>5 DEF BranchInv, BranchKnown, Row, Prompt
<1>21. ContextFirst'
  BY <1>0, <1>1, <1>18 DEF BranchInv, ContextFirst
<1>22. ContextFresh'
  <2> SUFFICES ASSUME NEW s \in 1..lastTurn, Open(s)', turns'[s].recoveryOf # NoTurn,
                      turns'[s].contextReset
               PROVE  On(branch) \cap Deliveries(turns[s].recoveryOf)' = {}
    BY <1>0, <1>1 DEF ContextFresh
  <2>1. turns[s].recoveryOf \in 1..lastTurn
    BY <1>1, <1>t DEF RowsInv, TypeOK
  <2> QED  BY <2>1, <1>1, <1>2, <1>18 DEF BranchInv, ContextFresh
<1>23. ReceiptsBacked'
  <2> SUFFICES ASSUME NEW s \in 1..lastTurn, Open(s)', NEW d \in Deliveries(s)',
                      d \notin On(branch)
               PROVE  d \in Unrecorded(s)'
    BY <1>0, <1>1 DEF ReceiptsBacked
  <2>1. CASE d = Prompt(s)
    <3>1. d \in Deliveries(s) /\ d \in Unrecorded(s)
      BY <2>1, <1>2 DEF Deliveries, BranchInv, ReceiptsBacked
    <3> QED  BY <2>1, <3>1, <1>1 DEF Unrecorded, Prompt
  <2>2. ASSUME NEW m \in Events(s), m # row, d = Row(m) PROVE d \in Unrecorded(s)'
    <3>1. d \in Deliveries(s) /\ d \in Unrecorded(s)
      BY <2>2, <1>2 DEF Deliveries, BranchInv, ReceiptsBacked
    <3>2. messages'[m] = messages[m]
      BY <2>2, <1>3 DEF Events
    <3> QED  BY <2>2, <3>1, <3>2 DEF Unrecorded, Row
  <2>3. CASE d = Row(row)
    <3>1. messages'[row].state = "pending"
      <4>1. CASE row \in DOMAIN messages /\ messages'[row].turn = messages[row].turn
        <5>1. row \in Events(s)
          <6>1. row \in Events(s)'
            BY <2>3 DEF Deliveries, Row, Prompt
          <6> QED  BY <4>1, <6>1 DEF Events
        <5>2. d \in Unrecorded(s)
          BY <2>3, <5>1, <1>2 DEF Deliveries, BranchInv, ReceiptsBacked
        <5> QED  BY <2>3, <5>2, <4>1, <1>3 DEF Unrecorded, Row
      <4>2. CASE row \in DOMAIN messages => messages[row].turn = NoTurn
        BY <4>2, <1>3 DEF RowsInv
      <4> QED  BY <4>1, <4>2, <1>5
    <3> QED  BY <2>3, <3>1 DEF Unrecorded, Row
  <2>4. d = Prompt(s) \/ d = Row(row) \/ \E m \in Events(s) : m # row /\ d = Row(m)
    BY <1>8 DEF Deliveries
  <2> QED  BY <2>1, <2>2, <2>3, <2>4
<1>24. ProcessedWasAnswered'
  <2> SUFFICES ASSUME NEW s \in ProcessedTurns
               PROVE  /\ Deliveries(s)' \subseteq On(branch)
                      /\ \E i \in After(s)' : branch[i][1] = "finish"
    BY <1>0, <1>14 DEF ProcessedWasAnswered
  <2>1. Events(s)' = Events(s)
    BY <1>10 DEF ProcessedTurns
  <2>2. Deliveries(s)' = Deliveries(s)
    BY <2>1 DEF Deliveries
  <2>3. After(s)' = After(s)
    BY <2>2 DEF After
  <2> QED  BY <2>2, <2>3 DEF BranchInv, ProcessedWasAnswered
<1> QED
  BY <1>13, <1>15, <1>16, <1>19, <1>20, <1>21, <1>22, <1>23, <1>24 DEF BranchInv

-----------------------------------------------------------------------------
(* A new turn: next_turn and reset_turn.                                   *)

\* A turn is added and its rows are none the branch has.
Opens(new) ==
    /\ new = lastTurn + 1 /\ lastTurn' = new
    /\ turns' \in [1..new -> Turn]
    /\ \A s \in 1..lastTurn :
        /\ turns'[s].conv = turns[s].conv /\ turns'[s].recoveryOf = turns[s].recoveryOf
        /\ turns'[s].acknowledged = turns[s].acknowledged
        /\ turns'[s].contextReset = turns[s].contextReset
        /\ turns'[s].state = turns[s].state /\ turns'[s].prompt = turns[s].prompt
        /\ turns'[s].quarantined = turns[s].quarantined
        /\ Open(s)' => Open(s)
        /\ Open(s) /\ turns[s].state = "processed" => Open(s)'
        /\ Events(s)' = Events(s)
    /\ turns'[new].conv = conversation
    /\ turns'[new].recoveryOf # NoTurn => turns'[new].recoveryOf \in 1..lastTurn
    /\ turns'[new].contextReset <=> turns'[new].recoveryOf = NoTurn
    /\ Open(new)' /\ Running(new)' /\ turns'[new].prompt = "pending"
    /\ DOMAIN messages \subseteq DOMAIN messages'
    /\ \A m \in DOMAIN messages :
        /\ messages'[m].conv = messages[m].conv /\ messages'[m].key = messages[m].key
        /\ messages'[m].state = messages[m].state
        /\ messages[m].turn # NoTurn => messages'[m].turn = messages[m].turn
        /\ messages'[m].turn = NoTurn => messages[m].turn = NoTurn
    /\ Events(new)' # {}
    /\ \A m \in Events(new)' : messages'[m].state = "pending" /\ Row(m) \notin On(branch)
    /\ \A m \in DOMAIN messages' \ DOMAIN messages :
        m \in Events(new)' /\ messages'[m].conv = conversation

LEMMA OpensKeeps ==
  ASSUME IInv, RowsInv, BranchInv, UNCHANGED branch, NEW new, Opens(new)
  PROVE  /\ RowsInv' /\ BranchInv' /\ ProcessedTurns' = ProcessedTurns
         /\ \A k : Answering(k)' = Answering(k)
<1>t. TypeOK
  BY DEF IInv
<1>0. /\ lastTurn \in Nat /\ new \in Nat /\ new # NoTurn /\ new \notin 1..lastTurn
      /\ 1..new = 1..lastTurn \cup {new}
  <2>1. lastTurn \in Nat /\ new = lastTurn + 1
    BY <1>t DEF TypeOK, Opens
  <2> QED  BY <2>1 DEF NoTurn
<1>1. \A s \in 1..lastTurn : Deliveries(s)' = Deliveries(s)
  BY DEF Opens, Deliveries
<1>2. \A s \in 1..lastTurn' : s = new \/ s \in 1..lastTurn
  BY <1>0 DEF Opens
<1>3. On(branch)' = On(branch)
  BY DEF On
<1>4. RowsInv'
  <2>1. (\A m \in DOMAIN messages :
          /\ messages[m].conv = conversation
          /\ messages[m].turn = NoTurn => messages[m].state = "pending")'
    <3> SUFFICES ASSUME NEW m \in DOMAIN messages'
                 PROVE  /\ messages'[m].conv = conversation
                        /\ messages'[m].turn = NoTurn => messages'[m].state = "pending"
      OBVIOUS
    <3>1. CASE m \in DOMAIN messages
      BY <3>1 DEF Opens, RowsInv
    <3>2. CASE m \notin DOMAIN messages
      BY <3>2 DEF Opens
    <3> QED  BY <3>1, <3>2
  <2>2. ASSUME NEW s \in 1..lastTurn'
        PROVE  /\ turns'[s].conv = conversation /\ Events(s)' # {}
               /\ turns'[s].recoveryOf # NoTurn => turns'[s].recoveryOf \in 1..(s - 1)
    <3>1. CASE s = new
      <4>1. new - 1 = lastTurn
        BY <1>t DEF Opens, TypeOK
      <4> QED  BY <3>1, <4>1 DEF Opens
    <3>2. CASE s \in 1..lastTurn
      BY <3>2 DEF Opens, RowsInv
    <3> QED  BY <3>1, <3>2, <1>2
  <2> QED  BY <2>1, <2>2 DEF RowsInv
<1>5. \A s \in 1..lastTurn : KeysOf(s)' = KeysOf(s)
  <2> SUFFICES ASSUME NEW s \in 1..lastTurn PROVE KeysOf(s)' = KeysOf(s)
    OBVIOUS
  <2>1. Events(s)' = Events(s) /\ \A m \in Events(s) : messages'[m].key = messages[m].key
    BY DEF Opens, Events
  <2> QED  BY <2>1 DEF KeysOf
<1>6. ~turns'[new].acknowledged
  BY DEF Opens, Open
<1>7. ASSUME NEW k PROVE Answering(k)' = Answering(k)
  <2>1. 1..lastTurn' = 1..lastTurn \cup {new}
    BY <1>0 DEF Opens
  <2>2. \A s \in 1..lastTurn : turns'[s].acknowledged = turns[s].acknowledged
    BY DEF Opens
  <2> QED  BY <2>1, <2>2, <1>5, <1>6 DEF Answering
<1>8. ProcessedTurns' = ProcessedTurns
  <2>1. 1..lastTurn' = 1..lastTurn \cup {new}
    BY <1>0 DEF Opens
  <2>2. turns'[new].state # "processed"
    BY DEF Opens, Running
  <2>3. \A s \in 1..lastTurn : s \in ProcessedTurns' <=> s \in ProcessedTurns
    BY <2>1 DEF Opens, ProcessedTurns
  <2>4. new \notin ProcessedTurns' /\ new \notin ProcessedTurns
    BY <2>2, <1>0 DEF ProcessedTurns
  <2> QED  BY <2>1, <2>3, <2>4 DEF ProcessedTurns
\* Nothing of the new turn is on the branch.
<1>9. On(branch) \cap Deliveries(new)' = {}
  <2>1. Prompt(new) \notin On(branch)
    BY <1>0 DEF BranchInv, BranchKnown
  <2>2. \A m \in Events(new)' : Row(m) \notin On(branch)
    BY DEF Opens
  <2> QED  BY <2>1, <2>2 DEF Deliveries
<1>10. SentOnce'
  BY DEF BranchInv, SentOnce
<1>11. BranchKnown'
  <2>1. \A m : Row(m) \in On(branch) => m \in DOMAIN messages' /\ messages'[m].turn # NoTurn
    BY DEF Opens, BranchInv, BranchKnown
  <2>2. \A s : Prompt(s) \in On(branch) => s \in 1..lastTurn'
    BY <1>0 DEF Opens, BranchInv, BranchKnown
  <2> QED  BY <1>3, <2>1, <2>2 DEF BranchKnown, Row, Prompt
<1>12. ContextFirst'
  <2> SUFFICES ASSUME NEW s \in 1..lastTurn', ~turns'[s].contextReset
               PROVE  On(branch) \cap Deliveries(s)' = {}
    BY <1>3 DEF ContextFirst
  <2>1. CASE s = new
    BY <2>1, <1>9
  <2>2. CASE s \in 1..lastTurn
    BY <2>2, <1>1 DEF Opens, BranchInv, ContextFirst
  <2> QED  BY <2>1, <2>2, <1>2
<1>13. ContextFresh'
  <2> SUFFICES ASSUME NEW s \in 1..lastTurn', Open(s)', turns'[s].recoveryOf # NoTurn,
                      turns'[s].contextReset
               PROVE  On(branch) \cap Deliveries(turns[s].recoveryOf)' = {}
    BY <1>3 DEF ContextFresh
  <2>1. s \in 1..lastTurn
    BY <1>2 DEF Opens
  <2>2. /\ turns'[s].recoveryOf = turns[s].recoveryOf /\ Open(s) /\ turns[s].contextReset
    BY <2>1 DEF Opens
  <2>3. turns[s].recoveryOf \in 1..lastTurn
    BY <2>1, <2>2, <1>t DEF RowsInv, TypeOK
  <2>4. Deliveries(turns[s].recoveryOf)' = Deliveries(turns[s].recoveryOf)
    <3>1. PICK r \in 1..lastTurn : r = turns[s].recoveryOf
      BY <2>3
    <3>2. Events(r)' = Events(r)
      BY <3>1 DEF Opens
    <3>3. turns'[s].recoveryOf = r
      BY <2>2, <3>1
    <3> QED  BY <3>1, <3>2, <3>3 DEF Deliveries, Events, Prompt
  <2> QED  BY <2>1, <2>2, <2>4 DEF BranchInv, ContextFresh
<1>14. ReceiptsBacked'
  <2> SUFFICES ASSUME NEW s \in 1..lastTurn', Open(s)', NEW d \in Deliveries(s)',
                      d \notin On(branch)
               PROVE  d \in Unrecorded(s)'
    BY <1>3 DEF ReceiptsBacked
  <2>1. CASE s = new
    <3>1. turns'[new].prompt = "pending" /\ \A m \in Events(new)' : messages'[m].state = "pending"
      BY DEF Opens
    <3> QED  BY <2>1, <3>1 DEF Unrecorded, Deliveries, Prompt, Row
  <2>2. CASE s \in 1..lastTurn
    <3>1. d \in Deliveries(s) /\ d \in Unrecorded(s)
      BY <2>2, <1>1 DEF Opens, BranchInv, ReceiptsBacked
    <3>2. turns'[s].prompt = turns[s].prompt
          /\ \A m \in Events(s) : messages'[m].state = messages[m].state
      BY <2>2 DEF Opens, Events
    <3> QED  BY <3>1, <3>2 DEF Unrecorded, Deliveries, Prompt, Row
  <2> QED  BY <2>1, <2>2, <1>2
<1>15. ProcessedWasAnswered'
  <2> SUFFICES ASSUME NEW s \in ProcessedTurns
               PROVE  /\ Deliveries(s)' \subseteq On(branch)
                      /\ \E i \in After(s)' : branch[i][1] = "finish"
    BY <1>3, <1>8 DEF ProcessedWasAnswered
  <2>1. Deliveries(s)' = Deliveries(s)
    BY <1>1 DEF ProcessedTurns
  <2>2. After(s)' = After(s)
    BY <2>1 DEF After
  <2> QED  BY <2>1, <2>2 DEF BranchInv, ProcessedWasAnswered
<1> QED
  BY <1>4, <1>7, <1>8, <1>10, <1>11, <1>12, <1>13, <1>14, <1>15 DEF BranchInv

LEMMA NextTurnOpens ==
  ASSUME IInv, RowsInv, BranchInv, conversation \in Conversation, NextTurn(conversation),
         NEW new, new = lastTurn + 1
  PROVE  Opens(new) /\ Held' = Held
<1>t. TypeOK
  BY DEF IInv
<1>0. /\ lastTurn \in Nat /\ new \in Nat /\ new # NoTurn /\ new \notin 1..lastTurn
      /\ 1..new = 1..lastTurn \cup {new}
  <2>1. lastTurn \in Nat
    BY <1>t DEF TypeOK
  <2> QED  BY <2>1 DEF NoTurn
<1>1. /\ turns' \in [1..new -> Turn]
      /\ \A s \in 1..lastTurn : turns'[s] = turns[s]
      /\ turns'[new] = NewTurn(conversation, NoTurn, 0)
      /\ messages' \in [DOMAIN messages -> Message] /\ DOMAIN messages' = DOMAIN messages
      /\ \A m \in DOMAIN messages \ Batch(conversation) : messages'[m] = messages[m]
      /\ \A m \in Batch(conversation) : messages'[m].turn = new
      /\ \A m \in DOMAIN messages : /\ messages'[m].conv = messages[m].conv
                                    /\ messages'[m].key = messages[m].key
                                    /\ messages'[m].state = messages[m].state
  BY NextTurnRows
<1>2. lastTurn' = new /\ Batch(conversation) # {}
  BY DEF NextTurn
<1>3. \A m \in Batch(conversation) :
        /\ m \in DOMAIN messages /\ messages[m].turn = NoTurn /\ messages[m].state = "pending"
  BY DEF Batch, Pending
<1>4. /\ turns'[new].conv = conversation /\ turns'[new].recoveryOf = NoTurn
      /\ turns'[new].contextReset /\ turns'[new].prompt = "pending"
      /\ turns'[new].state = "pending" /\ ~turns'[new].acknowledged
      /\ turns'[new].supersededBy = NoTurn /\ ~turns'[new].quarantined
  <2>1. turns'[new].contextReset = (NoTurn = NoTurn)
    BY <1>1 DEF NewTurn
  <2>2. /\ turns'[new].conv = conversation /\ turns'[new].recoveryOf = NoTurn
        /\ turns'[new].prompt = "pending"
        /\ turns'[new].state = "pending" /\ ~turns'[new].acknowledged
        /\ turns'[new].supersededBy = NoTurn /\ ~turns'[new].quarantined
    BY <1>1 DEF NewTurn
  <2> QED  BY <2>1, <2>2
<1>5. Open(new)' /\ Running(new)' /\ \A s \in 1..lastTurn : Open(s)' <=> Open(s)
  BY <1>1, <1>4 DEF Open, Running
<1>6. \A m \in DOMAIN messages : m \in Batch(conversation) \/ messages'[m] = messages[m]
  BY <1>1
<1>7. ASSUME NEW s \in 1..lastTurn PROVE Events(s)' = Events(s)
  <2>1. s # new /\ s # NoTurn
    BY <1>0 DEF NoTurn
  <2> QED  BY <2>1, <1>1, <1>3, <1>6 DEF Events
<1>8. Events(new)' = Batch(conversation)
  <2>1. \A m \in DOMAIN messages : messages[m].turn # new
    BY <1>0, <1>t, RowTurns
  <2> QED  BY <2>1, <1>1, <1>3, <1>6 DEF Events
<1>9. \A m \in Batch(conversation) : Row(m) \notin On(branch)
  BY <1>3 DEF BranchInv, BranchKnown
<1>10. Opens(new)
  <2>1. \A s \in 1..lastTurn :
        /\ turns'[s].conv = turns[s].conv /\ turns'[s].recoveryOf = turns[s].recoveryOf
        /\ turns'[s].acknowledged = turns[s].acknowledged
        /\ turns'[s].contextReset = turns[s].contextReset
        /\ turns'[s].state = turns[s].state /\ turns'[s].prompt = turns[s].prompt
        /\ turns'[s].quarantined = turns[s].quarantined
        /\ Open(s)' => Open(s)
        /\ Open(s) /\ turns[s].state = "processed" => Open(s)'
        /\ Events(s)' = Events(s)
    BY <1>1, <1>5, <1>7
  <2>2. \A m \in DOMAIN messages :
        /\ messages'[m].conv = messages[m].conv /\ messages'[m].key = messages[m].key
        /\ messages'[m].state = messages[m].state
        /\ messages[m].turn # NoTurn => messages'[m].turn = messages[m].turn
        /\ messages'[m].turn = NoTurn => messages[m].turn = NoTurn
    BY <1>1, <1>3, <1>6
  <2>3. \A m \in Events(new)' : messages'[m].state = "pending" /\ Row(m) \notin On(branch)
    BY <1>1, <1>3, <1>8, <1>9
  <2> QED  BY <2>1, <2>2, <2>3, <1>1, <1>2, <1>4, <1>5, <1>8 DEF Opens
<1>11. \A m \in DOMAIN messages : Live(m)' <=> Live(m)
  <2> SUFFICES ASSUME NEW m \in DOMAIN messages PROVE Live(m)' <=> Live(m)
    OBVIOUS
  <2>1. CASE m \in Batch(conversation)
    BY <2>1, <1>1, <1>3, <1>5 DEF Live
  <2>2. CASE messages'[m] = messages[m]
    BY <2>2, <1>5, <1>t, RowTurns DEF Live
  <2> QED  BY <2>1, <2>2, <1>6
<1>12. Held' = Held
  BY <1>1, <1>11 DEF Held
<1> QED  BY <1>10, <1>12

LEMMA ResetTurnOpens ==
  ASSUME IInv, RowsInv, BranchInv, NEW t \in 1..lastTurn, Running(t), ResetTurn(t),
         NEW new, new = lastTurn + 1
  PROVE  Opens(new) /\ Held' = Held
<1>t. TypeOK
  BY DEF IInv
<1>0. /\ lastTurn \in Nat /\ new \in Nat /\ new # NoTurn /\ new \notin 1..lastTurn
      /\ 1..new = 1..lastTurn \cup {new} /\ t # NoTurn
      /\ turns[t] \in Turn
  <2>1. lastTurn \in Nat /\ turns[t] \in Turn
    BY <1>t DEF TypeOK
  <2> QED  BY <2>1 DEF NoTurn
<1>r. Open(t) /\ turns[t].state # "processed"
  BY DEF Running
<1>1. /\ turns' \in [1..new -> Turn]
      /\ turns'[new] = NewTurn(turns[t].conv, t, turns[t].generation + 1)
      /\ turns'[t] = [turns[t] EXCEPT !.supersededBy = new]
      /\ \A s \in 1..lastTurn \ {t} : turns'[s] = turns[s]
  BY ResetTurns
<1>2. /\ DOMAIN messages' = DOMAIN messages \cup {Copy(m) : m \in Events(t)}
      /\ \A m \in DOMAIN messages : messages'[m] = messages[m]
      /\ \A m \in Events(t) :
          /\ Copy(m) \notin DOMAIN messages
          /\ messages'[Copy(m)].conv = messages[m].conv
          /\ messages'[Copy(m)].key = messages[m].key
          /\ messages'[Copy(m)].turn = new
          /\ messages'[Copy(m)].state = "pending"
  BY ResetRows
<1>3. lastTurn' = new
  BY DEF ResetTurn
<1>4. /\ turns'[new].conv = conversation /\ turns'[new].recoveryOf = t
      /\ ~turns'[new].contextReset /\ turns'[new].prompt = "pending"
      /\ turns'[new].state = "pending" /\ ~turns'[new].acknowledged
      /\ turns'[new].supersededBy = NoTurn /\ ~turns'[new].quarantined
  <2>1. turns[t].conv = conversation
    BY DEF RowsInv
  <2>2. turns'[new].contextReset = (t = NoTurn)
    BY <1>1 DEF NewTurn
  <2>3. /\ turns'[new].conv = turns[t].conv /\ turns'[new].recoveryOf = t
        /\ turns'[new].prompt = "pending"
        /\ turns'[new].state = "pending" /\ ~turns'[new].acknowledged
        /\ turns'[new].supersededBy = NoTurn /\ ~turns'[new].quarantined
    BY <1>1 DEF NewTurn
  <2> QED  BY <2>1, <2>2, <2>3, <1>0
<1>5. /\ turns'[t].conv = turns[t].conv /\ turns'[t].recoveryOf = turns[t].recoveryOf
      /\ turns'[t].acknowledged = turns[t].acknowledged
      /\ turns'[t].contextReset = turns[t].contextReset
      /\ turns'[t].state = turns[t].state /\ turns'[t].prompt = turns[t].prompt
      /\ turns'[t].quarantined = turns[t].quarantined
      /\ turns'[t].supersededBy # NoTurn
  BY <1>0, <1>1 DEF Turn
<1>6. Open(new)' /\ Running(new)'
  BY <1>4 DEF Open, Running
<1>7. \A s \in 1..lastTurn : Open(s)' <=> Open(s) /\ s # t
  BY <1>1, <1>5 DEF Open
<1>8. ASSUME NEW s, s # new PROVE Events(s)' = Events(s)
  BY <1>2, <1>8 DEF Events
<1>9. Events(new)' = {Copy(m) : m \in Events(t)}
  <2>1. \A m \in DOMAIN messages : messages[m].turn # new
    BY <1>0, <1>t, RowTurns
  <2> QED  BY <2>1, <1>2 DEF Events
<1>10. Events(t) # {} /\ \A m \in Events(t) : messages[m].conv = conversation
  BY DEF RowsInv, Events
<1>11. \A m \in Events(t) : Row(Copy(m)) \notin On(branch)
  BY <1>2 DEF BranchInv, BranchKnown
<1>12. Opens(new)
  <2>1. \A s \in 1..lastTurn :
        /\ turns'[s].conv = turns[s].conv /\ turns'[s].recoveryOf = turns[s].recoveryOf
        /\ turns'[s].acknowledged = turns[s].acknowledged
        /\ turns'[s].contextReset = turns[s].contextReset
        /\ turns'[s].state = turns[s].state /\ turns'[s].prompt = turns[s].prompt
        /\ turns'[s].quarantined = turns[s].quarantined
    BY <1>1, <1>5
  <2>2. \A s \in 1..lastTurn :
        /\ Open(s)' => Open(s)
        /\ Open(s) /\ turns[s].state = "processed" => Open(s)'
        /\ Events(s)' = Events(s)
    BY <1>0, <1>r, <1>7, <1>8
  <2>3. Events(new)' # {} /\ \A m \in Events(new)' :
            messages'[m].state = "pending" /\ Row(m) \notin On(branch)
    BY <1>2, <1>9, <1>10, <1>11
  <2>4. \A m \in DOMAIN messages' \ DOMAIN messages :
            m \in Events(new)' /\ messages'[m].conv = conversation
    BY <1>2, <1>9, <1>10
  <2>5. \A m \in DOMAIN messages :
        /\ messages'[m].conv = messages[m].conv /\ messages'[m].key = messages[m].key
        /\ messages'[m].state = messages[m].state
        /\ messages[m].turn # NoTurn => messages'[m].turn = messages[m].turn
        /\ messages'[m].turn = NoTurn => messages[m].turn = NoTurn
    BY <1>2
  <2>6. DOMAIN messages \subseteq DOMAIN messages'
    BY <1>2
  <2>7. /\ turns'[new].recoveryOf # NoTurn => turns'[new].recoveryOf \in 1..lastTurn
        /\ turns'[new].contextReset <=> turns'[new].recoveryOf = NoTurn
    BY <1>0, <1>4
  <2> QED  BY <2>1, <2>2, <2>3, <2>4, <2>5, <2>6, <2>7, <1>1, <1>3, <1>4, <1>6 DEF Opens
<1>13. \A m \in DOMAIN messages : Live(m)' <=> Live(m) /\ m \notin Events(t)
  <2> SUFFICES ASSUME NEW m \in DOMAIN messages PROVE Live(m)' <=> Live(m) /\ m \notin Events(t)
    OBVIOUS
  <2>1. messages'[m].turn = messages[m].turn /\ (m \in Events(t) <=> messages[m].turn = t)
    BY <1>2 DEF Events
  <2>2. messages[m].turn # NoTurn => messages[m].turn \in 1..lastTurn
    BY <1>t, RowTurns
  <2> QED  BY <2>1, <2>2, <1>0, <1>7 DEF Live
<1>14. ASSUME NEW m \in Events(t), NEW n, n = Copy(m) PROVE Live(n)'
  <2>1. messages'[n].turn = new
    BY <1>2, <1>14
  <2> QED  BY <2>1, <1>6 DEF Live
<1>15. Held' = Held
  <2>1. \A m \in Events(t) : m \in DOMAIN messages /\ Live(m)
    BY <1>r DEF Events, Live
  <2>2. Held \subseteq Held'
    <3> SUFFICES ASSUME NEW m \in DOMAIN messages, Live(m)
                 PROVE  \E n \in DOMAIN messages' : Live(n)' /\ messages'[n].key = messages[m].key
      BY DEF Held
    <3>1. CASE m \in Events(t)
      <4>1. PICK n : n = Copy(m)
        OBVIOUS
      <4>2. n \in DOMAIN messages' /\ messages'[n].key = messages[m].key
        BY <3>1, <4>1, <1>2
      <4>3. Live(n)'
        BY <3>1, <4>1, <1>14
      <4> QED  BY <4>2, <4>3
    <3>2. CASE m \notin Events(t)
      BY <3>2, <1>2, <1>13
    <3> QED  BY <3>1, <3>2
  <2>3. Held' \subseteq Held
    <3> SUFFICES ASSUME NEW m \in DOMAIN messages', Live(m)'
                 PROVE  \E n \in DOMAIN messages : Live(n) /\ messages[n].key = messages'[m].key
      BY DEF Held
    <3>1. CASE m \in DOMAIN messages
      BY <3>1, <1>2, <1>13
    <3>2. CASE m \notin DOMAIN messages
      BY <3>2, <1>2, <2>1
    <3> QED  BY <3>1, <3>2
  <2> QED  BY <2>2, <2>3
<1> QED  BY <1>12, <1>15

-----------------------------------------------------------------------------
(* A step of the worker: what it leaves true, what it does to the promise  *)
(* of EventDelivery, and that it uses the inbox as PersistentInbox allows. *)

StoreKept == \A k \in Key : outbox'[k] = "absent" <=> outbox[k] = "absent"

Effects ==
    \/ EventsKept /\ StoreKept
    \/ EventsKept /\ \E k \in Key :
        outbox[k] = "absent" /\ outbox' = [outbox EXCEPT ![k] = "posted"]
    \/ StoreKept /\ \E k \in Key : outbox[k] # "absent" /\ Answering(k) = {} /\ HoldsToo(k)
    \/ StoreKept /\ \E t \in ProcessedTurns : AnswersTurn(t)

Fine == DInv' /\ Effects /\ (UNCHANGED vars \/ Next)

LEMMA QuietKeeps ==
  ASSUME DInv, UNCHANGED <<vars, branch>>
  PROVE  /\ IInv' /\ RowsInv' /\ BranchInv' /\ EventsKept /\ RunsKept
         /\ \A t : KeysOf(t)' = KeysOf(t)
<1>t. TypeOK
  BY DEF DInv, IInv
<1>1. IInv'
  BY StutterIInv DEF DInv
<1>2. Marks /\ \A t \in 1..lastTurn : turns'[t].quarantined => turns[t].quarantined
  BY StutterMarks DEF vars
<1>3. RowsInv' /\ BranchInv' /\ EventsKept /\ RunsKept
  BY <1>t, <1>2, MarksKeep DEF DInv
<1>4. \A t : KeysOf(t)' = KeysOf(t)
  BY DEF vars, KeysOf, Events
<1> QED  BY <1>1, <1>3, <1>4

\* The store and what is between the files stay, or are forgotten.
StoreRests ==
    /\ outbox' = outbox
    /\ pc' = "confirm" => pc = "confirm" /\ active' = active
    /\ todo' \subseteq todo /\ (pc' # "enqueue" => todo' = {})
    /\ pumping' \in {pumping, NoKey}
    /\ pc' \notin {"run", "settle", "steer"} => pumping' = NoKey

LEMMA StoreRestsKeeps ==
  ASSUME StoreInv, StoreRests, EventsKept,
         pc' = "confirm" => \A t : KeysOf(t)' = KeysOf(t)
  PROVE  StoreInv' /\ StoreKept
<1>1. StoreCovers'
  BY DEF StoreInv, StoreCovers, StoreRests, EventsKept
<1>3. pc' = "confirm" => \A k \in KeysOf(active)' : outbox'[k] = "acked"
  <2> SUFFICES ASSUME pc' = "confirm" PROVE \A k \in KeysOf(active)' : outbox'[k] = "acked"
    OBVIOUS
  <2>1. PICK t : t = active
    OBVIOUS
  <2>2. KeysOf(active)' = KeysOf(t)'
    BY <2>1 DEF StoreRests, KeysOf, Events
  <2> QED  BY <2>1, <2>2 DEF StoreInv, StoreRests
<1>4. /\ pc' # "enqueue" => todo' = {}
      /\ pc' \notin {"run", "settle", "steer"} => pumping' = NoKey
  BY DEF StoreRests
<1>5. \A k \in todo' : outbox'[k] # "absent" /\ Answering(k)' = {}
  BY DEF StoreInv, StoreRests, EventsKept
<1>6. pumping' # NoKey => /\ outbox'[pumping'] # "absent"
                          /\ pumping' \in Held' \/ Answering(pumping)' # {}
  <2> SUFFICES ASSUME pumping' # NoKey
               PROVE  /\ outbox'[pumping'] # "absent"
                      /\ pumping' \in Held' \/ Answering(pumping)' # {}
    OBVIOUS
  <2>1. PICK k : k = pumping
    OBVIOUS
  <2>2. Answering(pumping)' = Answering(k)'
    BY <2>1 DEF StoreRests, Answering
  <2> QED  BY <2>1, <2>2 DEF StoreInv, StoreRests, EventsKept
<1>7. StoreKept
  BY DEF StoreRests, StoreKept
<1> QED  BY <1>1, <1>3, <1>4, <1>5, <1>6, <1>7 DEF StoreInv

\* A step that leaves the three files alone.
LEMMA QuietStep ==
  ASSUME DInv, UNCHANGED <<vars, branch>>, StoreRests, WorkerTypes', Control'
  PROVE  Fine
<1>1. /\ IInv' /\ RowsInv' /\ BranchInv' /\ EventsKept
      /\ \A t : KeysOf(t)' = KeysOf(t)
  BY QuietKeeps
<1>2. StoreInv' /\ StoreKept
  BY <1>1, StoreRestsKeeps DEF DInv
<1> QED  BY <1>1, <1>2 DEF Fine, DInv, Effects

\* The controller's thread goes on with the turn it has.
LEMMA GoesOn ==
  ASSUME Control, RunsKept, active' = active, pc' # "confirm",
         pc' \in RunningPcs => pc \in RunningPcs,
         pc' \in {"decide", "run", "settle", "steer"} => turns[active].contextReset,
         pc' \notin {"succeed", "acknowledge"} => ProcessedTurns = {}
  PROVE  Control'
<1>1. ASSUME pc' \in RunningPcs
      PROVE  /\ active' \in 1..lastTurn' /\ Running(active)'
             /\ pc' \in {"decide", "run", "settle", "steer"} => turns'[active'].contextReset
  <2>1. PICK t \in 1..lastTurn : t = active /\ Running(t)
    BY <1>1 DEF Control
  <2>2. t \in 1..lastTurn' /\ Running(t)' /\ (turns[t].contextReset => turns'[t].contextReset)
    BY <2>1 DEF RunsKept
  <2>3. Running(active)'
    BY <2>1, <2>2 DEF Running, Open
  <2> QED  BY <2>1, <2>2, <2>3
<1>2. pc' \in {"decide", "run", "settle", "steer"} => pc' \in RunningPcs
  BY DEF RunningPcs
<1>3. pc' \notin {"succeed", "acknowledge", "confirm"} => ProcessedTurns' = {}
  BY DEF RunsKept
<1> QED  BY <1>1, <1>2, <1>3 DEF Control

\* The turn that runs.
LEMMA ActiveRuns ==
  ASSUME DInv, pc \in RunningPcs
  PROVE  /\ active \in 1..lastTurn /\ Running(active) /\ Open(active) /\ active # NoTurn
         /\ ProcessedTurns = {} /\ lastTurn \in Nat
         /\ \A t \in 1..lastTurn : Open(t) => t = active
<1>1. active \in 1..lastTurn /\ Running(active) /\ ProcessedTurns = {}
  BY DEF DInv, Control, RunningPcs
<1>2. Open(active) /\ lastTurn \in Nat
  BY <1>1 DEF Running, DInv, IInv, TypeOK
<1>3. \A t \in 1..lastTurn : Open(t) => t = active
  BY <1>1, <1>2 DEF DInv, IInv, OneOpenTurn, RowsInv
<1> QED  BY <1>1, <1>2, <1>3 DEF NoTurn

-----------------------------------------------------------------------------
(* The steps that leave the three files alone.                             *)

LEMMA WaitFine ==
  ASSUME DInv, Polled \/ Sleep \/ CooldownEnds \/ DeferralEnds
  PROVE  Fine
<1>1. UNCHANGED <<vars, outbox, branch, todo, pumping, active>>
  BY DEF Polled, Sleep, CooldownEnds, DeferralEnds, memory, world
<1>2. \/ pc' = pc
      \/ pc = "enqueue" /\ todo = {} /\ pc' = "select"
      \/ pc = "select" /\ pc' = "acknowledge"
  BY DEF Polled, Sleep, CooldownEnds, DeferralEnds
<1>3. StoreRests
  BY <1>1, <1>2 DEF StoreRests, DInv, StoreInv
<1>4. WorkerTypes'
  BY <1>1, <1>2 DEF DInv, WorkerTypes
<1>5. Control'
  <2>1. RunsKept
    BY <1>1, QuietKeeps
  <2>2. CASE pc' # "confirm"
    <3>1. ProcessedTurns' = ProcessedTurns
      BY <2>1 DEF RunsKept
    <3> QED  BY <1>1, <1>2, <2>1, <2>2, GoesOn DEF DInv, Control, RunningPcs
  <2>3. CASE pc' = "confirm"
    BY <1>1, <1>2, <2>1, <2>3 DEF RunsKept, DInv, Control, RunningPcs
  <2> QED  BY <2>2, <2>3
<1> QED  BY <1>1, <1>3, <1>4, <1>5, QuietStep

\* The controller's thread moves along a turn that runs.
LEMMA MovesFine ==
  ASSUME DInv,
         \/ OpenConversation /\ ~reset
         \/ Delivered
         \/ RunStops
         \/ DeliverSteer
         \/ HistoryFails
  PROVE  Fine
<1>1. UNCHANGED <<vars, outbox, branch, todo, pumping, active>>
  BY DEF OpenConversation, Delivered, RunStops, DeliverSteer, HistoryFails, memory, world
<1>2. \/ pc = "open" /\ pc' = "activate"
      \/ pc = "activate" /\ ~MustReset(active) /\ pc' = "decide"
      \/ pc = "steer" /\ pc' = "run"
      \/ pc = "run" /\ pc' = "settle"
      \/ pc = "settle" /\ pc' = "steer"
      \/ pc \in {"open", "run"} /\ pc' \in {"open", "select"} /\ pumping = NoKey
  BY DEF OpenConversation, Delivered, Delivering, RunStops, DeliverSteer, HistoryFails
<1>3. StoreRests
  BY <1>1, <1>2 DEF StoreRests, DInv, StoreInv
<1>4. WorkerTypes'
  BY <1>1, <1>2 DEF DInv, WorkerTypes, RunningPcs
<1>5. RunsKept
  BY <1>1, QuietKeeps
<1>6. Control'
  <2>1. pc \in RunningPcs
    BY <1>2 DEF RunningPcs
  <2>2. ProcessedTurns = {} /\ pc' # "confirm"
    BY <2>1, <1>2, ActiveRuns
  <2>3. pc' \in {"decide", "run", "settle", "steer"} => turns[active].contextReset
    BY <1>2 DEF DInv, Control, MustReset
  <2> QED  BY <1>1, <1>5, <2>1, <2>2, <2>3, GoesOn DEF DInv
<1> QED  BY <1>1, <1>3, <1>4, <1>6, QuietStep

\* What was in memory is forgotten; the files are as they were.
LEMMA StopsFine ==
  ASSUME DInv, RunFails \/ Crash
  PROVE  Fine
<1>1. UNCHANGED <<vars, outbox, branch>>
  BY DEF RunFails, Crash
<1>2. /\ pc' = "acknowledge" /\ pumping' = NoKey
      /\ todo' = {} \/ (todo' = todo /\ pc # "enqueue")
  BY DEF RunFails, Crash, TurnFails, Restarted, Settled
<1>3. StoreRests
  BY <1>1, <1>2 DEF StoreRests, DInv, StoreInv
<1>4. WorkerTypes'
  BY <1>1, <1>2 DEF DInv, WorkerTypes
<1>5. Control'
  BY <1>2 DEF Control, RunningPcs
<1> QED  BY <1>1, <1>3, <1>4, <1>5, QuietStep

\* _next_ready_turn gives the turn under way.
LEMMA SelectActiveFine ==
  ASSUME DInv, Select, ActiveTurns(conversation) # {}
  PROVE  Fine
<1>1. /\ UNCHANGED <<vars, outbox, branch, todo, pumping>> /\ pc = "select" /\ pc' = "receive"
      /\ active' \in ActiveTurns(conversation)
  BY DEF Select, world
<1>2. StoreRests
  BY <1>1 DEF StoreRests, DInv, StoreInv
<1>3. WorkerTypes'
  BY <1>1 DEF DInv, WorkerTypes, RunningPcs
<1>4. Control'
  <2>1. PICK t \in ActiveTurns(conversation) : active' = t
    BY <1>1
  <2>2. t \in 1..lastTurn /\ Running(t)
    BY DEF ActiveTurns, UnfinishedTurns, Running
  <2>3. RunsKept
    BY <1>1, QuietKeeps
  <2>4. t \in 1..lastTurn' /\ Running(t)' /\ ProcessedTurns' = ProcessedTurns
    BY <2>2, <2>3 DEF RunsKept
  <2>5. Running(active)'
    BY <2>1, <2>4 DEF Running, Open
  <2>6. ProcessedTurns = {}
    BY <1>1 DEF DInv, Control
  <2> QED  BY <1>1, <2>1, <2>4, <2>5, <2>6 DEF Control
<1> QED  BY <1>1, <1>2, <1>3, <1>4, QuietStep

-----------------------------------------------------------------------------
(* The event store: what is posted, polled and acknowledged.               *)

LEMMA PostEventFine ==
  ASSUME DInv, NEW k \in Key, PostEvent(k)
  PROVE  Fine
<1>1. /\ UNCHANGED <<vars, branch, pc, active, todo, pumping>>
      /\ outbox[k] = "absent" /\ outbox' = [outbox EXCEPT ![k] = "posted"]
  BY DEF PostEvent, memory
<1>2. /\ outbox' \in [Key -> {"absent", "posted", "acked"}] /\ outbox'[k] = "posted"
      /\ \A j \in Key : j # k => outbox'[j] = outbox[j]
  BY <1>1 DEF DInv, WorkerTypes
<1>3. /\ IInv' /\ RowsInv' /\ BranchInv' /\ EventsKept /\ RunsKept
      /\ \A t : KeysOf(t)' = KeysOf(t)
  BY <1>1, QuietKeeps
<1>4. WorkerTypes'
  BY <1>1, <1>2 DEF DInv, WorkerTypes
<1>5. Control'
  BY <1>1 DEF DInv, Control, vars, ProcessedTurns, Running, Open
<1>6. \A j \in Key : outbox[j] # "absent" => outbox'[j] = outbox[j]
  BY <1>1, <1>2
<1>7. Held \subseteq Key /\ \A t : KeysOf(t) \subseteq Key
  <2>1. \A m \in DOMAIN messages : messages[m].key \in Key
    BY DEF DInv, IInv, TypeOK, Message
  <2> QED  BY <2>1 DEF Held, KeysOf, Events
<1>8. StoreCovers'
  BY <1>1, <1>2, <1>3, <1>6, <1>7 DEF DInv, StoreInv, StoreCovers, EventsKept
<1>9. StoreInv'
  <2>1. pc' = "confirm" => \A j \in KeysOf(active)' : outbox'[j] = "acked"
    <3>1. KeysOf(active)' = KeysOf(active)
      BY <1>1 DEF vars, KeysOf, Events
    <3> QED  BY <1>1, <1>6, <1>7, <3>1 DEF DInv, StoreInv
  <2>2. \A j \in todo' : outbox'[j] # "absent" /\ Answering(j)' = {}
    BY <1>1, <1>3, <1>6 DEF DInv, StoreInv, WorkerTypes, EventsKept
  <2>3. pumping' # NoKey => /\ outbox'[pumping'] # "absent"
                            /\ pumping' \in Held' \/ Answering(pumping)' # {}
    <3>1. Answering(pumping)' = Answering(pumping)
      BY <1>1 DEF vars, Answering, KeysOf, Events
    <3> QED  BY <1>1, <1>3, <1>6, <3>1 DEF DInv, StoreInv, WorkerTypes, EventsKept
  <2> QED  BY <1>1, <1>8, <2>1, <2>2, <2>3 DEF DInv, StoreInv
<1> QED  BY <1>1, <1>3, <1>4, <1>5, <1>9 DEF Fine, DInv, Effects

\* The store lets go of keys that the inbox has.
LEMMA ReceiptCovers ==
  ASSUME DInv, UNCHANGED <<vars, branch>>, NEW keys, keys \subseteq Held, StoreReceipt(keys)
  PROVE  /\ StoreCovers' /\ StoreKept
         /\ outbox' \in [Key -> {"absent", "posted", "acked"}]
         /\ \A k \in Key : /\ outbox[k] # "absent" => outbox'[k] # "absent"
                           /\ k \in keys => outbox'[k] = "acked"
<1>1. EventsKept
  BY QuietKeeps
<1>2. \A k \in Key : outbox'[k] = IF k \in keys THEN "acked" ELSE outbox[k]
  BY DEF StoreReceipt
<1>3. outbox' \in [Key -> {"absent", "posted", "acked"}]
  BY DEF StoreReceipt, DInv, WorkerTypes
<1>4. \A m \in DOMAIN messages : messages[m].key \in Key
  BY DEF DInv, IInv, TypeOK, Message
<1>5. Held \subseteq Key
  BY <1>4 DEF Held
<1>6. \A k \in keys : outbox[k] # "absent"
  BY DEF DInv, StoreInv, StoreCovers
<1>7. StoreCovers'
  BY <1>1, <1>2, <1>5, <1>6 DEF DInv, StoreInv, StoreCovers, EventsKept
<1> QED  BY <1>2, <1>3, <1>6, <1>7 DEF StoreKept

\* The keys of an open turn are held.
LEMMA OpenHeld ==
  ASSUME NEW t, Open(t)
  PROVE  KeysOf(t) \subseteq Held
BY DEF KeysOf, Held, Events, Live

LEMMA AcknowledgeMailboxFine ==
  ASSUME DInv, AcknowledgeMailbox
  PROVE  Fine
<1>1. PICK t \in ProcessedTurns :
        /\ active' = t /\ StoreReceipt(KeysOf(t)) /\ pc = "acknowledge" /\ pc' = "confirm"
        /\ UNCHANGED <<vars, branch, todo, pumping>>
  BY DEF AcknowledgeMailbox
<1>2. t \in 1..lastTurn /\ KeysOf(t) \subseteq Held
  BY OpenHeld DEF ProcessedTurns
<1>3. /\ IInv' /\ RowsInv' /\ BranchInv' /\ EventsKept /\ RunsKept
      /\ \A s : KeysOf(s)' = KeysOf(s)
  BY <1>1, QuietKeeps
<1>4. /\ StoreCovers' /\ StoreKept
      /\ outbox' \in [Key -> {"absent", "posted", "acked"}]
      /\ \A k \in Key : k \in KeysOf(t) => outbox'[k] = "acked"
  BY <1>1, <1>2, ReceiptCovers
<1>5. WorkerTypes'
  BY <1>1, <1>4 DEF DInv, WorkerTypes
<1>6. Control'
  BY <1>1, <1>3 DEF Control, RunningPcs, RunsKept
<1>7. StoreInv'
  <2>1. KeysOf(t) \subseteq Key
    BY DEF DInv, IInv, TypeOK, Message, KeysOf, Events
  <2>2. KeysOf(active)' = KeysOf(t)
    BY <1>1 DEF vars, KeysOf, Events
  <2>3. todo' = {} /\ pumping' = NoKey
    BY <1>1 DEF DInv, StoreInv
  <2> QED  BY <1>1, <1>4, <2>1, <2>2, <2>3 DEF StoreInv
<1> QED  BY <1>1, <1>3, <1>4, <1>5, <1>6, <1>7 DEF Fine, DInv, Effects

\* run_openhands has the turn: the store lets go of its events.
LEMMA ReceiveTurnFine ==
  ASSUME DInv, ReceiveTurn
  PROVE  Fine
<1>1. /\ StoreReceipt(KeysOf(active)) /\ pc = "receive" /\ pc' = "open"
      /\ UNCHANGED <<vars, branch, active, todo, pumping>>
  BY DEF ReceiveTurn, memory
<1>2. KeysOf(active) \subseteq Held /\ ProcessedTurns = {} /\ pc \in RunningPcs
  BY <1>1, ActiveRuns, OpenHeld DEF RunningPcs
<1>3. /\ IInv' /\ RowsInv' /\ BranchInv' /\ EventsKept /\ RunsKept
  BY <1>1, QuietKeeps
<1>4. /\ StoreCovers' /\ StoreKept
      /\ outbox' \in [Key -> {"absent", "posted", "acked"}]
  BY <1>1, <1>2, ReceiptCovers
<1>5. WorkerTypes'
  BY <1>1, <1>4 DEF DInv, WorkerTypes, RunningPcs
<1>6. Control'
  BY <1>1, <1>2, <1>3, GoesOn DEF DInv
<1>7. StoreInv'
  <2>1. todo' = {} /\ pumping' = NoKey
    BY <1>1 DEF DInv, StoreInv
  <2> QED  BY <1>1, <1>4, <2>1 DEF StoreInv
<1> QED  BY <1>1, <1>3, <1>4, <1>5, <1>6, <1>7 DEF Fine, DInv, Effects

\* The pump's receipt: the inbox has the event, or a turn answered it.
LEMMA PumpAcknowledgesFine ==
  ASSUME DInv, PumpAcknowledges
  PROVE  Fine
<1>1. /\ pumping # NoKey /\ StoreReceipt({pumping}) /\ pumping' = NoKey
      /\ UNCHANGED <<vars, branch, pc, active, todo>>
  BY DEF PumpAcknowledges, memory
<1>2. /\ pumping \in Key /\ outbox[pumping] # "absent"
      /\ pumping \in Held \/ Answering(pumping) # {}
      /\ pc \in {"run", "settle", "steer"}
  BY <1>1 DEF DInv, StoreInv, WorkerTypes
<1>3. /\ IInv' /\ RowsInv' /\ BranchInv' /\ EventsKept /\ RunsKept
  BY <1>1, QuietKeeps
<1>4. PICK k \in Key : k = pumping
  BY <1>2
<1>5. \A j \in Key : outbox'[j] = IF j = k THEN "acked" ELSE outbox[j]
  BY <1>1, <1>4 DEF StoreReceipt
<1>6. outbox' \in [Key -> {"absent", "posted", "acked"}]
  BY <1>1 DEF StoreReceipt, DInv, WorkerTypes
<1>7. StoreCovers'
  <2>1. \A m \in DOMAIN messages : messages[m].key \in Key
    BY DEF DInv, IInv, TypeOK, Message
  <2>2. Held \subseteq Key
    BY <2>1 DEF Held
  <2> QED  BY <1>2, <1>3, <1>4, <1>5, <2>2 DEF DInv, StoreInv, StoreCovers, EventsKept
<1>8. StoreKept
  BY <1>2, <1>4, <1>5 DEF StoreKept
<1>9. WorkerTypes'
  BY <1>1, <1>6 DEF DInv, WorkerTypes
<1>10. Control'
  BY <1>1, <1>2 DEF DInv, Control, vars, ProcessedTurns, Running, Open
<1>11. StoreInv'
  <2>1. todo' = {} /\ pc' # "confirm" /\ pc' # "enqueue"
    BY <1>1, <1>2 DEF DInv, StoreInv
  <2> QED  BY <1>1, <1>7, <2>1 DEF StoreInv
<1> QED  BY <1>1, <1>3, <1>8, <1>9, <1>10, <1>11 DEF Fine, DInv, Effects

\* A poll gives events that the store has and no turn has answered.
LEMMA PollFine ==
  ASSUME DInv, Poll
  PROVE  Fine
<1>1. /\ UNCHANGED <<vars, branch, outbox, active, pumping>>
      /\ pc = "acknowledge" /\ ProcessedTurns = {} /\ pc' = "enqueue"
      /\ todo' \subseteq Posted
  BY DEF Poll, world
<1>2. /\ IInv' /\ RowsInv' /\ BranchInv' /\ EventsKept /\ RunsKept
  BY <1>1, QuietKeeps
<1>3. \A k \in todo' : k \in Key /\ outbox[k] = "posted"
  BY <1>1 DEF Posted
<1>4. WorkerTypes'
  BY <1>1, <1>3 DEF DInv, WorkerTypes
<1>5. Control'
  BY <1>1, <1>2 DEF Control, RunningPcs, RunsKept
<1>6. StoreCovers' /\ StoreKept
  BY <1>1, <1>2 DEF DInv, StoreInv, StoreCovers, StoreKept, EventsKept
<1>7. \A k \in todo' : outbox'[k] # "absent" /\ Answering(k)' = {}
  BY <1>1, <1>2, <1>3 DEF DInv, StoreInv, StoreCovers, EventsKept
<1>8. StoreInv'
  BY <1>1, <1>6, <1>7 DEF DInv, StoreInv
<1> QED  BY <1>1, <1>2, <1>4, <1>5, <1>6, <1>8 DEF Fine, DInv, Effects

-----------------------------------------------------------------------------
(* The two ways an event enters the inbox.                                 *)

LEMMA EventEnters ==
  ASSUME DInv, UNCHANGED <<branch, outbox>>, NEW k \in Key,
         ControllerEvent(conversation, k, body) \/ PumpEvent(conversation, k, body),
         outbox[k] # "absent", Answering(k) = {}
  PROVE  /\ IInv' /\ RowsInv' /\ BranchInv' /\ HoldsToo(k) /\ RunsKept
         /\ StoreCovers' /\ Effects /\ Next
<1>0. conversation \in Conversation /\ body \in Body
  BY DeliveryAssumption
<1>1. Accept
  BY <1>0 DEF Accept
<1>2. PICK row : AcceptsRow(conversation, k, row)
  BY <1>0, EventRows DEF DInv
<1>3. IInv'
  BY <1>1, AcceptIInv DEF DInv
<1>4. RowsInv' /\ BranchInv' /\ HoldsToo(k) /\ RunsKept
  BY <1>2, AcceptsKeeps DEF DInv
<1>5. StoreCovers'
  BY <1>4 DEF DInv, StoreInv, StoreCovers, HoldsToo
<1>6. Effects
  BY <1>4 DEF Effects, StoreKept
<1> QED  BY <1>1, <1>3, <1>4, <1>5, <1>6 DEF Next

LEMMA EnqueuePolledFine ==
  ASSUME DInv, NEW k \in Key, EnqueuePolled(k)
  PROVE  Fine
<1>1. /\ pc = "enqueue" /\ k \in todo /\ todo' = todo \ {k}
      /\ UNCHANGED <<pc, branch, outbox, active, pumping>>
  BY DEF EnqueuePolled, world
<1>2. outbox[k] # "absent" /\ Answering(k) = {} /\ pumping = NoKey
  BY <1>1 DEF DInv, StoreInv
<1>3. WorkerTypes'
  BY <1>1 DEF DInv, WorkerTypes
<1>4. CASE UNCHANGED vars
  <2>1. RunsKept
    BY <1>1, <1>4, QuietKeeps
  <2>2. Control'
    BY <1>1, <2>1 DEF DInv, Control, RunningPcs, RunsKept
  <2>3. StoreRests
    BY <1>1 DEF StoreRests, DInv, StoreInv
  <2> QED  BY <1>1, <1>3, <1>4, <2>2, <2>3, QuietStep
<1>5. CASE ControllerEvent(conversation, k, body)
  <2>1. /\ IInv' /\ RowsInv' /\ BranchInv' /\ HoldsToo(k) /\ RunsKept
        /\ StoreCovers' /\ Effects /\ Next
    BY <1>1, <1>2, <1>5, EventEnters
  <2>2. Control'
    BY <1>1, <2>1 DEF DInv, Control, RunningPcs, RunsKept
  <2>3. \A j \in todo' : outbox'[j] # "absent" /\ Answering(j)' = {}
    BY <1>1, <2>1 DEF DInv, StoreInv, HoldsToo
  <2>4. StoreInv'
    BY <1>1, <1>2, <2>1, <2>3 DEF StoreInv
  <2> QED  BY <1>3, <2>1, <2>2, <2>4 DEF Fine, DInv
<1> QED  BY <1>4, <1>5 DEF EnqueuePolled

LEMMA PumpTakesFine ==
  ASSUME DInv, NEW k \in Key, PumpTakes(k)
  PROVE  Fine
<1>1. /\ pc \in {"run", "settle", "steer"} /\ pumping' = k /\ outbox[k] = "posted"
      /\ UNCHANGED <<pc, branch, outbox, active, todo>>
  BY DEF PumpTakes, Pumping, memory
<1>2. Answering(k) = {} /\ todo = {}
  BY <1>1 DEF DInv, StoreInv, StoreCovers
<1>3. WorkerTypes'
  BY <1>1 DEF DInv, WorkerTypes
<1>4. pc \in RunningPcs /\ turns[active].contextReset /\ ProcessedTurns = {}
  BY <1>1, ActiveRuns DEF DInv, Control, RunningPcs
<1>5. CASE Suppressed(conversation, k) /\ UNCHANGED vars
  <2>1. /\ IInv' /\ RowsInv' /\ BranchInv' /\ EventsKept /\ RunsKept
    BY <1>1, <1>5, QuietKeeps
  <2>2. Control'
    BY <1>1, <1>4, <2>1, GoesOn DEF DInv
  <2>3. k \in Held
    <3>1. CASE LiveMessages(conversation, k) = {}
      <4>1. PICK m \in DOMAIN messages :
              /\ messages[m].key = k
              /\ messages[m].turn # NoTurn /\ turns[messages[m].turn].acknowledged
        BY <1>5, <3>1 DEF Suppressed, HasAcknowledgedEvent
      <4>2. messages[m].turn \in 1..lastTurn
        BY <4>1, RowTurns DEF DInv, IInv
      <4>3. messages[m].turn \in Answering(k)
        BY <4>1, <4>2 DEF Answering, KeysOf, Events
      <4> QED  BY <4>3, <1>2
    <3>2. CASE LiveMessages(conversation, k) # {}
      BY <3>2 DEF LiveMessages, InScope, Held
    <3> QED  BY <3>1, <3>2
  <2>4. StoreCovers' /\ StoreKept
    BY <1>1, <2>1 DEF DInv, StoreInv, StoreCovers, StoreKept, EventsKept
  <2>5. StoreInv'
    BY <1>1, <1>2, <2>1, <2>3, <2>4 DEF StoreInv, EventsKept
  <2> QED  BY <1>3, <1>5, <2>1, <2>2, <2>4, <2>5 DEF Fine, DInv, Effects
<1>6. CASE PumpEvent(conversation, k, body)
  <2>1. /\ IInv' /\ RowsInv' /\ BranchInv' /\ HoldsToo(k) /\ RunsKept
        /\ StoreCovers' /\ Effects /\ Next
    BY <1>1, <1>2, <1>6, EventEnters
  <2>2. Control'
    BY <1>1, <1>4, <2>1, GoesOn DEF DInv
  <2>3. StoreInv'
    BY <1>1, <1>2, <2>1 DEF StoreInv, HoldsToo
  <2> QED  BY <1>3, <2>1, <2>2, <2>3 DEF Fine, DInv
<1> QED  BY <1>5, <1>6 DEF PumpTakes

-----------------------------------------------------------------------------
(* The branch: messages are sent, the model calls tools and finishes.      *)

\* An entry is appended.
Sends(d) == branch' = Append(branch, d)

LEMMA SendsOn ==
  ASSUME branch \in Seq(Entries), NEW d \in Entries, Sends(d)
  PROVE  /\ branch' \in Seq(Entries) /\ On(branch)' = On(branch) \cup {d}
         /\ Len(branch') = Len(branch) + 1 /\ Len(branch) \in Nat
         /\ \A i \in 1..Len(branch) : branch'[i] = branch[i]
         /\ branch'[Len(branch) + 1] = d
         /\ DOMAIN branch' = DOMAIN branch \cup {Len(branch) + 1}
         /\ DOMAIN branch = 1..Len(branch)
<1>1. /\ branch' \in Seq(Entries) /\ Len(branch') = Len(branch) + 1 /\ Len(branch) \in Nat
      /\ \A i \in 1..Len(branch) : branch'[i] = branch[i]
      /\ branch'[Len(branch) + 1] = d
      /\ DOMAIN branch' = 1..(Len(branch) + 1) /\ DOMAIN branch = 1..Len(branch)
  BY DEF Sends
<1>2. 1..(Len(branch) + 1) = 1..Len(branch) \cup {Len(branch) + 1}
  BY <1>1
<1>3. On(branch)' = On(branch) \cup {d}
  BY <1>1, <1>2 DEF On
<1> QED  BY <1>1, <1>2, <1>3

\* Only the branch changes, while a turn runs: the receipts and the processed turns are
\* as they were.
LEMMA BranchStep ==
  ASSUME DInv, UNCHANGED vars, StoreRests, WorkerTypes', Control', pc \in RunningPcs,
         SentOnce', BranchKnown', ContextFirst', ContextFresh', ReceiptsBacked'
  PROVE  Fine
<1>t. TypeOK
  BY DEF DInv, IInv
<1>1. IInv'
  BY StutterIInv DEF DInv
<1>2. SameRows /\ \A t : KeysOf(t)' = KeysOf(t)
  BY DEF vars, SameRows, KeysOf, Events
<1>3. RowsInv' /\ EventsKept
  BY <1>2, <1>t, SameRowsInv, SameRowsFacts DEF DInv
<1>4. StoreInv' /\ StoreKept
  BY <1>2, <1>3, StoreRestsKeeps DEF DInv
<1>5. ProcessedTurns' = {}
  BY ActiveRuns DEF vars, ProcessedTurns, Open
<1>6. BranchInv'
  BY <1>5 DEF BranchInv, ProcessedWasAnswered
<1> QED  BY <1>1, <1>3, <1>4, <1>6 DEF Fine, DInv, Effects

\* A message belongs to one turn.
LEMMA DeliveryOfOneTurn ==
  ASSUME NEW s, NEW t, NEW d, d \in Deliveries(s), d \in Deliveries(t)
  PROVE  s = t
BY DEF Deliveries, Prompt, Row, Events

LEMMA SendMessageFine ==
  ASSUME DInv, SendMessage
  PROVE  Fine
<1>1. /\ pc \in {"activate", "steer"} /\ pc \in RunningPcs
      /\ UNCHANGED <<vars, pc, active, todo, pumping, outbox>>
  BY DEF SendMessage, Delivering, RunningPcs, memory
<1>2. PICK d \in Deliveries(active) : d \notin On(branch) /\ Sends(d)
  BY DEF SendMessage, ToSend, Missing, Sends
<1>3. turns[active].contextReset
  BY <1>1 DEF SendMessage, Delivering, MustReset, DInv, Control
<1>a. /\ active \in 1..lastTurn /\ Running(active) /\ Open(active) /\ active # NoTurn
      /\ ProcessedTurns = {} /\ lastTurn \in Nat
      /\ \A t \in 1..lastTurn : Open(t) => t = active
  BY <1>1, ActiveRuns
<1>4. d \in Entries
  <2>1. \A m \in Events(active) : m \in Nat
    BY DEF DInv, IInv, TypeOK, Events
  <2> QED  BY <1>a, <2>1 DEF Deliveries, Prompt, Row, Entries
<1>5. /\ branch' \in Seq(Entries) /\ On(branch)' = On(branch) \cup {d}
      /\ Len(branch') = Len(branch) + 1 /\ Len(branch) \in Nat
      /\ \A i \in 1..Len(branch) : branch'[i] = branch[i]
      /\ branch'[Len(branch) + 1] = d
      /\ DOMAIN branch' = DOMAIN branch \cup {Len(branch) + 1}
      /\ DOMAIN branch = 1..Len(branch)
  BY <1>2, <1>4, SendsOn DEF DInv, WorkerTypes
<1>6. \A t : Deliveries(t)' = Deliveries(t)
  BY <1>1 DEF vars, Deliveries, Events
<1>7. SentOnce'
  <2> SUFFICES ASSUME NEW i \in DOMAIN branch', NEW j \in DOMAIN branch',
                      branch'[i] = branch'[j], branch'[i][1] \in {"prompt", "row"}
               PROVE  i = j
    BY DEF SentOnce
  <2>1. \A n \in 1..Len(branch) : branch'[n] # d
    BY <1>2, <1>5 DEF On
  <2>2. CASE i \in 1..Len(branch) /\ j \in 1..Len(branch)
    BY <2>2, <1>5 DEF DInv, BranchInv, SentOnce
  <2> QED  BY <2>1, <2>2, <1>5
<1>8. BranchKnown'
  <2>1. \A m : Row(m) = d => m \in DOMAIN messages /\ messages[m].turn # NoTurn
    BY <1>a DEF Deliveries, Prompt, Row, Events
  <2>2. \A t : Prompt(t) = d => t = active
    BY DEF Deliveries, Prompt, Row
  <2> QED  BY <1>1, <1>5, <1>a, <2>1, <2>2 DEF DInv, BranchInv, BranchKnown, vars, Prompt, Row
<1>9. ContextFirst'
  <2>1. \A t : t # active => d \notin Deliveries(t)
    BY DeliveryOfOneTurn
  <2> QED  BY <1>1, <1>3, <1>5, <1>6, <2>1 DEF DInv, BranchInv, ContextFirst, vars
<1>10. ContextFresh'
  <2> SUFFICES ASSUME NEW t \in 1..lastTurn, Open(t), turns[t].recoveryOf # NoTurn,
                      turns[t].contextReset
               PROVE  On(branch)' \cap Deliveries(turns[t].recoveryOf) = {}
    BY <1>1, <1>6 DEF ContextFresh, vars, Open
  <2>1. turns[t].recoveryOf # active
    BY <1>a DEF DInv, RowsInv
  <2>2. d \notin Deliveries(turns[t].recoveryOf)
    BY <2>1, DeliveryOfOneTurn
  <2> QED  BY <2>2, <1>5 DEF DInv, BranchInv, ContextFresh
<1>11. ReceiptsBacked'
  <2>1. \A t \in 1..lastTurn : Unrecorded(t)' = Unrecorded(t) /\ (Open(t)' <=> Open(t))
    BY <1>1, <1>6 DEF Unrecorded, Open, vars
  <2>2. lastTurn' = lastTurn
    BY <1>1 DEF vars
  <2> QED  BY <1>5, <1>6, <2>1, <2>2 DEF DInv, BranchInv, ReceiptsBacked
<1>12. StoreRests
  BY <1>1 DEF StoreRests, DInv, StoreInv
<1>13. WorkerTypes'
  BY <1>1, <1>5 DEF DInv, WorkerTypes
<1>14. Control'
  <2>1. RunsKept
    BY <1>1 DEF vars, RunsKept, ProcessedTurns, Running, Open
  <2> QED  BY <1>1, <1>3, <1>a, <2>1, GoesOn DEF DInv
<1> QED  BY <1>1, <1>7, <1>8, <1>9, <1>10, <1>11, <1>12, <1>13, <1>14, BranchStep

\* What the model adds is no message.
LEMMA ModelFine ==
  ASSUME DInv, ModelTool \/ ModelFinish
  PROVE  Fine
<1>1. /\ pc = "run" /\ pc' \in {"run", "settle"} /\ pc \in RunningPcs
      /\ UNCHANGED <<vars, active, todo, pumping, outbox>>
  BY DEF ModelTool, ModelFinish, RunningPcs, memory
<1>a. /\ active \in 1..lastTurn /\ ProcessedTurns = {} /\ lastTurn \in Nat
  BY <1>1, ActiveRuns
<1>2. PICK d \in Entries : d[1] \in {"tool", "finish"} /\ Sends(d)
  <2>1. CASE ModelTool
    BY <2>1 DEF ModelTool, Sends, Entries
  <2>2. CASE ModelFinish
    <3> DEFINE end == <<"finish", active>>
    <3>1. active \in Nat
      BY <1>a
    <3>2. end \in Entries /\ end[1] = "finish"
      BY <3>1 DEF Entries
    <3>3. Sends(end)
      BY <2>2 DEF ModelFinish, Sends
    <3> HIDE DEF end
    <3> QED  BY <3>2, <3>3
  <2> QED  BY <2>1, <2>2
<1>5. /\ branch' \in Seq(Entries) /\ On(branch)' = On(branch) \cup {d}
      /\ Len(branch') = Len(branch) + 1 /\ Len(branch) \in Nat
      /\ \A i \in 1..Len(branch) : branch'[i] = branch[i]
      /\ branch'[Len(branch) + 1] = d
      /\ DOMAIN branch' = DOMAIN branch \cup {Len(branch) + 1}
      /\ DOMAIN branch = 1..Len(branch)
  BY <1>2, SendsOn DEF DInv, WorkerTypes
<1>6. /\ \A t : Deliveries(t)' = Deliveries(t) /\ d \notin Deliveries(t)
      /\ \A t : Prompt(t) # d /\ Row(t) # d
  BY <1>1, <1>2 DEF vars, Deliveries, Events, Prompt, Row
<1>7. SentOnce'
  <2> SUFFICES ASSUME NEW i \in DOMAIN branch', NEW j \in DOMAIN branch',
                      branch'[i] = branch'[j], branch'[i][1] \in {"prompt", "row"}
               PROVE  i = j
    BY DEF SentOnce
  <2>1. i \in 1..Len(branch) /\ j \in 1..Len(branch)
    BY <1>2, <1>5
  <2> QED  BY <2>1, <1>5 DEF DInv, BranchInv, SentOnce
<1>8. BranchKnown'
  BY <1>1, <1>5, <1>6 DEF DInv, BranchInv, BranchKnown, vars, Prompt, Row
<1>9. ContextFirst'
  BY <1>1, <1>5, <1>6 DEF DInv, BranchInv, ContextFirst, vars
<1>10. ContextFresh'
  <2> SUFFICES ASSUME NEW t \in 1..lastTurn, Open(t), turns[t].recoveryOf # NoTurn,
                      turns[t].contextReset
               PROVE  On(branch)' \cap Deliveries(turns[t].recoveryOf) = {}
    BY <1>1, <1>6 DEF ContextFresh, vars, Open
  <2> QED  BY <1>5, <1>6 DEF DInv, BranchInv, ContextFresh
<1>11. ReceiptsBacked'
  <2>1. \A t \in 1..lastTurn : Unrecorded(t)' = Unrecorded(t) /\ (Open(t)' <=> Open(t))
    BY <1>1, <1>6 DEF Unrecorded, Open, vars
  <2>2. lastTurn' = lastTurn
    BY <1>1 DEF vars
  <2> QED  BY <1>5, <1>6, <2>1, <2>2 DEF DInv, BranchInv, ReceiptsBacked
<1>12. StoreRests
  BY <1>1 DEF StoreRests, DInv, StoreInv
<1>13. WorkerTypes'
  BY <1>1, <1>5 DEF DInv, WorkerTypes, RunningPcs
<1>14. Control'
  <2>1. RunsKept
    BY <1>1 DEF vars, RunsKept, ProcessedTurns, Running, Open
  <2>2. turns[active].contextReset
    BY <1>1 DEF DInv, Control
  <2> QED  BY <1>1, <1>a, <2>1, <2>2, GoesOn DEF DInv
<1> QED  BY <1>1, <1>7, <1>8, <1>9, <1>10, <1>11, <1>12, <1>13, <1>14, BranchStep

\* navigate_to(None): nothing of the turn was on the branch it leaves.
LEMMA LeaveBranchFine ==
  ASSUME DInv, LeaveBranch
  PROVE  Fine
<1>1. /\ pc = "activate" /\ pc \in RunningPcs /\ MustReset(active) /\ branch' = <<>>
      /\ UNCHANGED <<vars, pc, active, todo, pumping, outbox>>
  BY DEF LeaveBranch, LeavesBranch, RunningPcs, memory
<1>a. /\ active \in 1..lastTurn /\ ProcessedTurns = {}
      /\ \A t \in 1..lastTurn : Open(t) => t = active
  BY <1>1, ActiveRuns
<1>2. DOMAIN branch' = {} /\ On(branch)' = {} /\ branch' \in Seq(Entries)
  BY <1>1 DEF On
<1>3. SentOnce' /\ BranchKnown'
  BY <1>2 DEF SentOnce, BranchKnown
<1>4. ContextFirst' /\ ContextFresh'
  BY <1>2 DEF ContextFirst, ContextFresh
<1>5. ReceiptsBacked'
  <2> SUFFICES ASSUME NEW t \in 1..lastTurn, Open(t), NEW d \in Deliveries(t)
               PROVE  d \in Unrecorded(t)
    BY <1>1 DEF ReceiptsBacked, vars, Open, Deliveries, Unrecorded, Events
  <2>1. t = active /\ ~turns[t].contextReset
    BY <1>1, <1>a DEF MustReset
  <2>2. d \notin On(branch)
    BY <2>1 DEF DInv, BranchInv, ContextFirst
  <2> QED  BY <2>2 DEF DInv, BranchInv, ReceiptsBacked
<1>6. StoreRests
  BY <1>1 DEF StoreRests, DInv, StoreInv
<1>7. WorkerTypes'
  BY <1>1, <1>2 DEF DInv, WorkerTypes
<1>8. Control'
  <2>1. RunsKept
    BY <1>1 DEF vars, RunsKept, ProcessedTurns, Running, Open
  <2> QED  BY <1>1, <1>a, <2>1, GoesOn DEF DInv
<1> QED  BY <1>1, <1>3, <1>4, <1>5, <1>6, <1>7, <1>8, BranchStep

-----------------------------------------------------------------------------
(* The steps that write the inbox.                                         *)

\* A step of the inbox after which it holds and has answered the same.
LEMMA InboxStep ==
  ASSUME DInv, Next, RowsInv', BranchInv', EventsKept, StoreRests, pc' # "confirm",
         WorkerTypes', Control'
  PROVE  Fine
<1>1. IInv'
  BY NextIInv DEF DInv
<1>2. StoreInv' /\ StoreKept
  BY StoreRestsKeeps DEF DInv
<1> QED  BY <1>1, <1>2 DEF Fine, DInv, Effects

LEMMA WorkSteps ==
  ASSUME DInv, pc \in RunningPcs, Work(active)
  PROVE  Next
BY ActiveRuns DEF Next

\* next_turn, for the controller.
LEMMA SelectNextFine ==
  ASSUME DInv, Select, ActiveTurns(conversation) = {}
  PROVE  Fine
<1>1. /\ NextTurn(conversation) /\ active' = lastTurn' /\ pc = "select" /\ pc' = "receive"
      /\ UNCHANGED <<outbox, branch, todo, pumping>>
  BY DEF Select, world
<1>0. conversation \in Conversation
  BY DeliveryAssumption
<1>2. PICK new : new = lastTurn + 1
  OBVIOUS
<1>3. Opens(new) /\ Held' = Held
  BY <1>0, <1>1, <1>2, NextTurnOpens DEF DInv
<1>4. /\ RowsInv' /\ BranchInv' /\ ProcessedTurns' = ProcessedTurns
      /\ \A k : Answering(k)' = Answering(k)
  BY <1>1, <1>3, OpensKeeps DEF DInv
<1>5. EventsKept
  BY <1>3, <1>4 DEF EventsKept
<1>6. active' = new /\ new \in 1..lastTurn' /\ Running(new)'
  <2>1. lastTurn \in Nat
    BY DEF DInv, IInv, TypeOK
  <2> QED  BY <2>1, <1>1, <1>3 DEF Opens
<1>7. Running(active)'
  BY <1>6 DEF Running, Open
<1>8. Control'
  <2>1. ProcessedTurns' = {}
    BY <1>1, <1>4 DEF DInv, Control
  <2> QED  BY <1>1, <1>6, <1>7, <2>1 DEF Control
<1>9. WorkerTypes'
  BY <1>1 DEF DInv, WorkerTypes, RunningPcs
<1>10. StoreRests
  BY <1>1 DEF StoreRests, DInv, StoreInv
<1>11. Next
  BY <1>0, <1>1 DEF Next
<1> QED  BY <1>1, <1>4, <1>5, <1>8, <1>9, <1>10, <1>11, InboxStep

\* recover_turn, on the turn that runs.
LEMMA RecoverFine ==
  ASSUME DInv, Recover("activate"), pc \in RunningPcs, pumping = NoKey,
         UNCHANGED <<outbox, branch, pumping>>
  PROVE  Fine
<1>1. /\ RecoverTurn(active) /\ todo' = todo
      /\ IF lastTurn' > lastTurn THEN active' = lastTurn' /\ pc' = "activate"
         ELSE pc' = "select"
  BY DEF Recover
<1>a. /\ active \in 1..lastTurn /\ Running(active) /\ ProcessedTurns = {} /\ lastTurn \in Nat
  BY ActiveRuns
<1>t. TypeOK
  BY DEF DInv, IInv
<1>2. Next
  BY <1>1, WorkSteps DEF Work
<1>3. StoreRests
  BY <1>1 DEF StoreRests, DInv, StoreInv, RunningPcs
<1>4. pc' # "confirm"
  BY <1>1
<1>5. WorkerTypes'
  BY <1>1 DEF DInv, WorkerTypes, RunningPcs
<1>6. CASE Quarantine(active)
  <2>1. PICK t \in 1..lastTurn : t = active
    BY <1>a
  <2>2. Quarantine(t)
    BY <1>6, <2>1
  <2>3. Marks
    BY <1>t, <2>2, QuarantineMarks
  <2>4. RowsInv' /\ BranchInv' /\ EventsKept /\ ProcessedTurns' = ProcessedTurns
    BY <1>t, <2>3, MarksKeep DEF DInv
  <2>5. lastTurn' = lastTurn
    BY <1>6 DEF Quarantine
  <2>6. pc' = "select"
    BY <1>1, <1>a, <2>5
  <2>7. Control'
    BY <1>a, <2>4, <2>6 DEF Control, RunningPcs
  <2> QED  BY <1>2, <1>3, <1>4, <1>5, <2>4, <2>7, InboxStep
<1>7. CASE ResetTurn(active)
  <2>1. PICK t \in 1..lastTurn : t = active
    BY <1>a
  <2>2. PICK new : new = lastTurn + 1
    OBVIOUS
  <2>3. ResetTurn(t) /\ Running(t)
    BY <1>a, <1>7, <2>1
  <2>4. Opens(new) /\ Held' = Held
    BY <2>2, <2>3, ResetTurnOpens DEF DInv
  <2>5. /\ RowsInv' /\ BranchInv' /\ ProcessedTurns' = ProcessedTurns
        /\ \A k : Answering(k)' = Answering(k)
    BY <2>4, OpensKeeps DEF DInv
  <2>6. EventsKept
    BY <2>4, <2>5 DEF EventsKept
  <2>7. lastTurn' = new /\ new \in 1..lastTurn' /\ Running(new)' /\ lastTurn' > lastTurn
    BY <2>4, <1>a DEF Opens
  <2>8. active' = new /\ pc' = "activate"
    BY <1>1, <2>7
  <2>9. Running(active)'
    BY <2>7, <2>8 DEF Running, Open
  <2>10. Control'
    BY <1>a, <2>5, <2>7, <2>8, <2>9 DEF Control
  <2> QED  BY <1>2, <1>3, <1>4, <1>5, <2>5, <2>6, <2>10, InboxStep
<1> QED  BY <1>1, <1>6, <1>7 DEF RecoverTurn

LEMMA OpenRecoversFine == ASSUME DInv, OpenConversation, reset PROVE Fine
<1>1. /\ pc = "open" /\ Recover("activate") /\ UNCHANGED <<outbox, branch, pumping>>
  BY DEF OpenConversation, world
<1>2. pc \in RunningPcs /\ pumping = NoKey
  BY <1>1 DEF DInv, StoreInv, RunningPcs
<1> QED  BY <1>1, <1>2, RecoverFine

LEMMA RecoverStalledFine == ASSUME DInv, RecoverStalled PROVE Fine
<1>1. /\ pc = "decide" /\ Recover("activate") /\ UNCHANGED <<outbox, branch, pumping>>
  BY DEF RecoverStalled, Unanswered, world
<1>2. pc \in RunningPcs /\ pumping = NoKey
  BY <1>1 DEF DInv, StoreInv, RunningPcs
<1> QED  BY <1>1, <1>2, RecoverFine

\* A step of the turn that runs which keeps it running.
LEMMA TurnStep ==
  ASSUME DInv, Work(active), RowsInv', BranchInv', EventsKept, RunsKept,
         UNCHANGED <<outbox, branch, active, todo>>, pumping' = pumping,
         pc \in RunningPcs, pc' \in RunningPcs \cup {"select"},
         pc' \in {"decide", "run", "settle", "steer"} => turns[active].contextReset,
         pumping = NoKey \/ pc' \in {"run", "settle", "steer"}
  PROVE  Fine
<1>1. ProcessedTurns = {}
  BY ActiveRuns
<1>2. pc' # "confirm" /\ pc # "enqueue" /\ pc' # "enqueue"
  BY DEF RunningPcs
<1>3. Control'
  BY <1>1, <1>2, GoesOn DEF DInv
<1>4. WorkerTypes'
  BY DEF DInv, WorkerTypes, RunningPcs
<1>5. StoreRests
  BY <1>2 DEF StoreRests, DInv, StoreInv
<1> QED  BY <1>2, <1>3, <1>4, <1>5, WorkSteps, InboxStep

LEMMA NoteContextResetFine == ASSUME DInv, NoteContextReset PROVE Fine
<1>1. /\ pc = "activate" /\ pc' = "activate" /\ MustReset(active) /\ ~LeavesBranch(active)
      /\ RecordContextReset(active)
      /\ UNCHANGED <<outbox, branch, active, todo, pumping>>
  BY DEF NoteContextReset, memory, world
<1>2. pc \in RunningPcs /\ pumping = NoKey
  BY <1>1 DEF DInv, StoreInv, RunningPcs
<1>a. active \in 1..lastTurn
  BY <1>2, ActiveRuns
<1>3. On(branch) = {}
  <2>1. On(branch) \cap Deliveries(active) = {}
    BY <1>1, <1>a DEF DInv, BranchInv, ContextFirst, MustReset
  <2>2. branch = <<>>
    BY <1>1, <2>1 DEF LeavesBranch, RecoveryStarted
  <2> QED  BY <2>2 DEF On
<1>4. PICK t \in 1..lastTurn : t = active
  BY <1>a
<1>5. Marks /\ \A s \in 1..lastTurn : turns'[s].quarantined => turns[s].quarantined
  <2>1. RecordContextReset(t)
    BY <1>1, <1>4
  <2> QED  BY <1>3, <2>1, ContextMarks DEF DInv, IInv
<1>6. RowsInv' /\ BranchInv' /\ EventsKept /\ RunsKept
  BY <1>1, <1>5, MarksKeep DEF DInv, IInv
<1>7. Work(active)
  BY <1>1 DEF Work
<1> QED  BY <1>1, <1>2, <1>6, <1>7, TurnStep

LEMMA NoteDeliveredFine == ASSUME DInv, NoteDelivered PROVE Fine
<1>1. /\ pc \in {"activate", "steer"} /\ pc' = pc /\ pc \in RunningPcs
      /\ pc = "activate" => ~MustReset(active)
      /\ UNCHANGED <<outbox, branch, active, todo, pumping>>
  BY DEF NoteDelivered, Delivering, RunningPcs, memory, world
<1>a. active \in 1..lastTurn
  BY <1>1, ActiveRuns
<1>2. PICK d \in Deliveries(active) :
        /\ d \in On(branch)
        /\ IF d[1] = "prompt" THEN RecordPromptDelivered(active) ELSE RecordDelivered(d[2])
  BY DEF NoteDelivered, ToRecord, Missing
<1>3. RowsInv' /\ EventsKept /\ RunsKept /\ BranchInv'
  <2>1. PICK t \in 1..lastTurn : t = active
    BY <1>a
  <2>2. /\ d \in Deliveries(t)
        /\ IF d[1] = "prompt" THEN RecordPromptDelivered(t) ELSE RecordDelivered(d[2])
    BY <1>2, <2>1
  <2> QED  BY <1>1, <1>2, <2>2, DeliveredKeeps DEF DInv
<1>4. Work(active)
  <2>1. d[1] = "prompt" \/ \E m \in Events(active) : d = Row(m)
    BY DEF Deliveries, Prompt
  <2>2. CASE d[1] = "prompt"
    BY <2>2, <1>2 DEF Work, Deliver
  <2>3. ASSUME NEW m \in Events(active), d = Row(m) PROVE Work(active)
    <3>1. RecordDelivered(m)
      BY <1>2, <2>3 DEF Row
    <3> QED  BY <3>1 DEF Work, Deliver
  <2> QED  BY <2>1, <2>2, <2>3
<1>5. pc' = "steer" => turns[active].contextReset
  BY <1>1 DEF DInv, Control
<1>6. pumping = NoKey \/ pc' = "steer"
  BY <1>1 DEF DInv, StoreInv
<1> QED  BY <1>1, <1>3, <1>4, <1>5, <1>6, TurnStep

\* The newest tool on the branch is a tool the model called.
LEMMA LatestToolType ==
  ASSUME branch \in Seq(Entries), NEW t, LatestTool(t) # NoProgress
  PROVE  LatestTool(t) \in Progress
<1> DEFINE tools == {i \in After(t) : branch[i][1] = "tool"}
           last == CHOOSE i \in tools : \A j \in tools : j <= i
<1>1. tools # {} /\ LatestTool(t) = branch[last][2]
  BY DEF LatestTool
<1>2. Len(branch) \in Nat /\ DOMAIN branch = 1..Len(branch)
  OBVIOUS
<1>3. tools \subseteq 1..Len(branch)
  BY <1>2 DEF After
<1>4. last \in tools
  <2> HIDE DEF tools
  <2> DEFINE back == {Len(branch) - i : i \in tools}
  <2>0. \A i \in tools : Len(branch) - i \in Nat
    BY <1>2, <1>3
  <2>1. back \subseteq Nat /\ back # {}
    BY <1>1, <2>0
  <2>2. PICK x \in back : \A y \in back : ~(<<y, x>> \in OpToRel(<, Nat))
    <3> HIDE DEF back
    <3> QED  BY <2>1, NatLessThanWellFounded, WFMin
  <2>3. \A y \in back : x <= y
    <3> SUFFICES ASSUME NEW y \in back PROVE x <= y
      OBVIOUS
    <3>1. x \in Nat /\ y \in Nat
      BY <2>1
    <3>2. ~(y < x)
      BY <2>2, <3>1 DEF OpToRel
    <3> QED  BY <3>1, <3>2
  <2>4. PICK i \in tools : x = Len(branch) - i
    OBVIOUS
  <2>5. \A j \in tools : j <= i
    <3> SUFFICES ASSUME NEW j \in tools PROVE j <= i
      OBVIOUS
    <3>1. x <= Len(branch) - j
      BY <2>3
    <3> QED  BY <3>1, <2>4, <1>2, <1>3
  <2> QED  BY <2>5
<1>5. branch[last] \in Entries /\ branch[last][1] = "tool"
  <2>1. \A i \in tools : branch[i] \in Entries /\ branch[i][1] = "tool"
    BY <1>2, <1>3
  <2> HIDE DEF tools, last
  <2> QED  BY <2>1, <1>4
<1> HIDE DEF last
<1>6. branch[last][2] \in Progress
  BY <1>5 DEF Entries
<1> QED  BY <1>1, <1>6

LEMMA NoteProgressFine == ASSUME DInv, NoteProgress PROVE Fine
<1>1. /\ pc = "decide" /\ pc' = "decide" /\ ProgressDue(active)
      /\ RecordProgress(active, LatestTool(active))
      /\ UNCHANGED <<outbox, branch, active, todo, pumping>>
  BY DEF NoteProgress, memory, world
<1>2. pc \in RunningPcs /\ pumping = NoKey /\ turns[active].contextReset
  BY <1>1 DEF DInv, StoreInv, Control, RunningPcs
<1>3. LatestTool(active) \in Progress
  BY <1>1, LatestToolType DEF ProgressDue, DInv, WorkerTypes
<1>4. PICK t \in 1..lastTurn : t = active
  BY <1>2, ActiveRuns
<1>5. PICK e \in Progress : RecordProgress(t, e)
  BY <1>1, <1>3, <1>4
<1>6. Marks /\ \A s \in 1..lastTurn : turns'[s].quarantined => turns[s].quarantined
  BY <1>5, TurnMarks DEF DInv, IInv
<1>7. RowsInv' /\ BranchInv' /\ EventsKept /\ RunsKept
  BY <1>1, <1>6, MarksKeep DEF DInv, IInv
<1>8. Work(active)
  BY <1>1, <1>3 DEF Work
<1> QED  BY <1>1, <1>2, <1>7, <1>8, TurnStep

LEMMA StartRunFine == ASSUME DInv, StartRun PROVE Fine
<1>1. /\ pc = "decide" /\ pc' = "run" /\ AttemptAllowed(active)
      /\ RecordInferenceAttempt(active)
      /\ UNCHANGED <<outbox, branch, active, todo, pumping>>
  BY DEF StartRun, Unanswered, memory, world
<1>2. pc \in RunningPcs /\ pumping = NoKey /\ turns[active].contextReset
  BY <1>1 DEF DInv, StoreInv, Control, RunningPcs
<1>4. PICK t \in 1..lastTurn : t = active
  BY <1>2, ActiveRuns
<1>5. RecordInferenceAttempt(t)
  BY <1>1, <1>4
<1>6. Marks /\ \A s \in 1..lastTurn : turns'[s].quarantined => turns[s].quarantined
  BY <1>5, TurnMarks DEF DInv, IInv
<1>7. RowsInv' /\ BranchInv' /\ EventsKept /\ RunsKept
  BY <1>1, <1>6, MarksKeep DEF DInv, IInv
<1>8. Work(active)
  BY <1>1 DEF Work, Attempt, AttemptAllowed
<1>9. pc' \in RunningPcs
  BY <1>1 DEF RunningPcs
<1> QED  BY <1>1, <1>2, <1>7, <1>8, <1>9, TurnStep

LEMMA ProviderFailsFine == ASSUME DInv, ProviderFails PROVE Fine
<1>1. /\ pc = "run" /\ pc' = "select" /\ pumping = NoKey /\ DeferProviderRetry(active)
      /\ UNCHANGED <<outbox, branch, active, todo, pumping>>
  BY DEF ProviderFails
<1>2. pc \in RunningPcs
  BY <1>1 DEF RunningPcs
<1>4. PICK t \in 1..lastTurn : t = active
  BY <1>2, ActiveRuns
<1>5. DeferProviderRetry(t)
  BY <1>1, <1>4
<1>6. Marks /\ \A s \in 1..lastTurn : turns'[s].quarantined => turns[s].quarantined
  BY <1>5, TurnMarks DEF DInv, IInv
<1>7. RowsInv' /\ BranchInv' /\ EventsKept /\ RunsKept
  BY <1>1, <1>6, MarksKeep DEF DInv, IInv
<1>8. Work(active)
  BY <1>1 DEF Work
<1> QED  BY <1>1, <1>2, <1>7, <1>8, TurnStep

\* A branch that has all of a turn and ends with a finish answers it.
LEMMA FinishAnswers ==
  ASSUME branch \in Seq(Entries), NEW t, Deliveries(t) \subseteq On(branch),
         Last(branch) = "finish"
  PROVE  Answers(t)
<1>1. Len(branch) \in Nat /\ DOMAIN branch = 1..Len(branch)
  OBVIOUS
<1>2. branch # <<>> /\ branch[Len(branch)][1] = "finish"
  BY DEF Last
<1>3. Len(branch) \in DOMAIN branch
  BY <1>1, <1>2
<1>4. branch[Len(branch)] \notin Deliveries(t)
  BY <1>2 DEF Deliveries, Prompt, Row
<1>5. \A j \in DOMAIN branch : branch[j] \in Deliveries(t) => j < Len(branch)
  BY <1>1, <1>4
<1>6. Len(branch) \in After(t)
  BY <1>3, <1>5 DEF After
<1> QED  BY <1>2, <1>6 DEF Answers

\* record_processed, of the turn that runs.
LEMMA SucceedsFine == ASSUME DInv, AdoptResponse \/ RunSucceeds PROVE Fine
<1>1. /\ pc \in {"decide", "settle"} /\ pc' = "succeed" /\ RecordProcessed(active)
      /\ Last(branch) = "finish"
      /\ UNCHANGED <<outbox, branch, active, todo, pumping>>
  BY DEF AdoptResponse, HasFinishedResponse, RunSucceeds, Settled, memory, world
<1>2. pc \in RunningPcs
  BY <1>1 DEF RunningPcs
<1>3. pumping = NoKey
  BY <1>1 DEF RunSucceeds, AdoptResponse, Settled, DInv, StoreInv
<1>a. active \in 1..lastTurn /\ Open(active)
  BY <1>2, ActiveRuns
<1>4. Deliveries(active) \subseteq On(branch)
  <2>1. CASE AdoptResponse
    BY <2>1 DEF AdoptResponse, HasFinishedResponse, Missing
  <2>2. CASE RunSucceeds
    <3>1. ~HasPending(messages, turns, active)
      BY <1>1 DEF RecordProcessed, Processable
    <3>2. \A d \in Deliveries(active) : d \notin Unrecorded(active)
      BY <3>1 DEF HasPending, Deliveries, Unrecorded, Events, Prompt, Row
    <3> QED  BY <3>2, <1>a DEF DInv, BranchInv, ReceiptsBacked
  <2> QED  BY <2>1, <2>2
<1>5. PICK t \in 1..lastTurn : t = active
  BY <1>a
<1>6. Answers(t) /\ RecordProcessed(t)
  BY <1>1, <1>4, <1>5, FinishAnswers DEF DInv, WorkerTypes
<1>7. RowsInv' /\ EventsKept /\ BranchInv'
  BY <1>1, <1>6, ProcessedKeeps DEF DInv
<1>8. Next
  BY <1>1, <1>2, WorkSteps DEF Work
<1>9. Control'
  BY <1>1 DEF Control, RunningPcs
<1>10. WorkerTypes'
  BY <1>1 DEF DInv, WorkerTypes
<1>11. StoreRests
  BY <1>1, <1>3 DEF StoreRests, DInv, StoreInv
<1> QED  BY <1>1, <1>7, <1>8, <1>9, <1>10, <1>11, InboxStep

\* clear_provider_cooldown
LEMMA SucceedFine == ASSUME DInv, Succeed PROVE Fine
<1>1. /\ pc = "succeed" /\ pc' = "acknowledge" /\ cooldown' = 0
      /\ UNCHANGED <<messages, sequence, turns, lastTurn>>
      /\ UNCHANGED <<outbox, branch, active, todo, pumping>>
  BY DEF Succeed
<1>2. Marks
  BY <1>1, StutterMarks
<1>3. RowsInv' /\ BranchInv' /\ EventsKept
  BY <1>1, <1>2, MarksKeep DEF DInv, IInv
<1>4. UNCHANGED vars \/ Next
  BY <1>1 DEF vars, Next, ClearProviderCooldown
<1>5. Control'
  BY <1>1 DEF Control, RunningPcs
<1>6. WorkerTypes'
  BY <1>1 DEF DInv, WorkerTypes
<1>7. StoreRests
  BY <1>1 DEF StoreRests, DInv, StoreInv
<1>8. CASE Next
  BY <1>1, <1>3, <1>5, <1>6, <1>7, <1>8, InboxStep
<1>9. CASE UNCHANGED vars
  BY <1>1, <1>5, <1>6, <1>7, <1>9, QuietStep
<1> QED  BY <1>4, <1>8, <1>9

\* The inbox hears of the turn after the store did.
LEMMA AcknowledgeInboxFine == ASSUME DInv, AcknowledgeInbox PROVE Fine
<1>1. /\ pc = "confirm" /\ pc' = "acknowledge" /\ Acknowledge(active)
      /\ UNCHANGED <<outbox, branch, active, todo, pumping>>
  BY DEF AcknowledgeInbox, world
<1>2. PICK t \in ProcessedTurns : t = active
  BY <1>1 DEF DInv, Control
<1>3. /\ RowsInv' /\ BranchInv' /\ AnswersTurn(t)
  <2>1. Acknowledge(t)
    BY <1>1, <1>2
  <2> QED  BY <1>1, <2>1, AcknowledgeAnswers DEF DInv
<1>4. Next
  BY <1>1, <1>2 DEF Next
<1>5. IInv'
  BY <1>4, NextIInv DEF DInv
<1>6. StoreKept
  BY <1>1 DEF StoreKept
<1>7. StoreInv'
  <2>1. \A k \in KeysOf(t) : outbox[k] = "acked"
    BY <1>1, <1>2 DEF DInv, StoreInv
  <2>2. StoreCovers'
    <3>1. \A k \in Held' : outbox'[k] # "absent"
      BY <1>1, <1>3 DEF AnswersTurn, DInv, StoreInv, StoreCovers
    <3>2. ASSUME NEW k \in Key
          PROVE  /\ Answering(k)' # {} => outbox'[k] = "acked"
                 /\ outbox'[k] = "acked" => k \in Held' \/ Answering(k)' # {}
      <4>1. CASE k \in KeysOf(t)
        BY <4>1, <2>1, <1>1, <1>3 DEF AnswersTurn
      <4>2. CASE k \notin KeysOf(t)
        BY <4>2, <1>1, <1>3 DEF AnswersTurn, DInv, StoreInv, StoreCovers
      <4> QED  BY <4>1, <4>2
    <3> QED  BY <3>1, <3>2 DEF StoreCovers
  <2>3. todo' = {} /\ pumping' = NoKey
    BY <1>1 DEF DInv, StoreInv
  <2> QED  BY <1>1, <2>2, <2>3 DEF StoreInv
<1>8. Control'
  BY <1>1 DEF Control, RunningPcs
<1>9. WorkerTypes'
  BY <1>1 DEF DInv, WorkerTypes
<1> QED  BY <1>3, <1>4, <1>5, <1>6, <1>7, <1>8, <1>9 DEF Fine, DInv, Effects

-----------------------------------------------------------------------------
(* The theorems about the worker.                                          *)

LEMMA InitDInv == DeliveryInit => DInv
<1> SUFFICES ASSUME DeliveryInit PROVE DInv
  OBVIOUS
<1>1. /\ Init /\ outbox = [k \in Key |-> "absent"] /\ branch = <<>>
      /\ pc = "acknowledge" /\ todo = {} /\ pumping = NoKey
  BY DEF DeliveryInit
<1>2. DOMAIN messages = {} /\ lastTurn = 0 /\ 1..lastTurn = {}
  BY <1>1 DEF Init
<1>3. IInv
  BY <1>1, InitIInv
<1>4. WorkerTypes
  BY <1>1 DEF WorkerTypes
<1>5. Control
  BY <1>1 DEF Control, RunningPcs
<1>6. RowsInv
  BY <1>2 DEF RowsInv
<1>7. Held = {} /\ \A k : Answering(k) = {}
  BY <1>2 DEF Held, Answering
<1>8. StoreInv
  BY <1>1, <1>7 DEF StoreInv, StoreCovers
<1>9. On(branch) = {} /\ DOMAIN branch = {}
  BY <1>1 DEF On
<1>10. BranchInv
  BY <1>2, <1>9 DEF BranchInv, SentOnce, BranchKnown, ContextFirst, ContextFresh,
     ReceiptsBacked, ProcessedWasAnswered, ProcessedTurns
<1> QED  BY <1>3, <1>4, <1>5, <1>6, <1>8, <1>10 DEF DInv

LEMMA StutterFine == ASSUME DInv, UNCHANGED deliveryVars PROVE Fine
<1>1. UNCHANGED <<vars, outbox, branch, pc, active, todo, pumping>>
  BY DEF deliveryVars, memory
<1>2. StoreRests
  BY <1>1 DEF StoreRests, DInv, StoreInv
<1>3. WorkerTypes'
  BY <1>1 DEF DInv, WorkerTypes
<1>4. Control'
  BY <1>1 DEF DInv, Control, vars, ProcessedTurns, Running, Open
<1> QED  BY <1>1, <1>2, <1>3, <1>4, QuietStep

LEMMA StepFine == DInv /\ [DeliveryNext]_deliveryVars => Fine
<1> SUFFICES ASSUME DInv, [DeliveryNext]_deliveryVars PROVE Fine
  OBVIOUS
<1>1. ASSUME NEW k \in Key, PostEvent(k) PROVE Fine
  BY <1>1, PostEventFine
<1>2. CASE Cycle
  <2>1. CASE AcknowledgeMailbox  BY <2>1, AcknowledgeMailboxFine
  <2>2. CASE AcknowledgeInbox    BY <2>2, AcknowledgeInboxFine
  <2>3. CASE Poll                BY <2>3, PollFine
  <2>4. ASSUME NEW k \in Key, EnqueuePolled(k) PROVE Fine
    BY <2>4, EnqueuePolledFine
  <2>5. CASE Polled \/ Sleep     BY <2>5, WaitFine
  <2>6. CASE Select              BY <2>6, SelectActiveFine, SelectNextFine
  <2>7. CASE ReceiveTurn         BY <2>7, ReceiveTurnFine
  <2> QED  BY <1>2, <2>1, <2>2, <2>3, <2>4, <2>5, <2>6, <2>7 DEF Cycle
<1>3. CASE Activation
  <2>1. CASE OpenConversation
    <3>1. CASE reset   BY <2>1, <3>1, OpenRecoversFine
    <3>2. CASE ~reset  BY <2>1, <3>2, MovesFine
    <3> QED  BY <3>1, <3>2
  <2>2. CASE LeaveBranch         BY <2>2, LeaveBranchFine
  <2>3. CASE NoteContextReset    BY <2>3, NoteContextResetFine
  <2>4. CASE SendMessage         BY <2>4, SendMessageFine
  <2>5. CASE NoteDelivered       BY <2>5, NoteDeliveredFine
  <2>6. CASE Delivered           BY <2>6, MovesFine
  <2> QED  BY <1>3, <2>1, <2>2, <2>3, <2>4, <2>5, <2>6 DEF Activation
<1>4. CASE Run
  <2>1. CASE AdoptResponse \/ RunSucceeds  BY <2>1, SucceedsFine
  <2>2. CASE NoteProgress        BY <2>2, NoteProgressFine
  <2>3. CASE RecoverStalled      BY <2>3, RecoverStalledFine
  <2>4. CASE StartRun            BY <2>4, StartRunFine
  <2>5. CASE ModelTool \/ ModelFinish  BY <2>5, ModelFine
  <2>6. CASE RunStops \/ DeliverSteer \/ HistoryFails  BY <2>6, MovesFine
  <2>7. CASE RunFails            BY <2>7, StopsFine
  <2>8. CASE ProviderFails       BY <2>8, ProviderFailsFine
  <2>9. CASE Succeed             BY <2>9, SucceedFine
  <2> QED
    BY <1>4, <2>1, <2>2, <2>3, <2>4, <2>5, <2>6, <2>7, <2>8, <2>9 DEF Run
<1>5. CASE Pump
  <2>1. ASSUME NEW k \in Key, PumpTakes(k) PROVE Fine
    BY <2>1, PumpTakesFine
  <2>2. CASE PumpAcknowledges    BY <2>2, PumpAcknowledgesFine
  <2> QED  BY <1>5, <2>1, <2>2 DEF Pump
<1>6. CASE CooldownEnds \/ DeferralEnds  BY <1>6, WaitFine
<1>7. CASE Crash                 BY <1>7, StopsFine
<1>8. CASE UNCHANGED deliveryVars  BY <1>8, StutterFine
<1> QED  BY <1>1, <1>2, <1>3, <1>4, <1>5, <1>6, <1>7, <1>8 DEF DeliveryNext

\* The inductive invariant of the worker holds in every reachable state, whatever the
\* limits and however often the process crashes.
THEOREM DeliveryInvariant == DeliverySpec => []DInv
<1>1. DInv /\ [DeliveryNext]_deliveryVars => DInv'
  BY StepFine DEF Fine
<1> QED  BY InitDInv, <1>1, PTL DEF DeliverySpec

\* The controller, the runner and the pump use the inbox only as PersistentInbox allows,
\* so the theorems about Spec hold of the worker.
THEOREM DeliveryUsesInbox == DeliverySpec => InboxUsedAsSpecified
<1>1. DeliveryInit => Init
  BY DEF DeliveryInit
<1>2. DInv /\ [DeliveryNext]_deliveryVars => [UNCHANGED vars \/ Next]_vars
  BY StepFine DEF Fine
<1> QED  BY <1>1, <1>2, DeliveryInvariant, PTL DEF DeliverySpec, InboxUsedAsSpecified

\* The branch never carries a message twice, whichever step a crash or a failed run cut.
THEOREM DeliverySentOnce == DeliverySpec => []SentOnce
<1>1. DInv => SentOnce
  BY DEF DInv, BranchInv
<1> QED  BY <1>1, DeliveryInvariant, PTL

\* The inbox's receipts do not run ahead of the conversation.
THEOREM DeliveryReceiptsBacked == DeliverySpec => []ReceiptsBacked
<1>1. DInv => ReceiptsBacked
  BY DEF DInv, BranchInv
<1> QED  BY <1>1, DeliveryInvariant, PTL

\* A turn is processed only when the branch has all its messages and an answer after
\* them, those steered in while it ran included.
THEOREM DeliveryProcessedWasAnswered == DeliverySpec => []ProcessedWasAnswered
<1>1. DInv => ProcessedWasAnswered
  BY DEF DInv, BranchInv
<1> QED  BY <1>1, DeliveryInvariant, PTL

\* A recovered turn never shares the branch with the turn it recovers.
THEOREM DeliveryRecoveryContextFresh == DeliverySpec => []RecoveryContextFresh
<1>1. DInv => RecoveryContextFresh
  BY DEF DInv, BranchInv, ContextFresh, RecoveryContextFresh, ActiveTurns, UnfinishedTurns
<1> QED  BY <1>1, DeliveryInvariant, PTL

\* The store lets go of an event only when the inbox has it or a turn answered it.
THEOREM DeliveryReceiptCovered == DeliverySpec => []ReceiptCovered
<1>1. DInv => ReceiptCovered
  <2> SUFFICES ASSUME DInv, NEW k \in Key, outbox[k] = "acked"
               PROVE  \/ \E m \in DOMAIN messages : messages[m].key = k /\ Live(m)
                      \/ Acknowledged(conversation, k)
    BY DEF ReceiptCovered
  <2>1. k \in Held \/ Answering(k) # {}
    BY DEF DInv, StoreInv, StoreCovers
  <2>2. CASE k \in Held
    BY <2>2 DEF Held
  <2>3. CASE Answering(k) # {}
    <3>1. PICK t \in 1..lastTurn : turns[t].acknowledged /\ k \in KeysOf(t)
      BY <2>3 DEF Answering
    <3>2. PICK m \in Events(t) : messages[m].key = k
      BY <3>1 DEF KeysOf
    <3>3. m \in DOMAIN messages /\ messages[m].turn = t /\ t # NoTurn
      BY <3>2 DEF Events, NoTurn, DInv, IInv, TypeOK
    <3>4. messages[m].conv = conversation
      BY <3>3 DEF DInv, RowsInv
    <3>5. messages[m].state = "processed"
      BY <3>1, <3>2 DEF DInv, IInv, TurnStates, ProcessedTurnComplete
    <3> QED  BY <3>1, <3>2, <3>3, <3>4, <3>5 DEF Acknowledged
  <2> QED  BY <2>1, <2>2, <2>3
<1> QED  BY <1>1, DeliveryInvariant, PTL

-----------------------------------------------------------------------------
(* The worker implements EventDelivery.                                    *)

PostedKeys == {k \in Key : outbox[k] # "absent"}

LEMMA PromiseInit == DeliveryInit => Promise!EventInit
<1> SUFFICES ASSUME DeliveryInit PROVE Promise!EventInit
  OBVIOUS
<1>1. DOMAIN messages = {} /\ 1..lastTurn = {} /\ outbox = [k \in Key |-> "absent"]
  BY DEF DeliveryInit, Init
<1>2. \A k : AnswersOf(k) = 0
  <2>1. \A k : {t \in 1..lastTurn : turns[t].acknowledged /\ k \in KeysOf(t)} = {}
    BY <1>1
  <2> QED  BY <2>1, FS_EmptySet DEF AnswersOf
<1> QED  BY <1>1, <1>2 DEF Promise!EventInit

LEMMA AnswersCount ==
  ASSUME lastTurn \in Nat, NEW k
  PROVE  AnswersOf(k) = Cardinality(Answering(k)) /\ IsFiniteSet(Answering(k))
<1>1. AnswersOf(k) = Cardinality(Answering(k))
  BY DEF AnswersOf, Answering
<1>2. IsFiniteSet(1..lastTurn) /\ Answering(k) \subseteq 1..lastTurn
  BY FS_Interval DEF Answering
<1> QED  BY <1>1, <1>2, FS_Subset

LEMMA PromiseStep == DInv /\ [DeliveryNext]_deliveryVars => [Promise!EventNext]_(Promise!eventVars)
<1> SUFFICES ASSUME DInv, Effects, DInv' PROVE [Promise!EventNext]_(Promise!eventVars)
  BY StepFine DEF Fine
<1>t. lastTurn \in Nat /\ lastTurn' \in Nat
  BY DEF DInv, IInv, TypeOK
<1>c. \A k : AnswersOf(k) = Cardinality(Answering(k)) /\ IsFiniteSet(Answering(k))
  BY <1>t, AnswersCount
<1>d. \A k : AnswersOf(k)' = Cardinality(Answering(k)')
  BY DEF AnswersOf, Answering
<1>k. Held \subseteq Key
  <2>1. \A m \in DOMAIN messages : messages[m].key \in Key
    BY DEF DInv, IInv, TypeOK, Message
  <2> QED  BY <2>1 DEF Held
<1>p. Held \subseteq PostedKeys
  BY <1>k DEF PostedKeys, DInv, StoreInv, StoreCovers
<1> DEFINE answers == [k \in Key |-> AnswersOf(k)]
<1>1. CASE EventsKept /\ StoreKept
  <2>1. Held' = Held /\ PostedKeys' = PostedKeys
    BY <1>1 DEF EventsKept, StoreKept, PostedKeys
  <2>2. answers' = answers
    BY <1>1, <1>c, <1>d DEF EventsKept
  <2> QED  BY <2>1, <2>2 DEF Promise!eventVars, Held, PostedKeys
<1>2. ASSUME EventsKept, NEW k \in Key,
             outbox[k] = "absent", outbox' = [outbox EXCEPT ![k] = "posted"]
      PROVE  Promise!EventNext
  <2>1. Held' = Held
    BY <1>2 DEF EventsKept
  <2>2. answers' = answers
    BY <1>2, <1>c, <1>d DEF EventsKept
  <2>3. k \notin PostedKeys /\ PostedKeys' = PostedKeys \cup {k}
    BY <1>2 DEF DInv, WorkerTypes, PostedKeys
  <2> HIDE DEF answers
  <2>4. Promise!Post(k)
    BY <2>1, <2>2, <2>3 DEF Promise!Post, Held, PostedKeys, answers
  <2> QED  BY <2>4 DEF Promise!EventNext
<1>3. ASSUME StoreKept, NEW k \in Key,
             outbox[k] # "absent", Answering(k) = {}, HoldsToo(k)
      PROVE  [Promise!EventNext]_(Promise!eventVars)
  <2>1. Held' = Held \cup {k} /\ PostedKeys' = PostedKeys /\ k \in PostedKeys
    BY <1>3 DEF HoldsToo, StoreKept, PostedKeys
  <2>2. answers' = answers
    BY <1>3, <1>c, <1>d DEF HoldsToo
  <2>3. CASE k \in Held
    <3>1. Held' = Held
      BY <2>1, <2>3
    <3> QED  BY <2>1, <2>2, <3>1 DEF Promise!eventVars, Held, PostedKeys
  <2>4. CASE k \notin Held
    <3>1. answers[k] = 0
      BY <1>3, <1>c, FS_EmptySet
    <3>2. k \in PostedKeys \ Held
      BY <2>1, <2>4
    <3> HIDE DEF answers
    <3>3. Promise!Hold(k)
      BY <2>1, <2>2, <3>1, <3>2 DEF Promise!Hold, Held, PostedKeys, answers
    <3> QED  BY <3>3 DEF Promise!EventNext
  <2> QED  BY <2>3, <2>4
<1>4. ASSUME StoreKept, NEW t \in ProcessedTurns, AnswersTurn(t)
      PROVE  Promise!EventNext
  <2> DEFINE S == KeysOf(t)
  <2>1. PICK T : T = S
    OBVIOUS
  <2>2. T # {} /\ T \subseteq Held /\ Held' = Held \ T /\ PostedKeys' = PostedKeys
    BY <1>4, <2>1 DEF AnswersTurn, StoreKept, PostedKeys
  <2>3. \A k : t \notin Answering(k)
    BY <1>4 DEF ProcessedTurns, Open, Answering
  <2>4. \A k : AnswersOf(k)' = IF k \in T THEN AnswersOf(k) + 1 ELSE AnswersOf(k)
    <3> SUFFICES ASSUME NEW k
                 PROVE  AnswersOf(k)' = IF k \in T THEN AnswersOf(k) + 1 ELSE AnswersOf(k)
      OBVIOUS
    <3>1. Answering(k)' = IF k \in T THEN Answering(k) \cup {t} ELSE Answering(k)
      BY <1>4, <2>1 DEF AnswersTurn
    <3>2. Cardinality(Answering(k) \cup {t}) = Cardinality(Answering(k)) + 1
      BY <1>c, <2>3, FS_AddElement
    <3> QED  BY <3>1, <3>2, <1>c, <1>d
  <2>5. answers' = [k \in Key |-> IF k \in T THEN answers[k] + 1 ELSE answers[k]]
    BY <2>4
  <2> HIDE DEF answers
  <2>6. Promise!Answer(T)
    BY <2>2, <2>5 DEF Promise!Answer, Held, PostedKeys, answers
  <2>7. T \in SUBSET Key
    BY <2>2, <1>k
  <2> QED  BY <2>6, <2>7 DEF Promise!EventNext
<1> QED  BY <1>1, <1>2, <1>3, <1>4 DEF Effects

\* Every event is answered once: whatever crashes, retries, reminders and recoveries do,
\* each step of the worker is a step of EventDelivery or none.
THEOREM DeliveryAnsweredOnce == DeliverySpec => AnsweredOnce
<1> QED
  BY PromiseInit, PromiseStep, DeliveryInvariant, PTL
  DEF DeliverySpec, AnsweredOnce, Promise!EventSpec

-----------------------------------------------------------------------------
(* What a step may never do to an event or to a quarantined turn.          *)

\* Where an event may go in one step.
Kept(c, k) ==
    \/ <<c, k>> \in LiveEvents'
    \/ Acknowledged(c, k)'
    \/ Kind[k] = "availability" /\ <<c, k>> \notin BoundEvents
EventsStay == \A e \in LiveEvents : Kept(e[1], e[2])

\* It is enough to follow each live row.
LEMMA RowsStay ==
  ASSUME \A c, k : \A m \in DOMAIN messages :
             Live(m) /\ messages[m].conv = c /\ messages[m].key = k => Kept(c, k)
  PROVE  EventsStay
<1> SUFFICES ASSUME NEW e \in LiveEvents PROVE Kept(e[1], e[2])
  BY DEF EventsStay
<1>1. PICK m \in DOMAIN messages : Live(m) /\ e = <<messages[m].conv, messages[m].key>>
  BY DEF LiveEvents
<1>2. PICK c, k : c = messages[m].conv /\ k = messages[m].key
  OBVIOUS
<1>3. Kept(c, k) /\ e[1] = c /\ e[2] = k
  BY <1>1, <1>2
<1> QED  BY <1>3 DEF Kept

\* Rows keep their conversation and key, and no turn is closed.
LEMMA OpenRowsStay ==
  ASSUME TypeOK,
         \A m \in DOMAIN messages :
             /\ m \in DOMAIN messages'
             /\ messages'[m].conv = messages[m].conv /\ messages'[m].key = messages[m].key
             /\ messages'[m].turn = messages[m].turn \/ messages'[m].turn = NoTurn
                \/ \E t : messages'[m].turn = t /\ Open(t)',
         \A t \in 1..lastTurn : Open(t) => Open(t)'
  PROVE  EventsStay
<1> SUFFICES ASSUME NEW b, NEW k, NEW m \in DOMAIN messages, Live(m),
                    messages[m].conv = b, messages[m].key = k
             PROVE  Kept(b, k)
  BY RowsStay
<1>1. Live(m)'
  BY RowTurns DEF Live
<1> QED  BY <1>1 DEF Kept, LiveEvents

LEMMA SameRowsStay == ASSUME TypeOK, SameRows PROVE EventsStay
<1>1. \A t \in 1..lastTurn : Open(t) => Open(t)'
  BY SameRowsFacts
<1> QED  BY <1>1, OpenRowsStay DEF SameRows

LEMMA AcceptStays == ASSUME IInv, Accept PROVE EventsStay
<1>1. PICK c \in Conversation, k \in Key, b \in Body :
        ControllerEvent(c, k, b) \/ PumpEvent(c, k, b)
  BY DEF Accept
<1>2. PICK row : AcceptsRow(c, k, row)
  BY <1>1, EventRows
<1>3. \A t \in 1..lastTurn : Open(t)' <=> Open(t)
  BY <1>2 DEF AcceptsRow, OnlyRefreshed, Open
<1>4. ASSUME NEW m \in DOMAIN messages
      PROVE  /\ m \in DOMAIN messages'
             /\ messages'[m].conv = messages[m].conv /\ messages'[m].key = messages[m].key
             /\ messages'[m].turn = messages[m].turn \/ messages'[m].turn = NoTurn
                \/ \E t : messages'[m].turn = t /\ Open(t)'
  BY <1>2, <1>3 DEF AcceptsRow, Accepted, RowFits, Stays, JoinsTurn
<1> QED  BY <1>3, <1>4, OpenRowsStay DEF IInv

LEMMA RetractStays ==
  ASSUME IInv, NEW c \in Conversation, NEW retained \in SUBSET Key,
         RetractPendingPrefix(c, retained)
  PROVE  EventsStay
<1> SUFFICES ASSUME NEW b, NEW k, NEW m \in DOMAIN messages, Live(m),
                    messages[m].conv = b, messages[m].key = k
             PROVE  Kept(b, k)
  BY RowsStay
<1> DEFINE gone == {n \in DOMAIN messages :
                      /\ messages[n].conv = c /\ Kind[messages[n].key] = "availability"
                      /\ messages[n].key \notin retained
                      /\ messages[n].state = "pending" /\ messages[n].turn = NoTurn}
<1>1. /\ messages' = [n \in DOMAIN messages \ gone |-> messages[n]]
      /\ UNCHANGED <<turns, lastTurn>>
  BY DEF RetractPendingPrefix
<1>2. ASSUME NEW n \in DOMAIN messages \ gone, Live(n),
             messages[n].conv = b, messages[n].key = k
      PROVE  Kept(b, k)
  <2>1. n \in DOMAIN messages' /\ messages'[n] = messages[n]
    BY <1>1
  <2>2. Live(n)'
    BY <1>1, <1>2, <2>1 DEF Live, Open
  <2> QED  BY <1>2, <2>1, <2>2 DEF Kept, LiveEvents
<1>3. CASE m \notin gone
  BY <1>2, <1>3
<1>4. CASE m \in gone /\ <<b, k>> \in BoundEvents
  <2>1. PICK n \in DOMAIN messages :
          /\ messages[n].turn # NoTurn /\ Live(n)
          /\ messages[n].conv = b /\ messages[n].key = k
    BY <1>4 DEF BoundEvents
  <2> QED  BY <1>2, <2>1
<1>5. CASE m \in gone /\ <<b, k>> \notin BoundEvents
  BY <1>5 DEF Kept
<1> QED  BY <1>3, <1>4, <1>5

LEMMA NextTurnStays ==
  ASSUME IInv, NEW c \in Conversation, NextTurn(c)
  PROVE  EventsStay
<1>1. PICK new : new = lastTurn + 1
  OBVIOUS
<1>2. /\ \A t \in 1..lastTurn : turns'[t] = turns[t]
      /\ turns'[new] = NewTurn(c, NoTurn, 0)
      /\ DOMAIN messages' = DOMAIN messages
      /\ \A m \in DOMAIN messages \ Batch(c) : messages'[m] = messages[m]
      /\ \A m \in Batch(c) : messages'[m].turn = new
      /\ \A m \in DOMAIN messages : /\ messages'[m].conv = messages[m].conv
                                    /\ messages'[m].key = messages[m].key
  BY <1>1, NextTurnRows
<1>3. Open(new)'
  BY <1>2 DEF Open, NewTurn
<1>4. \A t \in 1..lastTurn : Open(t)' <=> Open(t)
  BY <1>2 DEF Open
<1>5. ASSUME NEW m \in DOMAIN messages
      PROVE  messages'[m].turn = messages[m].turn \/ \E t : messages'[m].turn = t /\ Open(t)'
  BY <1>2, <1>3
<1> QED  BY <1>2, <1>4, <1>5, OpenRowsStay DEF IInv

LEMMA ResetTurnStays ==
  ASSUME IInv, NEW t \in 1..lastTurn, ResetTurn(t)
  PROVE  EventsStay
<1>1. PICK new : new = lastTurn + 1
  OBVIOUS
<1>2. /\ DOMAIN messages \subseteq DOMAIN messages'
      /\ \A m \in DOMAIN messages : messages'[m] = messages[m]
      /\ \A m \in Events(t) :
          /\ Copy(m) \in DOMAIN messages'
          /\ messages'[Copy(m)].conv = messages[m].conv
          /\ messages'[Copy(m)].key = messages[m].key
          /\ messages'[Copy(m)].turn = new
  BY <1>1, ResetRows
<1>3. /\ turns'[new] = NewTurn(turns[t].conv, t, turns[t].generation + 1)
      /\ \A s \in 1..lastTurn \ {t} : turns'[s] = turns[s]
  BY <1>1, ResetTurns
<1>4. Open(new)'
  BY <1>3 DEF Open, NewTurn
<1> SUFFICES ASSUME NEW b, NEW k, NEW m \in DOMAIN messages, Live(m),
                    messages[m].conv = b, messages[m].key = k
             PROVE  Kept(b, k)
  BY RowsStay
<1>5. CASE m \in Events(t)
  <2>1. PICK n : n = Copy(m)
    OBVIOUS
  <2>2. n \in DOMAIN messages' /\ messages'[n].turn = new
        /\ messages'[n].conv = b /\ messages'[n].key = k
    BY <1>2, <1>5, <2>1
  <2>3. Live(n)'
    BY <1>4, <2>2 DEF Live
  <2> QED  BY <2>2, <2>3 DEF Kept, LiveEvents
<1>6. CASE m \notin Events(t)
  <2>1. Live(m)'
    BY <1>2, <1>3, <1>6, RowTurns DEF Live, Open, Events, IInv
  <2> QED  BY <1>2, <2>1 DEF Kept, LiveEvents
<1> QED  BY <1>5, <1>6

LEMMA AcknowledgeStays ==
  ASSUME IInv, NEW t \in ProcessedTurns, Acknowledge(t)
  PROVE  EventsStay
<1>0. /\ t \in 1..lastTurn /\ turns[t].state = "processed" /\ turns[t] \in Turn
      /\ t # NoTurn
  BY DEF IInv, TypeOK, ProcessedTurns, NoTurn
<1>1. /\ turns'[t].acknowledged /\ UNCHANGED <<messages, lastTurn>>
      /\ \A s \in 1..lastTurn \ {t} : turns'[s] = turns[s]
  BY <1>0 DEF Acknowledge, IInv, TypeOK, Turn
<1> SUFFICES ASSUME NEW b, NEW k, NEW m \in DOMAIN messages, Live(m),
                    messages[m].conv = b, messages[m].key = k
             PROVE  Kept(b, k)
  BY RowsStay
<1>2. CASE m \in Events(t)
  <2>1. messages[m].state = "processed" /\ messages[m].turn = t
    BY <1>0, <1>2 DEF IInv, ProcessedTurnComplete, Events
  <2>2. Acknowledged(b, k)'
    BY <1>0, <1>1, <2>1 DEF Acknowledged
  <2> QED  BY <2>2 DEF Kept
<1>3. CASE m \notin Events(t)
  <2>1. Live(m)'
    BY <1>1, <1>3, RowTurns DEF Live, Open, Events, IInv
  <2> QED  BY <1>1, <2>1 DEF Kept, LiveEvents
<1> QED  BY <1>2, <1>3

LEMMA WorkStays ==
  ASSUME IInv, NEW t \in 1..lastTurn, Running(t), Work(t)
  PROVE  EventsStay
<1>t. TypeOK /\ turns \in [1..lastTurn -> Turn] /\ turns[t] \in Turn
      /\ messages \in [DOMAIN messages -> Message]
  BY DEF IInv, TypeOK
<1>1. ASSUME UNCHANGED <<lastTurn, messages>>,
             \A s \in 1..lastTurn : /\ turns'[s].acknowledged = turns[s].acknowledged
                                    /\ turns'[s].supersededBy = turns[s].supersededBy
      PROVE  EventsStay
  <2>1. \A s \in 1..lastTurn : Open(s) => Open(s)'
    BY <1>1 DEF Open
  <2> QED  BY <1>1, <1>t, <2>1, OpenRowsStay
<1>2. ASSUME NEW ts \in [1..lastTurn -> Turn], UNCHANGED lastTurn,
             \A s \in 1..lastTurn : /\ ts[s].acknowledged = turns[s].acknowledged
                                    /\ ts[s].supersededBy = turns[s].supersededBy,
             OnlyRefreshed(ts, turns')
      PROVE  \A s \in 1..lastTurn : Open(s) => Open(s)'
  BY <1>2 DEF OnlyRefreshed, Open
<1>3. CASE RecordPromptDelivered(t)
  <2> DEFINE ts == [turns EXCEPT ![t].prompt = "delivered"]
  <2>1. /\ ts \in [1..lastTurn -> Turn]
        /\ \A s \in 1..lastTurn : /\ ts[s].acknowledged = turns[s].acknowledged
                                  /\ ts[s].supersededBy = turns[s].supersededBy
    BY <1>t DEF Turn, DeliveryState
  <2>2. turns' = Refreshed(messages, ts, t) /\ UNCHANGED <<messages, lastTurn>>
    BY <1>3 DEF RecordPromptDelivered
  <2> HIDE DEF ts
  <2>3. OnlyRefreshed(ts, turns')
    BY <2>1, <2>2, RefreshedTurns
  <2>4. \A s \in 1..lastTurn : Open(s) => Open(s)'
    BY <1>2, <2>1, <2>2, <2>3
  <2> QED  BY <1>t, <2>2, <2>4, OpenRowsStay
<1>4. ASSUME NEW m \in Events(t), RecordDelivered(m) PROVE EventsStay
  <2>1. m \in DOMAIN messages /\ messages[m].turn = t
    BY DEF Events
  <2>2. /\ messages' = [messages EXCEPT ![m].state = "delivered"] /\ UNCHANGED lastTurn
        /\ OnlyRefreshed(turns, turns')
    BY <1>4, <1>t, <2>1, RefreshedTurns DEF RecordDelivered
  <2>3. /\ DOMAIN messages' = DOMAIN messages
        /\ \A n \in DOMAIN messages :
            /\ messages'[n].conv = messages[n].conv /\ messages'[n].key = messages[n].key
            /\ messages'[n].turn = messages[n].turn
    BY <1>t, <2>1, <2>2 DEF Message
  <2>4. \A s \in 1..lastTurn : Open(s) => Open(s)'
    BY <1>2, <1>t, <2>2
  <2> QED  BY <1>t, <2>3, <2>4, OpenRowsStay
<1>5. CASE RecordContextReset(t)
  BY <1>1, <1>5, <1>t DEF RecordContextReset, Turn
<1>6. ASSUME NEW e \in Progress, RecordProgress(t, e) PROVE EventsStay
  BY <1>1, <1>6, <1>t DEF RecordProgress, Turn
<1>7. CASE RecordInferenceAttempt(t)
  BY <1>1, <1>7, <1>t DEF RecordInferenceAttempt, Turn
<1>8. CASE DeferProviderRetry(t)
  BY <1>1, <1>8, <1>t DEF DeferProviderRetry, Turn
<1>9. CASE RecoverTurn(t)
  <2>1. CASE Quarantine(t)
    BY <1>1, <2>1, <1>t DEF Quarantine, Turn
  <2> QED  BY <1>9, <2>1, ResetTurnStays DEF RecoverTurn
<1>10. CASE RecordProcessed(t)
  <2>1. /\ DOMAIN messages' = DOMAIN messages /\ UNCHANGED lastTurn
        /\ \A n \in DOMAIN messages :
            /\ messages'[n].conv = messages[n].conv /\ messages'[n].key = messages[n].key
            /\ messages'[n].turn = messages[n].turn
    BY <1>10, <1>t DEF RecordProcessed, Message
  <2>2. \A s \in 1..lastTurn : Open(s) => Open(s)'
    BY <1>10, <1>t DEF RecordProcessed, Turn, Open
  <2> QED  BY <1>t, <2>1, <2>2, OpenRowsStay
<1> QED
  BY <1>3, <1>4, <1>5, <1>6, <1>7, <1>8, <1>9, <1>10 DEF Work, Deliver, Attempt

LEMMA NextStays == IInv /\ Next => EventsStay
<1> SUFFICES ASSUME IInv, Next PROVE EventsStay
  OBVIOUS
<1>1. CASE Accept
  BY <1>1, AcceptStays
<1>2. CASE Retract
  BY <1>2, RetractStays DEF Retract
<1>3. ASSUME NEW c \in Conversation, NextTurn(c) PROVE EventsStay
  BY <1>3, NextTurnStays
<1>4. ASSUME NEW t \in 1..lastTurn, Running(t), Work(t) PROVE EventsStay
  BY <1>4, WorkStays
<1>5. ASSUME NEW t \in ProcessedTurns, Acknowledge(t) PROVE EventsStay
  BY <1>5, AcknowledgeStays
<1>6. CASE ClearProviderCooldown
  <2>1. SameRows
    BY <1>6 DEF ClearProviderCooldown, SameRows
  <2> QED  BY <2>1, SameRowsStay DEF IInv
<1> QED  BY <1>1, <1>2, <1>3, <1>4, <1>5, <1>6 DEF Next

\* An accepted event stays live until a turn that processed it is acknowledged; only an
\* availability event that no turn holds can be retracted.
THEOREM InboxNoEventLost == Spec => NoEventLost
<1>1. IInv /\ [Next]_vars =>
        [\A e \in LiveEvents :
            \/ e \in LiveEvents'
            \/ Acknowledged(e[1], e[2])'
            \/ Kind[e[2]] = "availability" /\ e \notin BoundEvents]_vars
  <2> SUFFICES ASSUME IInv, Next, NEW e \in LiveEvents
               PROVE  \/ e \in LiveEvents'
                      \/ Acknowledged(e[1], e[2])'
                      \/ Kind[e[2]] = "availability" /\ e \notin BoundEvents
    OBVIOUS
  <2>1. e = <<e[1], e[2]>>
    BY DEF LiveEvents
  <2> QED  BY <2>1, NextStays DEF EventsStay, Kept
<1> QED  BY <1>1, InboxInvariant, PTL DEF Spec, NoEventLost

-----------------------------------------------------------------------------
\* A quarantined turn was never processed: acknowledging it is no way out.
Quarantined == \A t \in 1..lastTurn : turns[t].quarantined => turns[t].state # "processed"

\* What QuarantineHolds says of one turn and one step.
LeftAlone(t) ==
    /\ turns'[t] = turns[t]
    /\ \A s \in DOMAIN turns' \ DOMAIN turns : turns'[s].conv # turns[t].conv
Reopened(t) ==
    \E m \in DOMAIN messages' :
        /\ m \in Events(t)' /\ m \notin Events(t)
        /\ messages'[m].priority = STEER_PRIORITY
TurnsRest ==
    \A t \in 1..lastTurn :
        turns[t].quarantined /\ Open(t) => LeftAlone(t) \/ Reopened(t)

\* _refresh_turn_state looks at one turn.
OneRefreshed(ts, us, t) ==
    /\ us \in [1..lastTurn -> Turn]
    /\ \A s \in 1..lastTurn \ {t} : us[s] = ts[s]
    /\ us[t].quarantined = ts[t].quarantined
    /\ us[t].state = "processed" => ts[t].state = "processed"

LEMMA RefreshesOne ==
  ASSUME NEW ms, NEW ts \in [1..lastTurn -> Turn], NEW t \in 1..lastTurn
  PROVE  OneRefreshed(ts, Refreshed(ms, ts, t), t)
<1>1. CASE Refreshed(ms, ts, t) = ts
  BY <1>1 DEF OneRefreshed
<1>2. CASE Refreshed(ms, ts, t) = [ts EXCEPT ![t].state = "delivered"]
  <2> DEFINE us == [ts EXCEPT ![t].state = "delivered"]
  <2>0. ts[t] \in Turn
    OBVIOUS
  <2>1. us \in [1..lastTurn -> Turn] /\ \A s \in 1..lastTurn \ {t} : us[s] = ts[s]
    BY <2>0 DEF Turn, DeliveryState
  <2>2. us[t].quarantined = ts[t].quarantined /\ us[t].state = "delivered"
    BY <2>0 DEF Turn
  <2> QED  BY <1>2, <2>1, <2>2 DEF OneRefreshed
<1> QED  BY <1>1, <1>2 DEF Refreshed

\* A step on one turn that is not in quarantine.
LEMMA WorkRests ==
  ASSUME IInv, Quarantined, NEW t \in 1..lastTurn, Running(t), Work(t)
  PROVE  TurnsRest /\ Quarantined'
<1>t. TypeOK /\ turns \in [1..lastTurn -> Turn] /\ turns[t] \in Turn
  BY DEF IInv, TypeOK
<1>0. ~turns[t].quarantined /\ turns[t].state # "processed"
  BY DEF Running
<1>1. ASSUME UNCHANGED lastTurn, turns' \in [1..lastTurn -> Turn],
             \A s \in 1..lastTurn \ {t} : turns'[s] = turns[s],
             turns'[t].quarantined => turns'[t].state # "processed"
      PROVE  TurnsRest /\ Quarantined'
  <2>1. DOMAIN turns' = DOMAIN turns
    BY <1>1, <1>t
  <2> QED  BY <1>0, <1>1, <2>1 DEF TurnsRest, LeftAlone, Quarantined
<1>3. CASE RecordPromptDelivered(t)
  <2> DEFINE ts == [turns EXCEPT ![t].prompt = "delivered"]
  <2>1. /\ ts \in [1..lastTurn -> Turn] /\ \A s \in 1..lastTurn \ {t} : ts[s] = turns[s]
        /\ ts[t].quarantined = turns[t].quarantined
    BY <1>t DEF Turn, DeliveryState
  <2>2. turns' = Refreshed(messages, ts, t) /\ UNCHANGED lastTurn
    BY <1>3 DEF RecordPromptDelivered
  <2> HIDE DEF ts
  <2>3. /\ turns' \in [1..lastTurn -> Turn] /\ \A s \in 1..lastTurn \ {t} : turns'[s] = ts[s]
        /\ turns'[t].quarantined = ts[t].quarantined
    <3>1. OneRefreshed(ts, turns', t)
      BY <2>1, <2>2, RefreshesOne
    <3> QED  BY <3>1 DEF OneRefreshed
  <2> QED  BY <1>0, <1>1, <2>1, <2>2, <2>3
<1>4. ASSUME NEW m \in Events(t), RecordDelivered(m) PROVE TurnsRest /\ Quarantined'
  <2>1. turns' = Refreshed(messages', turns, t) /\ UNCHANGED lastTurn
    BY <1>4 DEF RecordDelivered, Events
  <2>2. /\ turns' \in [1..lastTurn -> Turn]
        /\ \A s \in 1..lastTurn \ {t} : turns'[s] = turns[s]
        /\ turns'[t].quarantined = turns[t].quarantined
    <3>1. OneRefreshed(turns, turns', t)
      BY <1>t, <2>1, RefreshesOne
    <3> QED  BY <3>1 DEF OneRefreshed
  <2> QED  BY <1>0, <1>1, <2>1, <2>2
<1>5. CASE RecordContextReset(t)
  BY <1>0, <1>1, <1>5, <1>t DEF RecordContextReset, Turn
<1>6. ASSUME NEW e \in Progress, RecordProgress(t, e) PROVE TurnsRest /\ Quarantined'
  BY <1>0, <1>1, <1>6, <1>t DEF RecordProgress, Turn
<1>7. CASE RecordInferenceAttempt(t)
  BY <1>0, <1>1, <1>7, <1>t DEF RecordInferenceAttempt, Turn
<1>8. CASE DeferProviderRetry(t)
  <2>1. Decrement(turns[t].stalled) \in Nat /\ Decrement(turns[t].attempts) \in Nat
    BY <1>t DEF Turn, Decrement
  <2> QED  BY <2>1, <1>0, <1>1, <1>8, <1>t DEF DeferProviderRetry, Turn
<1>9. CASE Quarantine(t)
  BY <1>0, <1>1, <1>9, <1>t DEF Quarantine, Turn
<1>10. CASE ResetTurn(t)
  <2>1. PICK new : new = lastTurn + 1
    OBVIOUS
  <2>2. /\ turns' \in [1..new -> Turn]
        /\ turns'[new] = NewTurn(turns[t].conv, t, turns[t].generation + 1)
        /\ turns'[t] = [turns[t] EXCEPT !.supersededBy = new]
        /\ \A s \in 1..lastTurn \ {t} : turns'[s] = turns[s]
    BY <1>10, <2>1, ResetTurns
  <2>3. lastTurn' = new /\ lastTurn \in Nat
    BY <1>10, <1>t, <2>1 DEF ResetTurn, TypeOK
  <2>4. DOMAIN turns' \ DOMAIN turns = {new} /\ turns'[new].conv = turns[t].conv
    BY <1>t, <2>1, <2>2, <2>3 DEF NewTurn
  <2>5. ASSUME NEW s \in 1..lastTurn, turns[s].quarantined, Open(s) PROVE LeftAlone(s)
    <3>1. s # t /\ turns[s].conv # turns[t].conv
      BY <1>0, <2>5 DEF Running, IInv, OneOpenTurn
    <3> QED  BY <2>2, <2>4, <3>1 DEF LeftAlone
  <2>6. ~turns'[t].quarantined /\ ~turns'[new].quarantined
    BY <1>0, <1>t, <2>2 DEF Turn, NewTurn
  <2>7. Quarantined'
    <3> SUFFICES ASSUME NEW s \in 1..new, turns'[s].quarantined
                 PROVE  turns'[s].state # "processed"
      BY <2>3 DEF Quarantined
    <3>1. s \in 1..lastTurn \ {t}
      BY <2>1, <2>3, <2>6
    <3> QED  BY <2>2, <3>1 DEF Quarantined
  <2> QED  BY <2>5, <2>7 DEF TurnsRest
<1>11. CASE RecordProcessed(t)
  BY <1>0, <1>1, <1>11, <1>t DEF RecordProcessed, Turn, DeliveryState
<1> QED
  BY <1>3, <1>4, <1>5, <1>6, <1>7, <1>8, <1>9, <1>10, <1>11
  DEF Work, Deliver, Attempt, RecoverTurn

LEMMA NextTurnRests ==
  ASSUME IInv, Quarantined, NEW c \in Conversation, NextTurn(c)
  PROVE  TurnsRest /\ Quarantined'
<1>1. PICK new : new = lastTurn + 1
  OBVIOUS
<1>2. /\ turns' \in [1..new -> Turn] /\ \A t \in 1..lastTurn : turns'[t] = turns[t]
      /\ turns'[new] = NewTurn(c, NoTurn, 0)
  BY <1>1, NextTurnRows
<1>3. lastTurn' = new /\ lastTurn \in Nat /\ DOMAIN turns = 1..lastTurn
  BY <1>1 DEF NextTurn, IInv, TypeOK
<1>4. DOMAIN turns' \ DOMAIN turns = {new} /\ turns'[new].conv = c /\ ~turns'[new].quarantined
  BY <1>1, <1>2, <1>3 DEF NewTurn
<1>5. ASSUME NEW t \in 1..lastTurn, turns[t].quarantined, Open(t) PROVE LeftAlone(t)
  <2>1. turns[t].conv # c
    BY <1>5 DEF NextTurn, MayOpen, QuarantinedTurns, UnfinishedTurns, Quarantined
  <2> QED  BY <1>2, <1>4, <2>1 DEF LeftAlone
<1>6. Quarantined'
  BY <1>1, <1>2, <1>3, <1>4 DEF Quarantined
<1> QED  BY <1>5, <1>6 DEF TurnsRest

LEMMA AcknowledgeRests ==
  ASSUME IInv, Quarantined, NEW t \in ProcessedTurns, Acknowledge(t)
  PROVE  TurnsRest /\ Quarantined'
<1>0. /\ t \in 1..lastTurn /\ turns[t].state = "processed" /\ ~turns[t].quarantined
      /\ turns \in [1..lastTurn -> Turn] /\ turns[t] \in Turn
  BY DEF IInv, TypeOK, ProcessedTurns, Quarantined
<1>1. /\ turns' = [turns EXCEPT ![t].acknowledged = TRUE] /\ UNCHANGED lastTurn
      /\ DOMAIN turns' = DOMAIN turns
      /\ \A s \in 1..lastTurn \ {t} : turns'[s] = turns[s]
      /\ ~turns'[t].quarantined
  BY <1>0 DEF Acknowledge, Turn
<1> QED  BY <1>0, <1>1 DEF TurnsRest, LeftAlone, Quarantined

\* A human's words reopen the turn they join; anything else leaves it alone.
LEMMA SteerTurnRests ==
  ASSUME IInv, Quarantined, NEW c \in Conversation, NEW k \in Key, NEW b \in Body,
         NEW p \in 0..2, NEW t \in 1..lastTurn, SteerTurn(c, k, b, p, t)
  PROVE  TurnsRest /\ Quarantined'
<1> DEFINE row == QueuedRow(c, k)
           q == Queued(c, k, b, p)
<1>t. turns \in [1..lastTurn -> Turn] /\ turns[t] \in Turn
  BY DEF IInv, TypeOK
<1>0. /\ ~Suppressed(c, k) /\ t \in SteerTargets(c, p) /\ q[row].turn = NoTurn
      /\ turns' = Refreshed(messages', Steered(t, p), t)
      /\ UNCHANGED lastTurn
  BY DEF SteerTurn, Accepts, Joins
<1>1. PICK position :
        messages' = [q EXCEPT ![row].turn = t, ![row].position = position]
  BY DEF SteerTurn
<1>2. WritesRow(q, c, k, row)
  BY <1>0, QueuedRows
<1>3. turns[t].state # "processed"
  BY <1>0, SteerTargetsOpen
<1>4. /\ Steered(t, p) \in [1..lastTurn -> Turn]
      /\ \A s \in 1..lastTurn \ {t} : Steered(t, p)[s] = turns[s]
      /\ Steered(t, p)[t].state = turns[t].state
  BY <1>t DEF Steered, Turn
<1>5. /\ turns' \in [1..lastTurn -> Turn]
      /\ \A s \in 1..lastTurn \ {t} : turns'[s] = turns[s]
      /\ turns'[t].state # "processed"
  <2>1. OneRefreshed(Steered(t, p), turns', t)
    BY <1>0, <1>4, RefreshesOne
  <2> QED  BY <1>3, <1>4, <2>1 DEF OneRefreshed
<1>6. Quarantined'
  BY <1>0, <1>5 DEF Quarantined
<1>7. ASSUME turns[t].quarantined PROVE Reopened(t)
  <2>1. p = STEER_PRIORITY
    BY <1>0, <1>7 DEF SteerTargets, ActiveTurns, UnfinishedTurns
  <2>2. q[row].priority = STEER_PRIORITY
    <3>1. CASE LiveMessages(c, k) = {}
      <4>1. row \in DOMAIN messages \cup {row}
        OBVIOUS
      <4> QED  BY <2>1, <3>1, <4>1 DEF Queued, Put
    <3>2. CASE LiveMessages(c, k) # {}
      <4>1. row \in DOMAIN messages
        BY <1>0, <3>2, QueuedRowFits DEF LiveMessages
      <4>2. messages[row] \in Message /\ messages \in [DOMAIN messages -> Message]
        BY <4>1 DEF IInv, TypeOK
      <4> HIDE DEF row
      <4>3. messages[row].priority \in 0..2
        BY <4>2 DEF Message
      <4> QED  BY <2>1, <3>2, <4>1, <4>2, <4>3 DEF q, row, Queued, Message, STEER_PRIORITY
    <3> QED  BY <3>1, <3>2
  <2> HIDE DEF row, q
  <2>3. /\ row \in DOMAIN messages' /\ q[row] \in Message
        /\ messages'[row] = [q[row] EXCEPT !.turn = t, !.position = position]
    BY <1>1, <1>2 DEF WritesRow, Message
  <2>4. messages'[row].turn = t /\ messages'[row].priority = STEER_PRIORITY
    BY <2>2, <2>3 DEF Message
  <2>5. t # NoTurn
    BY DEF NoTurn
  <2>6. row \notin Events(t)
    BY <1>0, <1>2, <2>5 DEF Events, WritesRow
  <2>7. PICK r : r = row
    OBVIOUS
  <2>8. r \in DOMAIN messages' /\ r \in Events(t)' /\ r \notin Events(t)
        /\ messages'[r].priority = STEER_PRIORITY
    BY <2>3, <2>4, <2>6, <2>7 DEF Events
  <2> QED  BY <2>8 DEF Reopened
<1>8. DOMAIN turns' = DOMAIN turns
  BY <1>5, <1>t
<1>9. \A s \in 1..lastTurn \ {t} : LeftAlone(s)
  BY <1>5, <1>8 DEF LeftAlone
<1> QED  BY <1>6, <1>7, <1>9 DEF TurnsRest

LEMMA AcceptRests == ASSUME IInv, Quarantined, Accept PROVE TurnsRest /\ Quarantined'
<1>1. PICK c \in Conversation, k \in Key, b \in Body :
        ControllerEvent(c, k, b) \/ PumpEvent(c, k, b)
  BY DEF Accept
<1>2. PICK p \in 0..2 : Enqueue(c, k, b, p) \/ Steer(c, k, b, p)
  BY <1>1 DEF ControllerEvent, PumpEvent, QUEUE_PRIORITY, STEER_PRIORITY
<1>3. CASE Enqueue(c, k, b, p)
  BY <1>3 DEF Enqueue, TurnsRest, LeftAlone, Quarantined
<1> QED  BY <1>2, <1>3, SteerTurnRests DEF Steer, SteerQueue

LEMMA NextRests == IInv /\ Quarantined /\ [Next]_vars => Quarantined' /\ [TurnsRest]_vars
<1> SUFFICES ASSUME IInv, Quarantined, [Next]_vars PROVE Quarantined' /\ [TurnsRest]_vars
  OBVIOUS
<1>1. CASE Accept
  BY <1>1, AcceptRests
<1>2. CASE Retract \/ ClearProviderCooldown
  BY <1>2 DEF Retract, RetractPendingPrefix, ClearProviderCooldown, TurnsRest, LeftAlone,
     Quarantined
<1>3. ASSUME NEW c \in Conversation, NextTurn(c) PROVE TurnsRest /\ Quarantined'
  BY <1>3, NextTurnRests
<1>4. ASSUME NEW t \in 1..lastTurn, Running(t), Work(t) PROVE TurnsRest /\ Quarantined'
  BY <1>4, WorkRests
<1>5. ASSUME NEW t \in ProcessedTurns, Acknowledge(t) PROVE TurnsRest /\ Quarantined'
  BY <1>5, AcknowledgeRests
<1>6. CASE UNCHANGED vars
  BY <1>6 DEF vars, Quarantined
<1> QED  BY <1>1, <1>2, <1>3, <1>4, <1>5, <1>6 DEF Next

\* A quarantined turn is left alone, and no other turn of its conversation starts, until
\* a human's message joins and reopens it.
THEOREM InboxQuarantineHolds == Spec => QuarantineHolds
<1>1. Init => Quarantined
  BY DEF Init, Quarantined
<1>2. [TurnsRest]_vars =>
        [\A t \in 1..lastTurn :
            turns[t].quarantined /\ Open(t) =>
                \/ /\ turns'[t] = turns[t]
                   /\ \A s \in DOMAIN turns' \ DOMAIN turns : turns'[s].conv # turns[t].conv
                \/ \E m \in DOMAIN messages' :
                    /\ m \in Events(t)' /\ m \notin Events(t)
                    /\ messages'[m].priority = STEER_PRIORITY]_vars
  BY DEF TurnsRest, LeftAlone, Reopened
<1> QED
  BY <1>1, <1>2, NextRests, InboxInvariant, PTL DEF Spec, QuarantineHolds

-----------------------------------------------------------------------------
(* The invariants of Spec that IInv implies or that hold on top of it. *)

\* A turn keeps its positions without holes: as many rows as positions, no two on one.
LEMMA NoHoles == IInv => PositionsContiguous
<1> SUFFICES ASSUME IInv, NEW t \in 1..lastTurn
             PROVE  {messages[m].position : m \in Events(t)} = 1..Cardinality(Events(t))
  BY DEF PositionsContiguous
<1> DEFINE N == Cardinality(Events(t))
           f == [m \in Events(t) |-> messages[m].position]
<1>1. IsFiniteSet(Events(t)) /\ N \in Nat
  BY FS_Subset, FS_CardinalityType DEF IInv, TypeOK, Events
<1>2. IsFiniteSet(1..N) /\ Cardinality(1..N) = N
  BY <1>1, FS_Interval
<1>3. f \in Injection(Events(t), 1..N)
  <2>1. f \in [Events(t) -> 1..N] /\ \A m \in Events(t) : f[m] = messages[m].position
    BY DEF IInv, Positions
  <2>2. \A m \in Events(t) : m \in DOMAIN messages /\ messages[m].turn = t /\ t # NoTurn
    BY DEF Events, NoTurn
  <2> HIDE DEF f
  <2>3. \A m, n \in Events(t) : f[m] = f[n] => m = n
    BY <2>1, <2>2 DEF IInv, Positions
  <2> QED  BY <2>1, <2>3 DEF Injection, IsInjective
<1> HIDE DEF f, N
<1>4. f \in Surjection(Events(t), 1..N)
  BY <1>2, <1>3, FS_Injection DEF N
<1>5. \A position \in 1..N : \E m \in Events(t) : f[m] = position
  BY <1>4 DEF Surjection
<1>6. \A m \in Events(t) : f[m] \in 1..N /\ f[m] = messages[m].position
  BY <1>3 DEF Injection, f
<1> QED  BY <1>5, <1>6 DEF N

\* The rows of a turn are in positions 1 .. n, whatever was steered in, recovered or
\* retracted: the order the model reads them in is total and has no gap.
THEOREM InboxPositionsContiguous == Spec => []PositionsContiguous
BY InboxInvariant, NoHoles, PTL

-----------------------------------------------------------------------------
\* A conversation that next_turn would serve is one that ready_conversation_ids offers.
LEMMA ServedIsOffered == IInv => ReadyCoversWork
<1> SUFFICES ASSUME IInv, NEW c \in Conversation,
                    ActiveTurns(c) # {} \/ (MayOpen(c) /\ Batch(c) # {})
             PROVE  c \in Ready
  BY DEF ReadyCoversWork
<1>1. CASE ActiveTurns(c) # {}
  <2>1. PICK t \in 1..lastTurn : turns[t].conv = c /\ Open(t) /\ ~turns[t].quarantined
    BY <1>1 DEF ActiveTurns, UnfinishedTurns
  <2>2. \A s \in 1..lastTurn : turns[s].conv = c /\ Open(s) => ~turns[s].quarantined
    BY <2>1 DEF IInv, OneOpenTurn
  <2> QED  BY <2>1, <2>2 DEF Ready
<1>2. CASE MayOpen(c) /\ Batch(c) # {}
  <2>1. \A s \in 1..lastTurn : turns[s].conv = c => ~Open(s)
    <3>1. ASSUME NEW s \in 1..lastTurn, turns[s].conv = c, Open(s) PROVE FALSE
      <4>1. turns[s] \in Turn
        BY DEF IInv, TypeOK
      <4>2. turns[s].quarantined \in BOOLEAN
        BY <4>1 DEF Turn
      <4> QED
        BY <1>2, <3>1, <4>2 DEF MayOpen, ActiveTurns, QuarantinedTurns, UnfinishedTurns,
           ProcessedTurns
    <3> QED  BY <3>1
  <2>2. PICK m \in DOMAIN messages : messages[m].conv = c /\ messages[m].turn = NoTurn
    BY <1>2 DEF Batch, Pending
  <2> QED  BY <2>1, <2>2 DEF Ready
<1> QED  BY <1>1, <1>2

\* The two queries the controller combines agree: work that next_turn would hand out is
\* in a conversation the controller asks for.
THEOREM InboxReadyCoversWork == Spec => []ReadyCoversWork
BY InboxInvariant, ServedIsOffered, PTL

\* What the rows of a step say: each carries on a row that was there, or is the row of
\* an event whose key no waiting or handled row gave another payload.
CarriesOn(row) ==
    \E m \in DOMAIN messages :
        /\ messages'[row].conv = messages[m].conv /\ messages'[row].key = messages[m].key
        /\ messages'[row].body = messages[m].body
Says(row, c, k, b) ==
    /\ messages'[row].conv = c /\ messages'[row].key = k /\ messages'[row].body = b
    /\ ~PayloadConflict(c, k, b)

LEMMA RowsCarryOn ==
  ASSUME OnePayload, NEW c, NEW k, NEW b, NEW row,
         \A m \in DOMAIN messages' : CarriesOn(m) \/ (m = row /\ Says(m, c, k, b))
  PROVE  OnePayload'
<1> SUFFICES ASSUME NEW m \in DOMAIN messages', NEW n \in DOMAIN messages',
                    messages'[n].key = messages'[m].key,
                    Once(messages'[m].key) \/ messages'[n].conv = messages'[m].conv
             PROVE  messages'[m].body = messages'[n].body
  BY DEF OnePayload, InScope
<1>1. CASE CarriesOn(m) /\ CarriesOn(n)
  BY <1>1 DEF CarriesOn, OnePayload, InScope
<1>2. CASE Says(m, c, k, b) /\ CarriesOn(n)
  BY <1>2 DEF CarriesOn, Says, PayloadConflict, InScope
<1>3. CASE CarriesOn(m) /\ Says(n, c, k, b)
  BY <1>3 DEF CarriesOn, Says, PayloadConflict, InScope
<1>4. CASE Says(m, c, k, b) /\ Says(n, c, k, b)
  BY <1>4 DEF Says
<1> QED  BY <1>1, <1>2, <1>3, <1>4

\* A step that adds no row and rewrites no payload.
LEMMA SameRowsCarryOn ==
  ASSUME OnePayload, DOMAIN messages' \subseteq DOMAIN messages,
         \A m \in DOMAIN messages' :
            /\ messages'[m].conv = messages[m].conv /\ messages'[m].key = messages[m].key
            /\ messages'[m].body = messages[m].body
  PROVE  OnePayload'
BY DEF OnePayload, InScope

\* _enqueue gives a fresh row the payload of its event and leaves every other payload.
LEMMA QueuedBody ==
  ASSUME IInv, NEW c \in Conversation, NEW k \in Key, NEW b \in Body, NEW p \in 0..2,
         ~Suppressed(c, k), NEW row, row = QueuedRow(c, k)
  PROVE  LET q == Queued(c, k, b, p) IN
         IF row \in DOMAIN messages THEN q[row].body = messages[row].body ELSE q[row].body = b
<1> DEFINE q == Queued(c, k, b, p)
           new == [conv |-> c, key |-> k, body |-> b, state |-> "pending",
                   priority |-> p, turn |-> NoTurn, position |-> 0]
<1>t. messages \in [DOMAIN messages -> Message]
  BY DEF IInv, TypeOK
<1>1. CASE LiveMessages(c, k) = {}
  <2>1. row \notin DOMAIN messages
    BY <1>1, QueuedRowFits
  <2>2. q = [x \in DOMAIN messages \cup {row} |-> IF x = row THEN new ELSE messages[x]]
    BY <1>1 DEF Queued, Put
  <2>3. q[row] = new /\ new.body = b
    BY <2>2
  <2> QED  BY <2>1, <2>3
<1>2. CASE LiveMessages(c, k) # {}
  <2>1. row \in DOMAIN messages
    BY <1>2, QueuedRowFits DEF LiveMessages
  <2>2. messages[row] \in Message
    BY <2>1, <1>t
  <2>3. q = [messages EXCEPT ![row].priority = p] \/ q = messages
    BY <1>2 DEF Queued
  <2>4. q[row].body = messages[row].body
    BY <2>1, <2>2, <2>3, <1>t DEF Message
  <2> QED  BY <2>1, <2>4
<1> QED  BY <1>1, <1>2

\* An event that is accepted has the payload its key always had.
LEMMA EventPayload ==
  ASSUME IInv, OnePayload, NEW c \in Conversation, NEW k \in Key, NEW b \in Body,
         NEW p \in 0..2, Accepts(c, k, b), NEW q, q = Queued(c, k, b, p),
         NEW row, row = QueuedRow(c, k), DOMAIN messages' = DOMAIN q,
         \A m \in DOMAIN q : /\ messages'[m].conv = q[m].conv /\ messages'[m].key = q[m].key
                             /\ messages'[m].body = q[m].body
  PROVE  OnePayload'
<1>1. ~Suppressed(c, k) /\ ~PayloadConflict(c, k, b)
  BY DEF Accepts
<1>2. WritesRow(q, c, k, row)
  BY <1>1, QueuedRows
<1>3. IF row \in DOMAIN messages THEN q[row].body = messages[row].body ELSE q[row].body = b
  BY <1>1, QueuedBody
<1>4. RowFits(c, k, row)
  BY <1>1, QueuedRowFits
<1>5. ASSUME NEW m \in DOMAIN messages'
      PROVE  CarriesOn(m) \/ (m = row /\ Says(m, c, k, b))
  <2>1. CASE m \in DOMAIN messages /\ m # row
    BY <1>2, <2>1 DEF WritesRow, CarriesOn
  <2>2. CASE m = row /\ row \in DOMAIN messages
    BY <1>2, <1>3, <1>4, <2>2 DEF WritesRow, CarriesOn, RowFits
  <2>3. CASE m = row /\ row \notin DOMAIN messages
    BY <1>1, <1>2, <1>3, <2>3 DEF WritesRow, Says
  <2> QED  BY <1>2, <2>1, <2>2, <2>3 DEF WritesRow
<1> QED  BY <1>5, RowsCarryOn

LEMMA AcceptPayload == ASSUME IInv, OnePayload, Accept PROVE OnePayload'
<1>1. PICK c \in Conversation, k \in Key, b \in Body :
        ControllerEvent(c, k, b) \/ PumpEvent(c, k, b)
  BY DEF Accept
<1>2. PICK p \in 0..2 : Enqueue(c, k, b, p) \/ Steer(c, k, b, p)
  BY <1>1 DEF ControllerEvent, PumpEvent, QUEUE_PRIORITY, STEER_PRIORITY
<1>3. PICK q, row : q = Queued(c, k, b, p) /\ row = QueuedRow(c, k)
  OBVIOUS
<1>4. CASE Enqueue(c, k, b, p)
  BY <1>3, <1>4, EventPayload DEF Enqueue
<1>5. ASSUME NEW t \in 1..lastTurn, SteerTurn(c, k, b, p, t) PROVE OnePayload'
  <2>1. Accepts(c, k, b) /\ ~Suppressed(c, k)
    BY <1>5 DEF SteerTurn, Accepts
  <2>2. WritesRow(q, c, k, row)
    BY <1>3, <2>1, QueuedRows
  <2>3. PICK position : messages' = [q EXCEPT ![row].turn = t, ![row].position = position]
    BY <1>3, <1>5 DEF SteerTurn
  <2>4. q[row] \in Message /\ row \in DOMAIN q
    BY <2>2 DEF WritesRow
  <2>5. /\ DOMAIN messages' = DOMAIN q
        /\ \A m \in DOMAIN q : m # row => messages'[m] = q[m]
        /\ messages'[row] = [q[row] EXCEPT !.turn = t, !.position = position]
    BY <2>2, <2>3, <2>4 DEF WritesRow, Message
  <2>6. /\ messages'[row].conv = q[row].conv /\ messages'[row].key = q[row].key
        /\ messages'[row].body = q[row].body
    BY <2>4, <2>5 DEF Message
  <2>7. \A m \in DOMAIN q : /\ messages'[m].conv = q[m].conv /\ messages'[m].key = q[m].key
                            /\ messages'[m].body = q[m].body
    BY <2>5, <2>6
  <2>8. DOMAIN messages' = DOMAIN q
    BY <2>5
  <2> QED  BY <1>3, <2>1, <2>7, <2>8, EventPayload
<1> QED  BY <1>2, <1>4, <1>5 DEF Steer, SteerQueue

\* The copies recovery makes carry on the rows of the turn it supersedes.
LEMMA ResetPayload ==
  ASSUME IInv, OnePayload, NEW t \in 1..lastTurn, ResetTurn(t)
  PROVE  OnePayload'
<1> DEFINE copies == {Copy(m) : m \in Events(t)}
           source(r) == CHOOSE m \in Events(t) : r = Copy(m)
           heir(y) == [messages[source(y)] EXCEPT !.state = "pending", !.turn = lastTurn']
<1>1. messages' = [x \in DOMAIN messages \cup copies |->
                     IF x \in DOMAIN messages THEN messages[x] ELSE heir(x)]
  BY Zenon DEF ResetTurn, Copied, Copy
<1>2. ASSUME NEW r \in copies
      PROVE  /\ source(r) \in DOMAIN messages
             /\ heir(r).conv = messages[source(r)].conv
             /\ heir(r).key = messages[source(r)].key
             /\ heir(r).body = messages[source(r)].body
  <2>1. source(r) \in Events(t)
    OBVIOUS
  <2> HIDE DEF source
  <2>2. source(r) \in DOMAIN messages
    BY <2>1 DEF Events
  <2>3. messages[source(r)] \in Message
    BY <2>2 DEF IInv, TypeOK
  <2> QED  BY <2>2, <2>3 DEF Message
<1> HIDE DEF copies, heir, source
<1>3. ASSUME NEW r \in DOMAIN messages' PROVE CarriesOn(r)
  <2>1. CASE r \in DOMAIN messages
    <3>1. messages'[r] = messages[r]
      BY <1>1, <2>1
    <3> QED  BY <2>1, <3>1 DEF CarriesOn
  <2>2. CASE r \notin DOMAIN messages
    <3>1. r \in copies /\ messages'[r] = heir(r)
      BY <1>1, <2>2
    <3> QED  BY <1>2, <3>1 DEF CarriesOn
  <2> QED  BY <2>1, <2>2
<1> QED  BY <1>3, RowsCarryOn

LEMMA NextTurnPayload ==
  ASSUME IInv, OnePayload, NEW c \in Conversation, NextTurn(c)
  PROVE  OnePayload'
<1> DEFINE batch == Batch(c)
           bound(m) == [messages[m] EXCEPT !.turn = lastTurn',
                                           !.position = Cardinality(Ahead(c, m)) + 1]
<1>1. messages' = [m \in DOMAIN messages |-> IF m \in batch THEN bound(m) ELSE messages[m]]
  BY Zenon DEF NextTurn
<1>2. ASSUME NEW m \in DOMAIN messages
      PROVE  /\ bound(m).conv = messages[m].conv /\ bound(m).key = messages[m].key
             /\ bound(m).body = messages[m].body
  <2>1. messages[m] \in Message
    BY DEF IInv, TypeOK
  <2> QED  BY <2>1 DEF Message
<1> HIDE DEF batch, bound
<1>3. ASSUME NEW m \in DOMAIN messages
      PROVE  /\ messages'[m].conv = messages[m].conv /\ messages'[m].key = messages[m].key
             /\ messages'[m].body = messages[m].body
  BY <1>1, <1>2
<1>4. DOMAIN messages' = DOMAIN messages
  BY <1>1
<1> QED  BY <1>3, <1>4, SameRowsCarryOn

LEMMA RecordPayload ==
  ASSUME IInv, OnePayload, NEW t \in 1..lastTurn,
         (\E m \in Events(t) : RecordDelivered(m)) \/ RecordProcessed(t)
  PROVE  OnePayload'
<1>t. messages \in [DOMAIN messages -> Message]
  BY DEF IInv, TypeOK
<1>1. ASSUME NEW m \in Events(t), RecordDelivered(m) PROVE OnePayload'
  <2>1. /\ messages' = [messages EXCEPT ![m].state = "delivered"]
        /\ m \in DOMAIN messages /\ messages[m] \in Message
    BY <1>1, <1>t DEF RecordDelivered, Events
  <2>2. /\ DOMAIN messages' = DOMAIN messages
        /\ \A n \in DOMAIN messages : n # m => messages'[n] = messages[n]
        /\ messages'[m] = [messages[m] EXCEPT !.state = "delivered"]
    BY <2>1
  <2>3. /\ messages'[m].conv = messages[m].conv /\ messages'[m].key = messages[m].key
        /\ messages'[m].body = messages[m].body
    BY <2>1, <2>2 DEF Message
  <2> QED  BY <2>2, <2>3, SameRowsCarryOn
<1>2. CASE RecordProcessed(t)
  <2>1. DOMAIN messages' = DOMAIN messages
    BY <1>2 DEF RecordProcessed
  <2>2. ASSUME NEW m \in DOMAIN messages
        PROVE  /\ messages'[m].conv = messages[m].conv /\ messages'[m].key = messages[m].key
               /\ messages'[m].body = messages[m].body
    <3>1. \/ messages'[m] = messages[m]
          \/ messages'[m] = [messages[m] EXCEPT !.state = "processed"]
      BY <1>2 DEF RecordProcessed
    <3>2. messages[m] \in Message
      BY <1>t
    <3> QED  BY <3>1, <3>2 DEF Message
  <2> QED  BY <2>1, <2>2, SameRowsCarryOn
<1> QED  BY <1>1, <1>2

LEMMA NextPayload == IInv /\ OnePayload /\ [Next]_vars => OnePayload'
<1> SUFFICES ASSUME IInv, OnePayload, [Next]_vars PROVE OnePayload'
  OBVIOUS
<1>0. ASSUME UNCHANGED messages PROVE OnePayload'
  BY <1>0, SameRowsCarryOn
<1>1. CASE Accept
  BY <1>1, AcceptPayload
<1>2. CASE Retract
  <2>1. PICK gone : messages' = [m \in DOMAIN messages \ gone |-> messages[m]]
    BY <1>2 DEF Retract, RetractPendingPrefix
  <2>2. DOMAIN messages' \subseteq DOMAIN messages
        /\ \A m \in DOMAIN messages' : messages'[m] = messages[m]
    BY <2>1
  <2> QED  BY <2>2, SameRowsCarryOn
<1>3. ASSUME NEW c \in Conversation, NextTurn(c) PROVE OnePayload'
  BY <1>3, NextTurnPayload
<1>4. ASSUME NEW t \in 1..lastTurn, Running(t), Work(t) PROVE OnePayload'
  <2>1. CASE \/ RecordPromptDelivered(t) \/ RecordContextReset(t) \/ Attempt(t)
             \/ DeferProviderRetry(t) \/ Quarantine(t)
             \/ \E e \in Progress : RecordProgress(t, e)
    BY <1>0, <2>1 DEF RecordPromptDelivered, RecordContextReset, Attempt,
       RecordInferenceAttempt, DeferProviderRetry, Quarantine, RecordProgress
  <2>2. CASE ResetTurn(t)
    BY <2>2, ResetPayload
  <2>3. CASE (\E m \in Events(t) : RecordDelivered(m)) \/ RecordProcessed(t)
    BY <2>3, RecordPayload
  <2> QED  BY <1>4, <2>1, <2>2, <2>3 DEF Work, Deliver, RecoverTurn
<1>5. ASSUME NEW t \in ProcessedTurns, Acknowledge(t) PROVE OnePayload'
  BY <1>0, <1>5 DEF Acknowledge
<1>6. CASE ClearProviderCooldown
  BY <1>0, <1>6 DEF ClearProviderCooldown
<1>7. CASE UNCHANGED vars
  BY <1>0, <1>7 DEF vars
<1> QED  BY <1>1, <1>2, <1>3, <1>4, <1>5, <1>6, <1>7 DEF Next

\* A key names one payload in a conversation, and a human's in all of them, for as long
\* as any row of it is kept: re-polls, steering and recovery never rewrite what an event
\* said.
THEOREM InboxOnePayload == Spec => []OnePayload
<1>1. Init => OnePayload
  BY DEF Init, OnePayload
<1> QED  BY <1>1, NextPayload, InboxInvariant, PTL DEF Spec

-----------------------------------------------------------------------------
\* What AttemptsBounded says of one turn.
Within(turn) == turn.stalled <= MaxStalled /\ turn.attempts <= MaxAttempts

\* _refresh_turn_state does not touch the counters of a turn.
LEMMA RefreshedWithin ==
  ASSUME NEW ms, NEW ts \in [1..lastTurn -> Turn], NEW t \in 1..lastTurn,
         \A s \in 1..lastTurn : Within(ts[s])
  PROVE  \A s \in 1..lastTurn : Within(Refreshed(ms, ts, t)[s])
<1>1. CASE Refreshed(ms, ts, t) = ts
  BY <1>1
<1>2. CASE Refreshed(ms, ts, t) = [ts EXCEPT ![t].state = "delivered"]
  <2> DEFINE us == [ts EXCEPT ![t].state = "delivered"]
  <2>1. ts[t] \in Turn
    OBVIOUS
  <2>2. /\ us[t] = [ts[t] EXCEPT !.state = "delivered"]
        /\ \A s \in 1..lastTurn : s # t => us[s] = ts[s]
    OBVIOUS
  <2>3. us[t].stalled = ts[t].stalled /\ us[t].attempts = ts[t].attempts
    BY <2>1, <2>2 DEF Turn
  <2> QED  BY <1>2, <2>2, <2>3 DEF Within
<1> QED  BY <1>1, <1>2 DEF Refreshed

LEMMA AcceptWithin ==
  ASSUME IInv, AttemptsBounded, Accept
  PROVE  AttemptsBounded'
<1>1. PICK c \in Conversation, k \in Key, b \in Body :
        ControllerEvent(c, k, b) \/ PumpEvent(c, k, b)
  BY DEF Accept
<1>2. PICK p \in 0..2 : Enqueue(c, k, b, p) \/ Steer(c, k, b, p)
  BY <1>1 DEF ControllerEvent, PumpEvent, QUEUE_PRIORITY, STEER_PRIORITY
<1>3. CASE Enqueue(c, k, b, p)
  BY <1>3 DEF Enqueue, AttemptsBounded
<1>4. ASSUME NEW t \in 1..lastTurn, SteerTurn(c, k, b, p, t) PROVE AttemptsBounded'
  <2>1. turns' = Refreshed(messages', Steered(t, p), t) /\ UNCHANGED lastTurn
    BY <1>4 DEF SteerTurn
  <2>2. turns \in [1..lastTurn -> Turn] /\ turns[t] \in Turn
    BY DEF IInv, TypeOK
  <2>3. /\ Steered(t, p) \in [1..lastTurn -> Turn]
        /\ \A s \in 1..lastTurn : s # t => Steered(t, p)[s] = turns[s]
        /\ \/ Steered(t, p)[t] = turns[t]
           \/ Steered(t, p)[t].stalled = 0 /\ Steered(t, p)[t].attempts = 0
    BY <2>2 DEF Steered, Turn
  <2>4. 0 <= MaxStalled /\ 0 <= MaxAttempts
    BY InboxAssumption
  <2>5. \A s \in 1..lastTurn : Within(Steered(t, p)[s])
    BY <2>3, <2>4 DEF Within, AttemptsBounded
  <2>6. PICK ts \in [1..lastTurn -> Turn] : ts = Steered(t, p)
    BY <2>3
  <2>7. \A s \in 1..lastTurn : Within(turns'[s])
    BY <2>1, <2>5, <2>6, RefreshedWithin
  <2> QED  BY <2>1, <2>7 DEF Within, AttemptsBounded
<1> QED  BY <1>2, <1>3, <1>4 DEF Steer, SteerQueue

\* A step on one turn leaves it within its budgets.
LEMMA WorkWithin ==
  ASSUME IInv, AttemptsBounded, NEW t \in 1..lastTurn, Running(t), Work(t)
  PROVE  AttemptsBounded'
<1>0. /\ turns \in [1..lastTurn -> Turn] /\ turns[t] \in Turn
      /\ turns[t].stalled \in Nat /\ turns[t].attempts \in Nat
      /\ MaxStalled \in Nat \ {0} /\ MaxAttempts \in Nat \ {0}
      /\ \A s \in 1..lastTurn : Within(turns[s])
  BY InboxAssumption DEF IInv, TypeOK, Turn, AttemptsBounded, Within
<1>1. ASSUME UNCHANGED lastTurn, \A s \in 1..lastTurn : s # t => turns'[s] = turns[s],
             Within(turns'[t])
      PROVE  AttemptsBounded'
  BY <1>0, <1>1 DEF AttemptsBounded, Within
<1>2. CASE RecordPromptDelivered(t)
  <2>1. PICK ts : ts = [turns EXCEPT ![t].prompt = "delivered"]
    OBVIOUS
  <2>2. /\ ts \in [1..lastTurn -> Turn] /\ \A s \in 1..lastTurn : s # t => ts[s] = turns[s]
        /\ ts[t].stalled = turns[t].stalled /\ ts[t].attempts = turns[t].attempts
    BY <1>0, <2>1 DEF Turn, DeliveryState
  <2>3. \A s \in 1..lastTurn : Within(ts[s])
    BY <1>0, <2>2 DEF Within
  <2>4. turns' = Refreshed(messages, ts, t) /\ UNCHANGED lastTurn
    BY <1>2, <2>1 DEF RecordPromptDelivered
  <2>5. \A s \in 1..lastTurn : Within(turns'[s])
    BY <2>2, <2>3, <2>4, RefreshedWithin
  <2> QED  BY <2>4, <2>5 DEF Within, AttemptsBounded
<1>3. ASSUME NEW m \in Events(t), RecordDelivered(m) PROVE AttemptsBounded'
  <2>1. turns' = Refreshed(messages', turns, t) /\ UNCHANGED lastTurn
    BY <1>3 DEF RecordDelivered, Events
  <2>2. \A s \in 1..lastTurn : Within(turns'[s])
    BY <1>0, <2>1, RefreshedWithin
  <2> QED  BY <2>1, <2>2 DEF Within, AttemptsBounded
<1>4. CASE RecordContextReset(t)
  BY <1>0, <1>1, <1>4 DEF RecordContextReset, Turn, Within
<1>5. ASSUME NEW e \in Progress, RecordProgress(t, e) PROVE AttemptsBounded'
  BY <1>0, <1>1, <1>5 DEF RecordProgress, Turn, Within
<1>6. CASE Attempt(t)
  <2>1. turns[t].state = "delivered" /\ turns[t].supersededBy = NoTurn /\ ~turns[t].quarantined
    BY <1>6 DEF Attempt, RecordInferenceAttempt, Running, Open
  <2>2. turns[t].stalled + 1 <= MaxStalled /\ turns[t].attempts + 1 <= MaxAttempts
    BY <1>0, <1>6, <2>1 DEF Attempt, TerminalRecoveryDue
  <2> QED  BY <1>0, <1>1, <1>6, <2>2 DEF Attempt, RecordInferenceAttempt, Turn, Within
<1>7. CASE DeferProviderRetry(t)
  <2>1. /\ Decrement(turns[t].stalled) <= turns[t].stalled
        /\ Decrement(turns[t].attempts) <= turns[t].attempts
        /\ Decrement(turns[t].stalled) \in Nat /\ Decrement(turns[t].attempts) \in Nat
    BY <1>0 DEF Decrement
  <2>2. /\ turns'[t].stalled = Decrement(turns[t].stalled)
        /\ turns'[t].attempts = Decrement(turns[t].attempts)
        /\ \A s \in 1..lastTurn : s # t => turns'[s] = turns[s]
        /\ UNCHANGED lastTurn
    BY <1>0, <1>7 DEF DeferProviderRetry, Turn
  <2>3. turns[t].stalled <= MaxStalled /\ turns[t].attempts <= MaxAttempts
    BY DEF AttemptsBounded
  <2>4. Within(turns'[t])
    BY <1>0, <2>1, <2>2, <2>3 DEF Within
  <2> QED  BY <1>1, <2>2, <2>4
<1>8. CASE Quarantine(t)
  BY <1>0, <1>1, <1>8 DEF Quarantine, Turn, Within
<1>9. CASE ResetTurn(t)
  <2>1. PICK new : new = lastTurn + 1
    OBVIOUS
  <2>2. /\ turns'[new] = NewTurn(turns[t].conv, t, turns[t].generation + 1)
        /\ turns'[t] = [turns[t] EXCEPT !.supersededBy = new]
        /\ \A s \in 1..lastTurn \ {t} : turns'[s] = turns[s]
    BY <1>9, <2>1, ResetTurns
  <2>3. lastTurn' = new /\ lastTurn \in Nat
    BY <1>9, <2>1 DEF ResetTurn, IInv, TypeOK
  <2>4. Within(turns'[new]) /\ Within(turns'[t])
    BY <1>0, <2>2 DEF NewTurn, Within, Turn
  <2>5. \A s \in 1..new : Within(turns'[s])
    BY <1>0, <2>1, <2>2, <2>3, <2>4
  <2> QED  BY <2>3, <2>5 DEF AttemptsBounded, Within
<1>10. CASE RecordProcessed(t)
  BY <1>0, <1>1, <1>10 DEF RecordProcessed, Turn, Within
<1> QED
  BY <1>2, <1>3, <1>4, <1>5, <1>6, <1>7, <1>8, <1>9, <1>10 DEF Work, Deliver, RecoverTurn

LEMMA NextWithin == IInv /\ AttemptsBounded /\ [Next]_vars => AttemptsBounded'
<1> SUFFICES ASSUME IInv, AttemptsBounded, [Next]_vars PROVE AttemptsBounded'
  OBVIOUS
<1>0. ASSUME UNCHANGED <<turns, lastTurn>> PROVE AttemptsBounded'
  BY <1>0 DEF AttemptsBounded
<1>1. CASE Accept
  BY <1>1, AcceptWithin
<1>2. CASE Retract \/ ClearProviderCooldown \/ UNCHANGED vars
  BY <1>0, <1>2 DEF Retract, RetractPendingPrefix, ClearProviderCooldown, vars
<1>3. ASSUME NEW c \in Conversation, NextTurn(c) PROVE AttemptsBounded'
  <2>1. PICK new : new = lastTurn + 1
    OBVIOUS
  <2>2. /\ turns'[new] = NewTurn(c, NoTurn, 0)
        /\ \A s \in 1..lastTurn : turns'[s] = turns[s]
    BY <1>3, <2>1, NextTurnRows
  <2>3. lastTurn' = new /\ lastTurn \in Nat
    BY <1>3, <2>1 DEF NextTurn, IInv, TypeOK
  <2>4. turns'[new].stalled <= MaxStalled /\ turns'[new].attempts <= MaxAttempts
    BY <2>2, InboxAssumption DEF NewTurn
  <2>5. \A s \in 1..new : turns'[s].stalled <= MaxStalled /\ turns'[s].attempts <= MaxAttempts
    BY <2>1, <2>2, <2>3, <2>4 DEF AttemptsBounded
  <2> QED  BY <2>3, <2>5 DEF AttemptsBounded
<1>4. ASSUME NEW t \in 1..lastTurn, Running(t), Work(t) PROVE AttemptsBounded'
  BY <1>4, WorkWithin
<1>5. ASSUME NEW t \in ProcessedTurns, Acknowledge(t) PROVE AttemptsBounded'
  <2>1. /\ turns \in [1..lastTurn -> Turn] /\ t \in 1..lastTurn /\ turns[t] \in Turn
        /\ turns' = [turns EXCEPT ![t].acknowledged = TRUE] /\ UNCHANGED lastTurn
    BY <1>5 DEF IInv, TypeOK, ProcessedTurns, Acknowledge
  <2>2. \A s \in 1..lastTurn : /\ turns'[s].stalled = turns[s].stalled
                               /\ turns'[s].attempts = turns[s].attempts
    BY <2>1 DEF Turn
  <2> QED  BY <2>1, <2>2 DEF AttemptsBounded
<1> QED  BY <1>1, <1>2, <1>3, <1>4, <1>5 DEF Next

\* No turn is run past its budgets, whatever steering, progress, deferrals and recovery
\* did to the two counters that bound them.
THEOREM InboxAttemptsBounded == Spec => []AttemptsBounded
<1>1. Init => AttemptsBounded
  BY DEF Init, AttemptsBounded
<1> QED  BY <1>1, NextWithin, InboxInvariant, PTL DEF Spec

=============================================================================
