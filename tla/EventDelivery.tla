--------------------------- MODULE EventDelivery ---------------------------
(***************************************************************************)
(* What Senpai promises of an event put in the local event store: it is    *)
(* posted, held by the worker until a model turn has dealt with it, and    *)
(* answered once.                                                          *)
(***************************************************************************)
EXTENDS Naturals

CONSTANT Key

VARIABLES
    posted,     \* keys ever put in the event store
    held,       \* keys the inbox has accepted and not answered
    answers     \* key -> how many acknowledged turns dealt with it

eventVars == <<posted, held, answers>>

EventInit ==
    /\ posted = {} /\ held = {}
    /\ answers = [k \in Key |-> 0]

Post(k) ==
    /\ k \notin posted /\ posted' = posted \cup {k}
    /\ UNCHANGED <<held, answers>>

Hold(k) ==
    /\ k \in posted \ held /\ answers[k] = 0
    /\ held' = held \cup {k}
    /\ UNCHANGED <<posted, answers>>

\* A turn answers the keys bound to it together.
Answer(S) ==
    /\ S # {} /\ S \subseteq held
    /\ held' = held \ S
    /\ answers' = [k \in Key |-> IF k \in S THEN answers[k] + 1 ELSE answers[k]]
    /\ UNCHANGED posted

EventNext ==
    \/ \E k \in Key : Post(k) \/ Hold(k)
    \/ \E S \in SUBSET Key : Answer(S)

EventSpec == EventInit /\ [][EventNext]_eventVars
=============================================================================
