---------------------------- MODULE MCDelegation ----------------------------
(* Instances of Delegation for TLC: A and B are one batch of the root, C    *)
(* another, and H is a helper C may ask for.                                *)
EXTENDS Delegation, TLC

CONSTANTS A, B, C, H, a, c, h

MCParent == [t \in Task |-> IF t = H THEN C ELSE Root]
MCBatchOf == [t \in Task |-> CASE t \in {A, B} -> a [] t = C -> c [] OTHER -> h]

\* A task and its helper, from the first call to the last, and a restart of the worker.
Helping == [tasks |-> {C, H}, tree |-> 2, parallel |-> 2, crashes |-> 1, deaths |-> 0,
            cuts |-> 0]
\* Batches that compete for two places, with a death in the middle of a section.
Batches == [tasks |-> {A, B, C}, tree |-> 2, parallel |-> 2, crashes |-> 1, deaths |-> 0,
            cuts |-> 1]
\* One task, whose process may die.
Dying == [tasks |-> Task, tree |-> 1, parallel |-> 1, crashes |-> 0, deaths |-> 1, cuts |-> 0]
\* One task and a death of the worker in the middle of a section.
Cutting == [tasks |-> Task, tree |-> 1, parallel |-> 1, crashes |-> 1, deaths |-> 0, cuts |-> 1]

MCScopes == {Helping, Batches}
MCDying == {Dying}
MCCutting == {Cutting}

\* Of batches only the launch is followed: nothing is awaited or cancelled yet, no child
\* has ended its work, no deadline has passed, no event is taken.
Launching ==
    scope.cuts = 0 \/
    \A t \in Task : /\ ~expired[t] /\ awaiting[Root] = {} /\ status[t] # "cancelled"
                   /\ proc[t] \in {"none", "working", "dead"} /\ event[t] # "acked"

\* And after a restart no deadline passes when a helper was asked for.
Followed == Launching /\ (crashes = 1 /\ H \in Rows => \A t \in Task : ~expired[t])
=============================================================================
