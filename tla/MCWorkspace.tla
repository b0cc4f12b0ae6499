---------------------------- MODULE MCWorkspace ----------------------------
(* StudentWorkspace within small bounds, one aspect at a time.             *)
EXTENDS StudentWorkspace

Small == [assignments |-> {1}, revs |-> 1, changes |-> 0, work |-> 0, feedback |-> 0,
          waiting |-> 1, deaths |-> 0, helpers |-> FALSE]

\* Heads that move here and there, with feedback, or with a death of the controller.
Heads == [Small EXCEPT !.changes = 1, !.feedback = 1]
Crash == [Small EXCEPT !.changes = 1, !.deaths = 1]
\* Uncommitted work, a helper's too.
Work == [Small EXCEPT !.work = 2, !.feedback = 1, !.deaths = 1, !.helpers = TRUE]
\* Heads and uncommitted work.
Both == [Small EXCEPT !.changes = 1, !.work = 1]
\* The next assignment.
Two == [Small EXCEPT !.assignments = {1, 2}, !.work = 1, !.deaths = 1, !.helpers = TRUE]
\* A revision, with feedback on the one before.
Revised == [Small EXCEPT !.revs = 2, !.work = 1, !.feedback = 1, !.deaths = 1]

MCScopes == {Heads, Crash, Work, Both, Two, Revised}

\* The next assignment, and nothing else.
MCTurnScopes == {[Small EXCEPT !.assignments = {1, 2}]}
=============================================================================
