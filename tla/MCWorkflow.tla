----------------------------- MODULE MCWorkflow -----------------------------
(***************************************************************************)
(* Small instances of AssignmentWorkflow.  A behaviour has one of the      *)
(* scopes: which pull requests there are and are made already, the largest *)
(* revision, base, head and text, how many requests may be lost or cut     *)
(* off, whether GitHub's pull request lags behind its branch, and which    *)
(* operations are called.                                                  *)
(***************************************************************************)
EXTENDS AssignmentWorkflow

Bounds(pullRequests, made, revs, bases, heads, texts, lost, lags, ops) ==
  [pulls |-> pullRequests, issues |-> {}, made |-> made,
   revs |-> revs, bases |-> bases, heads |-> heads, texts |-> texts,
   faults |-> lost, lags |-> lags, ops |-> ops]

\* A submission races a request for a revision and repairs.
Race == Bounds({1}, {1}, 2, 1, 2, 1, 0, FALSE, {"submit", "revise", "repair"})
\* The base moves; the advisor decides about a result while the student goes on.
Decide == Bounds({1}, {1}, 2, 2, 2, 1, 0, FALSE, {"submit", "revise", "accept", "merge"})
\* Two results compete; lost requests and a lagging pull request.
Loss == Bounds({1}, {1}, 1, 2, 2, 2, 1, TRUE, {"submit", "accept", "merge", "close"})
\* Two assignments are created for one student, with lost requests.
Create == Bounds({1, 2}, {}, 2, 2, 1, 1, 2, FALSE, {"create", "revise", "close"})
\* Messages while revisions change.
Talk == Bounds({1}, {1}, 2, 1, 1, 2, 1, FALSE, {"message", "revise"})
\* Both roles answer two messages of one issue, and change their minds.
Answer == [Bounds({}, {}, 1, 1, 2, 2, 2, FALSE, {"answer"}) EXCEPT !.issues = {1}]

AllScopes == {Race, Decide, Loss, Create, Talk, Answer}
\* A creation is cut off, another one is made, and the first is repaired.
RepairScope == {Bounds({1, 2}, {}, 1, 1, 1, 1, 1, FALSE, {"create", "repair"})}
RaceScope == {[Race EXCEPT !.ops = {"submit", "revise"}]}
=============================================================================
