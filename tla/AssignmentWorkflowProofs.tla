---------------------- MODULE AssignmentWorkflowProofs ----------------------
(***************************************************************************)
(* The invariants of the assignment workflow, for every scope: any number  *)
(* of pull requests, issues, revisions, commits and lost requests.         *)
(*                                                                         *)
(* GitInv is about GitHub, CallInv about what a worker has read there and  *)
(* still relies on while the other worker and the surroundings go on.      *)
(* First come the reads, which only have to leave a call that fits what    *)
(* GitHub shows (OnlyReads, ReadsKeep); then the writes, by what they      *)
(* leave of the other worker's call: those that change neither revisions   *)
(* nor bases (SteadyKeeps), a new revision or pull request (RenewalKeeps), *)
(* a comment, and a merge.                                                 *)
(*                                                                         *)
(* RInv, in the second half, is about draft states and labels as long as   *)
(* nothing was lost.  It says what a pull request shows once the requests  *)
(* that its operation still owes are done, and what the two operations     *)
(* that may set its routing at the same time, a submission and a request   *)
(* for a revision, leave each other: every read of either is a step that   *)
(* keeps it, and so is every write.                                        *)
(***************************************************************************)
EXTENDS AssignmentWorkflow, FiniteSetTheorems, TLAPS

\* The requests of each operation.
RoutingSteps == {"draft", "add", "remove"}
ReconcileSteps ==
  {"reconcile", "reconcileResult", "recheck", "recheckResult", "settle", "settleResult"}
UpsertSteps == {"find", "post", "verifyPost"}
MergeSteps ==
  {"mergeResult", "mergeBase", "mergeAcceptance", "mergeBaseAgain", "mergeResultAgain", "put"}
StepsOf(op) ==
  CASE op = "submit" -> {"push", "submitBefore", "stillCurrent", "submitCurrent", "submitAfter"}
                        \cup UpsertSteps \cup RoutingSteps \cup ReconcileSteps
    [] op = "revise" -> {"requiredBase", "appliedResult", "reviseConflicts", "patch", "patched"}
                        \cup UpsertSteps \cup RoutingSteps \cup ReconcileSteps
    [] op = "accept" -> {"acceptResult", "acceptBase"} \cup UpsertSteps
    [] op = "merge" -> MergeSteps
    [] op = "close" -> {"close", "closed"} \cup UpsertSteps
    [] op = "create" -> {"createConflicts", "createPull", "created", "routed"} \cup RoutingSteps
    [] op = "repair" -> {"repairResult", "routed"} \cup RoutingSteps
    [] op = "message" -> UpsertSteps
    [] op = "answer" -> {"edit"} \cup UpsertSteps
    [] OTHER -> {}

\* The worker, the fields and the mark of each operation.
Fields(call, fields) == fields \subseteq DOMAIN call
ShapeOf(p, call) ==
  /\ Fields(call, {"op", "n"}) /\ call.op \in scope.ops /\ call.at \in StepsOf(call.op)
  /\ call.n \in IF call.op = "answer" THEN scope.issues ELSE Pulls
  /\ call.op \in {"revise", "accept", "merge", "close", "create", "repair"} => p = "advisor"
  /\ call.op \notin {"message", "answer"} => Fields(call, {"rev", "head"})
  /\ call.op = "submit" =>
       /\ p = "student" /\ Fields(call, {"text", "mark"})
       /\ call.mark = [kind |-> "result", rev |-> call.rev, head |-> call.head]
  /\ call.op = "revise" =>
       Fields(call, {"text", "mark", "base", "new"}) /\ call.mark.kind = "revision"
  /\ call.op = "accept" =>
       /\ Fields(call, {"evaluated", "base"})
       /\ call.at # "acceptResult" => Fields(call, {"text", "mark"}) /\ call.mark.kind = "acceptance"
  /\ call.op = "merge" =>
       Fields(call, {"evaluated", "base"}) /\ (call.at # "mergeResult" => Fields(call, {"text"}))
  /\ call.op = "close" => Fields(call, {"text", "mark"}) /\ call.mark.kind = "closed"
  /\ call.op = "create" => Fields(call, {"base"})
  /\ call.op \in {"message", "answer"} => Fields(call, {"text", "mark"}) /\ call.mark.kind = p

\* A change of routing returns to its operation.
RoutingShape(call) ==
  call.at \in RoutingSteps =>
    /\ Fields(call, {"turn", "draft", "add", "remove", "then"})
    /\ call.then \in StepsOf(call.op)
    /\ call.then \in {"submitAfter", "recheck", "settle", "routed"}

\* A result contains the base its revision requires.
ContainsRequired(n, rev, head) ==
  /\ pulls[n].state # "none" /\ rev \in Nat /\ rev <= pulls[n].rev
  /\ head \in 1..Len(commits[n])
  /\ rev = pulls[n].rev => commits[n][head] >= pulls[n].base

\* What a worker has seen and still relies on.  Nothing carries the mark that
\* it is about to post.
Unposted(call) ==
  call.at \in {"stillCurrent", "post"} => \A c \in comments[call.n] : c.mark # call.mark
Building(call) == call.op = "submit" => ContainsRequired(call.n, call.rev, call.head)
Creating(call) ==
  call.op = "create" =>
    /\ branch[call.n] # 0 /\ call.base \in Nat
    /\ call.at = "createPull" => pulls[call.n].state = "none"
Existing(call) == call.op \in {"revise", "close"} => pulls[call.n].state # "none"
Revising(call) ==
  call.op = "revise" =>
    /\ call.new \in Nat /\ call.base \in Nat
    /\ call.at \in {"requiredBase", "appliedResult", "reviseConflicts"} =>
         call.new >= pulls[call.n].rev
    /\ call.at = "patch" => call.new > pulls[call.n].rev
BindsBases(call) == call.evaluated = call.base \/ Accepted(call)
Merging(call) ==
  call.op = "merge" =>
    /\ pulls[call.n].rev = call.rev /\ pulls[call.n].base = call.evaluated
    /\ call.at \in {"mergeBaseAgain", "mergeResultAgain", "put"} => BindsBases(call)
    /\ call.at = "put" => Results(call.n, call.rev, call.head) = {call.text}
Apart == scope.ops \cap {"submit", "repair"} = {}
EarlySteps == {"createConflicts", "requiredBase", "appliedResult", "reviseConflicts"}
Alone(call) ==
  Apart /\ call.op \in {"create", "revise"} /\ call.at \notin EarlySteps => Conflicts(call.n) = {}

CallInv(p, call) ==
  /\ "at" \in DOMAIN call
  /\ call.at # "idle" =>
       /\ ShapeOf(p, call) /\ RoutingShape(call)
       /\ Unposted(call) /\ Building(call) /\ Creating(call) /\ Existing(call)
       /\ Revising(call) /\ Merging(call) /\ Alone(call)

\* Pull requests, comments, branches and commits.
PullShape(n) ==
  /\ pulls[n] = [state |-> pulls[n].state, rev |-> pulls[n].rev, base |-> pulls[n].base,
                 head |-> pulls[n].head, draft |-> pulls[n].draft, labels |-> pulls[n].labels]
  /\ pulls[n].rev \in Nat /\ pulls[n].base \in Nat
CommentShape(c) == c = [mark |-> c.mark, text |-> c.text, copy |-> c.copy]
Types ==
  /\ scope \in Scopes /\ live \in Nat /\ given \subseteq Pulls
  /\ DOMAIN pulls = Pulls /\ \A n \in Pulls : PullShape(n)
  /\ DOMAIN comments = Pulls \cup scope.issues
  /\ \A n \in DOMAIN comments : \A c \in comments[n] : CommentShape(c)
  /\ branch \in [Pulls -> Nat] /\ commits \in [Pulls -> Seq(Nat)]
  /\ DOMAIN merges = Pulls /\ DOMAIN w = Workers

\* A pull request is opened for a branch, and a branch is made of commits.
BranchFirst ==
  \A n \in Pulls : /\ branch[n] = 0 <=> commits[n] = <<>>
                   /\ pulls[n].state # "none" \/ n \in given => branch[n] # 0

ResultsBuilt ==
  \A n \in Pulls : \A c \in comments[n] :
    c.mark.kind = "result" =>
      /\ c.mark = [kind |-> "result", rev |-> c.mark.rev, head |-> c.mark.head]
      /\ ContainsRequired(n, c.mark.rev, c.mark.head)

\* MergeIsBacked, with what it needs to stay so.
Backed(n, m) ==
  /\ m.head \in 1..Len(commits[n])
  /\ \E text \in Results(n, m.rev, m.head) : Results(n, m.rev, m.head) = {text}
  /\ commits[n][m.head] >= m.required
  /\ \/ m.required = m.named
     \/ \E c \in comments[n], text \in Results(n, m.rev, m.head) :
          c.mark = AcceptanceMark([rev |-> m.rev, head |-> m.head,
                                   evaluated |-> m.required, base |-> m.named], text)
MergesBacked == \A n \in Pulls : merges[n] # NotMerged => Backed(n, merges[n])

OneActive ==
  Apart => /\ \A n, m \in Pulls : IsActive(n) /\ IsActive(m) => n = m
           /\ \A n \in Pulls : \A c \in comments[n] : c.mark.kind # "result"

GitInv ==
  /\ Types /\ BranchFirst /\ OneCommentPerMark /\ ResultsBuilt /\ MergesBacked /\ OneActive

IInv == GitInv /\ \A p \in Workers : CallInv(p, w[p])

-----------------------------------------------------------------------------
(* How a call goes on.                                                     *)

\* What a call keeps from its first request to its last.
Held == {"op", "n", "rev", "head", "text", "mark", "evaluated", "base", "new"}
Carries(call, later) ==
  /\ DOMAIN call \subseteq DOMAIN later
  /\ \A f \in DOMAIN call \cap Held : later[f] = call[f]

LEMMA WithFields ==
  ASSUME NEW call, NEW fields
  PROVE  LET later == With(call, fields)
         IN  /\ DOMAIN later = DOMAIN call \cup DOMAIN fields
             /\ \A f \in DOMAIN fields : later[f] = fields[f]
             /\ \A f \in DOMAIN call \ DOMAIN fields : later[f] = call[f]
BY DEF With

LEMMA ToCarries ==
  ASSUME NEW call, NEW step, "at" \in DOMAIN call
  PROVE  LET later == [call EXCEPT !.at = step]
         IN  Carries(call, later) /\ later.at = step
BY DEF Carries, Held

\* A routing change begins with one of its requests, or is over at once.
LEMMA OnwardCarries ==
  ASSUME NEW call, "at" \in DOMAIN call
  PROVE  LET later == Onward(call)
         IN  /\ DOMAIN later = DOMAIN call
             /\ \A f \in DOMAIN call : f # "at" => later[f] = call[f]
             /\ later.at \in RoutingSteps \cup {call.then}
BY DEF Onward, RoutingSteps

RoutingFields == {"turn", "draft", "add", "remove", "then"}
LEMMA RouteCarries ==
  ASSUME NEW call, NEW seen, NEW draft, NEW add, NEW remove, NEW then, "at" \in DOMAIN call
  PROVE  LET later == Route(call, seen, draft, add, remove, then)
         IN  /\ Carries(call, later)
             /\ RoutingFields \subseteq DOMAIN later /\ later.then = then
             /\ later.at \in RoutingSteps \cup {then}
<1> DEFINE fields == [turn |-> seen.draft # draft, draft |-> draft, add |-> add \ seen.labels,
                      remove |-> remove \cap seen.labels, then |-> then]
           routed == With(call, fields)
<1>1. DOMAIN fields = RoutingFields /\ fields["then"] = then
  BY DEF RoutingFields
<1> HIDE DEF fields
<1>0. /\ DOMAIN routed = DOMAIN call \cup DOMAIN fields
      /\ \A f \in DOMAIN fields : routed[f] = fields[f]
      /\ \A f \in DOMAIN call \ DOMAIN fields : routed[f] = call[f]
  BY WithFields
<1> HIDE DEF routed
<1>2. /\ DOMAIN routed = DOMAIN call \cup RoutingFields
      /\ routed.then = then /\ \A f \in DOMAIN call \ RoutingFields : routed[f] = call[f]
  BY <1>0, <1>1 DEF RoutingFields
<1>3. LET later == Onward(routed)
      IN  /\ DOMAIN later = DOMAIN routed
          /\ \A f \in DOMAIN routed : f # "at" => later[f] = routed[f]
          /\ later.at \in RoutingSteps \cup {routed.then}
  BY <1>2, OnwardCarries
<1>4. Onward(routed) = Route(call, seen, draft, add, remove, then)
  BY DEF Route, routed, fields
<1> QED  BY <1>2, <1>3, <1>4 DEF Carries, Held, RoutingFields

\* What a call has to have seen to go on with a step.
Enters(call, step) ==
  /\ step \in StepsOf(call.op)
  /\ step \notin {"createConflicts", "requiredBase", "appliedResult", "acceptResult", "mergeResult"}
  /\ step \in {"stillCurrent", "post"} => \A c \in comments[call.n] : c.mark # call.mark
  /\ step = "createPull" => pulls[call.n].state = "none"
  /\ step = "reviseConflicts" => call.at \in {"requiredBase", "appliedResult"}
  /\ step = "patch" => call.new > pulls[call.n].rev
  /\ step \in {"mergeBaseAgain", "mergeResultAgain", "put"} =>
       call.at \in {"mergeBaseAgain", "mergeResultAgain"} \/ BindsBases(call)
  /\ step = "put" => Results(call.n, call.rev, call.head) = {call.text}
  /\ Apart /\ call.op \in {"create", "revise"} =>
       step \in EarlySteps \/ call.at \notin EarlySteps \/ Conflicts(call.n) = {}

LEMMA EnteredCall ==
  ASSUME NEW p, NEW call, NEW later, CallInv(p, call),
         call.at \notin {"idle", "acceptResult", "mergeResult"},
         Carries(call, later), Enters(call, later.at), RoutingShape(later)
  PROVE  CallInv(p, later)
<1>1. ShapeOf(p, call) /\ "at" \in DOMAIN call
  BY DEF CallInv
<1>2. Fields(call, {"op", "n"}) /\ later.op = call.op /\ later.n = call.n /\ "at" \in DOMAIN later
  BY <1>1 DEF ShapeOf, Fields, Carries, Held
<1>3. \A fields : Fields(call, fields) => Fields(later, fields)
  BY DEF Carries, Fields
<1>4. /\ Fields(call, {"rev", "head"}) => later.rev = call.rev /\ later.head = call.head
      /\ Fields(call, {"text", "mark"}) => later.text = call.text /\ later.mark = call.mark
      /\ Fields(call, {"text"}) => later.text = call.text
      /\ Fields(call, {"base"}) => later.base = call.base
      /\ Fields(call, {"evaluated", "base"}) =>
           later.base = call.base /\ later.evaluated = call.evaluated
      /\ Fields(call, {"text", "mark", "base", "new"}) =>
           later.base = call.base /\ later.new = call.new /\ later.mark = call.mark
  BY DEF Carries, Fields, Held
<1>5. ShapeOf(p, later)
  BY <1>1, <1>2, <1>3, <1>4 DEF ShapeOf, Enters
<1>6. Unposted(later)
  BY <1>1, <1>2, <1>4, <1>5 DEF Unposted, Enters, ShapeOf, StepsOf, MergeSteps, UpsertSteps,
     RoutingSteps, ReconcileSteps
<1>7. Building(later)
  BY <1>1, <1>2, <1>4 DEF Building, CallInv, ShapeOf
<1>8. Creating(later)
  BY <1>1, <1>2, <1>4 DEF Creating, CallInv, ShapeOf, Enters
<1>9. Revising(later)
  BY <1>1, <1>2, <1>4 DEF Revising, CallInv, ShapeOf, Enters
<1>12. Existing(later)
  BY <1>1, <1>2 DEF Existing, CallInv
<1>10. Merging(later)
  <2> SUFFICES ASSUME call.op = "merge" PROVE Merging(later)
    BY <1>2 DEF Merging
  <2>1. later.rev = call.rev /\ later.head = call.head /\ later.text = call.text
        /\ later.base = call.base /\ later.evaluated = call.evaluated
    BY <1>1, <1>4 DEF ShapeOf
  <2>2. BindsBases(call) => BindsBases(later)
    BY <1>2, <2>1 DEF BindsBases, Accepted, AcceptanceMark
  <2>3. later.at \in {"mergeBaseAgain", "mergeResultAgain", "put"} => BindsBases(call)
    BY DEF Enters, CallInv, Merging
  <2>4. /\ pulls[call.n].rev = call.rev /\ pulls[call.n].base = call.evaluated
    BY DEF CallInv, Merging
  <2> QED  BY <1>2, <2>1, <2>2, <2>3, <2>4 DEF Merging, Enters
<1>11. Alone(later)
  BY <1>2 DEF Alone, CallInv, Enters
<1> QED  BY <1>2, <1>5, <1>6, <1>7, <1>8, <1>9, <1>10, <1>11, <1>12 DEF CallInv

-----------------------------------------------------------------------------
(* Steps that write nothing on GitHub.                                     *)

\* The worker goes on with a call that fits what GitHub shows.
Moves(p) == \E call : CallInv(p, call) /\ w' = [w EXCEPT ![p] = call]
OnlyReads(p) == Moves(p) /\ UNCHANGED <<gitHub, local>>

\* Steps after which a call still has its result, comment or assignment.
LastSteps == {"idle", "acceptResult", "mergeResult"}
Running(p) == CallInv(p, w[p]) /\ w[p].at \notin LastSteps

LEMMA StopMoves ==
  ASSUME NEW p, Becomes(p, Idle)
  PROVE  Moves(p)
<1>1. CallInv(p, Idle)
  BY DEF CallInv, Idle
<1> QED  BY <1>1 DEF Becomes, Moves

LEMMA ToMoves ==
  ASSUME Types, NEW p \in Workers, Running(p), NEW step, Enters(w[p], step),
         step \notin RoutingSteps, To(p, step)
  PROVE  Moves(p)
<1> DEFINE later == [w[p] EXCEPT !.at = step]
<1>1. Carries(w[p], later) /\ later.at = step
  BY ToCarries DEF Running, CallInv
<1>2. w' = [w EXCEPT ![p] = later]
  BY DEF To, Types
<1> HIDE DEF later
<1>3. RoutingShape(later)
  BY <1>1 DEF RoutingShape
<1>4. CallInv(p, later)
  BY <1>1, <1>3, EnteredCall DEF Running, LastSteps
<1> QED  BY <1>2, <1>4 DEF Moves

LEMMA WithMoves ==
  ASSUME Types, NEW p \in Workers, Running(p), NEW fields,
         DOMAIN fields \cap Held = {}, "at" \in DOMAIN fields, Enters(w[p], fields.at),
         fields.at \notin RoutingSteps, Becomes(p, With(w[p], fields))
  PROVE  Moves(p)
<1> DEFINE later == With(w[p], fields)
<1>0. /\ DOMAIN later = DOMAIN w[p] \cup DOMAIN fields
      /\ \A f \in DOMAIN fields : later[f] = fields[f]
      /\ \A f \in DOMAIN w[p] \ DOMAIN fields : later[f] = w[p][f]
  BY WithFields
<1> HIDE DEF later
<1>1. Carries(w[p], later) /\ later.at = fields.at
  BY <1>0 DEF Carries
<1>2. RoutingShape(later)
  BY <1>1 DEF RoutingShape
<1>3. CallInv(p, later)
  BY <1>1, <1>2, EnteredCall DEF Running, LastSteps
<1> QED  BY <1>3 DEF Moves, Becomes, later

LEMMA RouteMoves ==
  ASSUME Types, NEW p \in Workers, Running(p), NEW call, Carries(w[p], call),
         NEW seen, NEW draft, NEW add, NEW remove, NEW then,
         then \in {"submitAfter", "recheck", "settle", "routed"},
         \A step \in RoutingSteps \cup {then} : Enters(w[p], step),
         Becomes(p, Route(call, seen, draft, add, remove, then))
  PROVE  Moves(p)
<1> DEFINE later == Route(call, seen, draft, add, remove, then)
<1>1. "at" \in DOMAIN call /\ Fields(w[p], {"op"})
  BY DEF Carries, Running, CallInv, ShapeOf, Fields, LastSteps
<1>2. /\ Carries(call, later) /\ RoutingFields \subseteq DOMAIN later /\ later.then = then
      /\ later.at \in RoutingSteps \cup {then}
  BY <1>1, RouteCarries
<1> HIDE DEF later
<1>3. Carries(w[p], later)
  BY <1>2 DEF Carries
<1>4. later.op = w[p].op
  BY <1>1, <1>3 DEF Carries, Fields, Held
<1>5. RoutingShape(later)
  BY <1>2, <1>4 DEF RoutingShape, RoutingFields, Fields, Enters
<1>6. CallInv(p, later)
  BY <1>2, <1>3, <1>5, EnteredCall DEF Running, LastSteps
<1> QED  BY <1>6 DEF Moves, Becomes, later

\* One of the requests of a routing change is done.
LEMMA OnwardMoves ==
  ASSUME Types, NEW p \in Workers, Running(p), w[p].at \in RoutingSteps,
         NEW field \in {"turn", "add", "remove"}, NEW value,
         Becomes(p, Onward([w[p] EXCEPT ![field] = value]))
  PROVE  Moves(p)
<1> DEFINE call == [w[p] EXCEPT ![field] = value]
           later == Onward(call)
<1>1. /\ "at" \in DOMAIN w[p] /\ Fields(w[p], RoutingFields \cup {"op"})
      /\ w[p].then \in StepsOf(w[p].op)
      /\ w[p].then \in {"submitAfter", "recheck", "settle", "routed"}
      /\ w[p].at \in StepsOf(w[p].op)
  BY DEF Running, CallInv, RoutingShape, ShapeOf, Fields, RoutingFields, LastSteps
<1>2. /\ DOMAIN call = DOMAIN w[p]
      /\ \A f \in DOMAIN w[p] : f # field => call[f] = w[p][f]
  OBVIOUS
<1> HIDE DEF call
<1>3. Carries(w[p], call) /\ call.then = w[p].then
  BY <1>1, <1>2 DEF Carries, Held, Fields, RoutingFields
<1>4. /\ DOMAIN later = DOMAIN call
      /\ \A f \in DOMAIN call : f # "at" => later[f] = call[f]
      /\ later.at \in RoutingSteps \cup {call.then}
  BY <1>1, <1>2, OnwardCarries
<1> HIDE DEF later
<1>5. /\ Carries(w[p], later) /\ later.then = w[p].then /\ later.op = w[p].op
      /\ later.at \in RoutingSteps \cup {w[p].then} /\ DOMAIN later = DOMAIN w[p]
  BY <1>1, <1>2, <1>3, <1>4 DEF Carries, Held, Fields, RoutingFields
<1>6. RoutingShape(later)
  BY <1>1, <1>5 DEF RoutingShape, Fields, RoutingFields
<1>7. RoutingSteps \subseteq StepsOf(w[p].op)
  BY <1>1 DEF StepsOf, RoutingSteps, UpsertSteps, MergeSteps
<1>8. w[p].at \notin EarlySteps
  BY DEF EarlySteps, RoutingSteps
<1>9. Enters(w[p], later.at)
  BY <1>1, <1>5, <1>7, <1>8 DEF Enters, RoutingSteps
<1>10. CallInv(p, later)
  BY <1>5, <1>6, <1>9, EnteredCall DEF Running, LastSteps
<1> QED  BY <1>10 DEF Moves, Becomes, later, call

-----------------------------------------------------------------------------
(* The reads.                                                              *)

\* Which operations have a step.
LEMMA StepOps ==
  ASSUME NEW op, NEW at, at \in StepsOf(op)
  PROVE  /\ at \in UpsertSteps => op \in {"submit", "revise", "accept", "close", "message", "answer"}
         /\ at \in {"push", "submitBefore", "stillCurrent", "submitCurrent", "submitAfter"} =>
              op = "submit"
         /\ at \in ReconcileSteps => op \in {"submit", "revise"}
         /\ at \in {"requiredBase", "appliedResult", "reviseConflicts", "patch", "patched"} =>
              op = "revise"
         /\ at \in {"acceptResult", "acceptBase"} => op = "accept"
         /\ at \in MergeSteps => op = "merge"
         /\ at \in {"close", "closed"} => op = "close"
         /\ at \in {"createConflicts", "createPull", "created"} => op = "create"
         /\ at = "repairResult" => op = "repair"
         /\ at = "routed" => op \in {"create", "repair"}
         /\ at = "edit" => op = "answer"
         /\ at \in RoutingSteps => op \in {"submit", "revise", "create", "repair"}
         /\ at # "idle"
BY DEF StepsOf, RoutingSteps, ReconcileSteps, UpsertSteps, MergeSteps

LEMMA StopReads ==
  ASSUME NEW p, Refuses(p) \/ Raises(p) \/ Returns(p)
  PROVE  Moves(p)
BY StopMoves DEF Refuses, Raises, Returns

LEMMA UpsertedMoves ==
  ASSUME Types, NEW p \in Workers, Running(p), w[p].at \in UpsertSteps, Upserted(p)
  PROVE  Moves(p)
<1>1. w[p].at \in StepsOf(w[p].op)
  BY DEF Running, CallInv, ShapeOf, LastSteps
<1>2. CASE w[p].op = "submit"
  <2>1. Enters(w[p], "submitCurrent")
    BY <1>2 DEF Enters, StepsOf
  <2> QED  BY <1>2, <2>1, ToMoves DEF Upserted, RoutingSteps
<1>3. CASE w[p].op = "revise"
  <2>1. Enters(w[p], "reconcile")
    BY <1>3 DEF Enters, StepsOf, ReconcileSteps, EarlySteps, UpsertSteps
  <2> QED  BY <1>3, <2>1, ToMoves DEF Upserted, RoutingSteps
<1>4. CASE w[p].op \notin {"submit", "revise"}
  BY <1>4, StopReads DEF Upserted
<1> QED  BY <1>2, <1>3, <1>4

LEMMA UpsertReads ==
  ASSUME Types, NEW p \in Workers, CallInv(p, w[p]), FindComment(p) \/ StillCurrent(p) \/ VerifyPost(p)
  PROVE  OnlyReads(p)
<1>0. UNCHANGED <<gitHub, local>>
  BY DEF FindComment, StillCurrent, VerifyPost
<1>1. Running(p) /\ w[p].at \in StepsOf(w[p].op)
  BY DEF FindComment, StillCurrent, VerifyPost, At, Running, LastSteps, CallInv, ShapeOf
<1>2. CASE FindComment(p)
  <2>1. w[p].at = "find" /\ w[p].at \in UpsertSteps
    BY <1>2 DEF FindComment, At, UpsertSteps
  <2>2. w[p].op \in {"submit", "revise", "accept", "close", "message", "answer"}
    BY <1>1, <2>1, StepOps
  <2>3. CASE Upserted(p)
    BY <1>0, <1>1, <2>1, <2>3, UpsertedMoves DEF OnlyReads
  <2>4. ASSUME Texts(p) = {} PROVE Enters(w[p], "post") /\ (w[p].op = "submit" => Enters(w[p], "stillCurrent"))
    <3>1. \A c \in comments[w[p].n] : c.mark # w[p].mark
      BY <2>4 DEF Texts, Marked
    <3> QED  BY <2>1, <2>2, <3>1 DEF Enters, StepsOf, UpsertSteps, EarlySteps
  <2>5. CASE Texts(p) = {} /\ To(p, IF w[p].op = "submit" THEN "stillCurrent" ELSE "post")
    BY <1>0, <1>1, <2>4, <2>5, ToMoves DEF RoutingSteps, OnlyReads
  <2>6. CASE w[p].op = "answer" /\ To(p, "edit")
    <3>1. Enters(w[p], "edit")
      BY <2>6 DEF Enters, StepsOf
    <3> QED  BY <1>0, <1>1, <2>6, <3>1, ToMoves DEF RoutingSteps, OnlyReads
  <2>7. CASE Raises(p)
    BY <1>0, <2>7, StopReads DEF OnlyReads
  <2> QED  BY <1>2, <2>3, <2>5, <2>6, <2>7, <1>0 DEF FindComment, OnlyReads
<1>3. CASE StillCurrent(p)
  <2>1. w[p].at = "stillCurrent" /\ w[p].op = "submit"
    BY <1>1, <1>3, StepOps DEF StillCurrent, At
  <2>2. Enters(w[p], "post")
    BY <1>1, <2>1 DEF Enters, StepsOf, UpsertSteps, CallInv, Unposted
  <2>3. CASE To(p, "post")
    BY <1>0, <1>1, <2>2, <2>3, ToMoves DEF RoutingSteps, OnlyReads
  <2> QED  BY <1>0, <1>3, <2>3, StopReads DEF StillCurrent, OnlyReads
<1>4. CASE VerifyPost(p)
  <2>1. w[p].at \in UpsertSteps
    BY <1>4 DEF VerifyPost, At, UpsertSteps
  <2>2. CASE Upserted(p)
    BY <1>0, <1>1, <2>1, <2>2, UpsertedMoves DEF OnlyReads
  <2> QED  BY <1>0, <1>4, <2>2, StopReads DEF VerifyPost, OnlyReads
<1> QED  BY <1>2, <1>3, <1>4

LEMMA SubmitReads ==
  ASSUME Types, NEW p \in Workers, CallInv(p, w[p]),
         SubmitBefore(p) \/ SubmitCurrent(p) \/ SubmitAfter(p)
  PROVE  OnlyReads(p)
<1>0. UNCHANGED <<gitHub, local>>
  BY DEF SubmitBefore, SubmitCurrent, SubmitAfter
<1>1. /\ Running(p) /\ w[p].at \in StepsOf(w[p].op)
      /\ w[p].at \in {"submitBefore", "submitCurrent", "submitAfter"}
  BY DEF SubmitBefore, SubmitCurrent, SubmitAfter, At, Running, LastSteps, CallInv, ShapeOf
<1>2. w[p].op = "submit"
  BY <1>1, StepOps
<1>3. /\ Enters(w[p], "find") /\ Enters(w[p], "reconcile") /\ Enters(w[p], "submitAfter")
      /\ \A step \in RoutingSteps : Enters(w[p], step)
  BY <1>2 DEF Enters, StepsOf, UpsertSteps, ReconcileSteps, RoutingSteps
<1>4. CASE To(p, "find") \/ To(p, "reconcile")
  BY <1>0, <1>1, <1>3, <1>4, ToMoves DEF RoutingSteps, OnlyReads
<1>5. CASE Becomes(p, Route(w[p], Pull(p), FALSE, {"review"}, {"wip"}, "submitAfter"))
  <2>1. Carries(w[p], w[p])
    BY DEF Carries
  <2> QED  BY <1>0, <1>1, <1>3, <1>5, <2>1, RouteMoves DEF OnlyReads
<1> QED  BY <1>0, <1>4, <1>5, StopReads DEF SubmitBefore, SubmitCurrent, SubmitAfter, OnlyReads

LEMMA AgainMoves ==
  ASSUME Types, NEW p \in Workers, Running(p), w[p].at \in ReconcileSteps, Again(p)
  PROVE  Moves(p)
<1>1. w[p].op \in {"submit", "revise"}
  BY StepOps DEF Running, CallInv, ShapeOf, LastSteps
<1>2. Enters(w[p], "reconcile")
  BY <1>1 DEF Enters, StepsOf, ReconcileSteps, EarlySteps
<1>3. ASSUME NEW tries, Becomes(p, With(w[p], [at |-> "reconcile", tries |-> tries])) PROVE Moves(p)
  BY <1>2, <1>3, WithMoves DEF Held, RoutingSteps
<1> QED  BY <1>3, StopReads DEF Again

LEMMA ReconcileReads ==
  ASSUME Types, NEW p \in Workers, CallInv(p, w[p]), ReconcileRouting(p)
  PROVE  OnlyReads(p)
<1>0. UNCHANGED <<gitHub, local>>
  BY DEF ReconcileRouting, Reconcile, ReconcileResult, Recheck, RecheckResult, Settle, SettleResult
<1>1. Running(p) /\ w[p].at \in StepsOf(w[p].op) /\ w[p].at \in ReconcileSteps
  BY DEF ReconcileRouting, Reconcile, ReconcileResult, Recheck, RecheckResult, Settle, SettleResult,
     At, Running, LastSteps, CallInv, ShapeOf, ReconcileSteps
<1>2. w[p].op \in {"submit", "revise"}
  BY <1>1, StepOps
<1>3. \A step \in ReconcileSteps \cup RoutingSteps : Enters(w[p], step)
  BY <1>1, <1>2 DEF Enters, StepsOf, ReconcileSteps, RoutingSteps, EarlySteps
<1>4. ASSUME NEW step \in {"reconcileResult", "recheckResult", "settleResult"}, NEW seen,
             Becomes(p, With(w[p], [at |-> step, seen |-> seen]))
      PROVE  Moves(p)
  BY <1>1, <1>3, <1>4, WithMoves DEF Held, RoutingSteps, ReconcileSteps
<1>5. ASSUME NEW call, Carries(w[p], call), NEW seen, NEW draft, NEW add, NEW remove,
             NEW then \in {"recheck", "settle"}, Becomes(p, Route(call, seen, draft, add, remove, then))
      PROVE  Moves(p)
  BY <1>1, <1>3, <1>5, RouteMoves DEF ReconcileSteps
<1>6. \A has : Carries(w[p], With(w[p], [has |-> has]))
  <2> TAKE has
  <2> DEFINE later == With(w[p], [has |-> has])
  <2>1. /\ DOMAIN later = DOMAIN w[p] \cup {"has"}
        /\ \A f \in DOMAIN w[p] \ {"has"} : later[f] = w[p][f]
    BY DEF With
  <2> HIDE DEF later
  <2>2. Carries(w[p], later)
    BY <2>1 DEF Carries, Held
  <2> QED  BY <2>2 DEF later
<1>7. CASE Reconcile(p)
  BY <1>0, <1>4, <1>7, StopReads DEF Reconcile, OnlyReads
<1>8. CASE ReconcileResult(p)
  BY <1>0, <1>5, <1>6, <1>8 DEF ReconcileResult, OnlyReads
<1>9. CASE Recheck(p)
  BY <1>0, <1>1, <1>4, <1>9, StopReads, AgainMoves DEF Recheck, OnlyReads
<1>10. CASE RecheckResult(p)
  <2>1. Carries(w[p], w[p])
    BY DEF Carries
  <2> QED  BY <1>0, <1>1, <1>5, <1>10, <2>1, AgainMoves DEF RecheckResult, OnlyReads
<1>11. CASE Settle(p)
  BY <1>0, <1>1, <1>4, <1>11, StopReads, AgainMoves DEF Settle, OnlyReads
<1>12. CASE SettleResult(p)
  BY <1>0, <1>1, <1>12, StopReads, AgainMoves DEF SettleResult, OnlyReads
<1> QED  BY <1>7, <1>8, <1>9, <1>10, <1>11, <1>12 DEF ReconcileRouting

\* What a step has to know of a call, from the invariant.
LEMMA CallFacts ==
  ASSUME NEW p, CallInv(p, w[p]), w[p].at # "idle"
  PROVE  /\ w[p].at \in StepsOf(w[p].op) /\ ShapeOf(p, w[p])
         /\ w[p].at \notin LastSteps => Running(p)
BY DEF CallInv, ShapeOf, Running, LastSteps

LEMMA ReviseReads ==
  ASSUME GitInv, NEW p \in Workers, CallInv(p, w[p]),
         RequiredBase(p) \/ AppliedResult(p) \/ ReviseConflicts(p) \/ RevisionPatched(p)
  PROVE  OnlyReads(p)
<1>0. UNCHANGED <<gitHub, local>> /\ Types
  BY DEF RequiredBase, AppliedResult, ReviseConflicts, RevisionPatched, GitInv
<1>1. /\ w[p].at \in {"requiredBase", "appliedResult", "reviseConflicts", "patched"}
      /\ Running(p) /\ w[p].op = "revise" /\ ShapeOf(p, w[p])
  BY CallFacts, StepOps DEF RequiredBase, AppliedResult, ReviseConflicts, RevisionPatched, At, LastSteps
<1>2. CASE RequiredBase(p)
  <2>1. Enters(w[p], "reviseConflicts")
    BY <1>1, <1>2 DEF Enters, StepsOf, EarlySteps, RequiredBase, At
  <2> QED  BY <1>0, <1>1, <1>2, <2>1, ToMoves, StopReads DEF RequiredBase, OnlyReads, RoutingSteps
<1>3. CASE AppliedResult(p)
  <2>1. w[p].at = "appliedResult" /\ w[p].n \in Pulls
    BY <1>1, <1>3 DEF AppliedResult, At, ShapeOf
  <2>2. Enters(w[p], "reviseConflicts")
    BY <1>1, <2>1 DEF Enters, StepsOf, EarlySteps
  <2>3. ASSUME Results(w[p].n, w[p].new, w[p].head) # {} PROVE Enters(w[p], "find")
    <3>1. PICK c \in comments[w[p].n] : c.mark = [kind |-> "result", rev |-> w[p].new, head |-> w[p].head]
      BY <2>3 DEF Results
    <3>2. ~ Apart
      BY <2>1, <3>1 DEF GitInv, OneActive
    <3> QED  BY <1>1, <3>2 DEF Enters, StepsOf, UpsertSteps
  <2>4. CASE To(p, "find") /\ Results(w[p].n, w[p].new, w[p].head) # {}
    BY <1>0, <1>1, <2>3, <2>4, ToMoves DEF RoutingSteps, OnlyReads
  <2>5. CASE To(p, "reviseConflicts")
    BY <1>0, <1>1, <2>2, <2>5, ToMoves DEF RoutingSteps, OnlyReads
  <2> QED  BY <1>3, <2>4, <2>5 DEF AppliedResult
<1>4. CASE ReviseConflicts(p)
  <2>1. w[p].at = "reviseConflicts" /\ w[p].n \in Pulls /\ Pull(p).rev \in Nat
    BY <1>0, <1>1, <1>4 DEF ReviseConflicts, At, ShapeOf, Types, PullShape, Pull
  <2>2. w[p].new \in Nat /\ w[p].new >= Pull(p).rev
    BY <1>1, <2>1 DEF CallInv, Revising, Pull
  <2>3. ASSUME Conflicts(w[p].n) = {}
        PROVE  Enters(w[p], "patched") /\ (Pull(p).rev # w[p].new => Enters(w[p], "patch"))
    BY <1>1, <2>1, <2>2, <2>3 DEF Enters, StepsOf, Pull
  <2>4. CASE Conflicts(w[p].n) = {} /\ To(p, IF Pull(p).rev = w[p].new THEN "patched" ELSE "patch")
    BY <1>0, <1>1, <2>3, <2>4, ToMoves DEF RoutingSteps, OnlyReads
  <2> QED  BY <1>0, <1>4, <2>4, StopReads DEF ReviseConflicts, OnlyReads
<1>5. CASE RevisionPatched(p)
  <2>1. Enters(w[p], "find")
    BY <1>1, <1>5 DEF Enters, StepsOf, UpsertSteps, RevisionPatched, At, EarlySteps
  <2> QED  BY <1>0, <1>1, <1>5, <2>1, ToMoves, StopReads DEF RevisionPatched, OnlyReads, RoutingSteps
<1> QED  BY <1>2, <1>3, <1>4, <1>5

LEMMA AcceptedResultReads ==
  ASSUME Types, NEW p \in Workers, CallInv(p, w[p]), AcceptedResult(p)
  PROVE  OnlyReads(p)
<1>1. w[p].at = "acceptResult" /\ w[p].op = "accept" /\ ShapeOf(p, w[p])
  BY CallFacts, StepOps DEF AcceptedResult, At
<1>2. ASSUME NEW text,
             Becomes(p, With(w[p], [at |-> "acceptBase", text |-> 0, mark |-> AcceptanceMark(w[p], text)]))
      PROVE  Moves(p)
  <2> DEFINE later == With(w[p], [at |-> "acceptBase", text |-> 0, mark |-> AcceptanceMark(w[p], text)])
             mark == AcceptanceMark(w[p], text)
  <2>0. mark.kind = "acceptance"
    BY DEF AcceptanceMark
  <2> HIDE DEF mark
  <2>1. /\ DOMAIN later = DOMAIN w[p] \cup {"at", "text", "mark"}
        /\ later.at = "acceptBase" /\ later.mark = mark
        /\ \A f \in DOMAIN w[p] \ {"at", "text", "mark"} : later[f] = w[p][f]
    BY DEF With, mark
  <2> HIDE DEF later
  <2>2. /\ Fields(w[p], {"op", "n", "rev", "head", "evaluated", "base"})
    BY <1>1 DEF ShapeOf, Fields
  <2>3. /\ later.op = "accept" /\ later.n = w[p].n
        /\ Fields(later, {"op", "n", "rev", "head", "evaluated", "base", "text", "mark"})
    BY <1>1, <2>1, <2>2 DEF Fields
  <2>4. ShapeOf(p, later)
    BY <1>1, <2>0, <2>1, <2>3 DEF ShapeOf, Fields, StepsOf
  <2>5. CallInv(p, later)
    BY <2>1, <2>3, <2>4 DEF CallInv, RoutingShape, RoutingSteps, Unposted, Building, Creating, Existing,
       Revising, Merging, Alone
  <2> QED  BY <1>2, <2>5 DEF Moves, Becomes, later, mark
<1> QED  BY <1>2, StopReads DEF AcceptedResult, OnlyReads

LEMMA MergeResultReads ==
  ASSUME Types, NEW p \in Workers, CallInv(p, w[p]), MergeResult(p)
  PROVE  OnlyReads(p)
<1>1. w[p].at = "mergeResult" /\ w[p].op = "merge" /\ ShapeOf(p, w[p])
  BY CallFacts, StepOps DEF MergeResult, At, MergeSteps
<1>2. ASSUME NEW text, Becomes(p, With(w[p], [at |-> "mergeBase", text |-> text]))
      PROVE  Moves(p)
  <2> DEFINE later == With(w[p], [at |-> "mergeBase", text |-> text])
  <2>1. /\ DOMAIN later = DOMAIN w[p] \cup {"at", "text"}
        /\ later.at = "mergeBase"
        /\ \A f \in DOMAIN w[p] \ {"at", "text"} : later[f] = w[p][f]
    BY DEF With
  <2> HIDE DEF later
  <2>2. Fields(w[p], {"op", "n", "rev", "head", "evaluated", "base"})
    BY <1>1 DEF ShapeOf, Fields
  <2>3. /\ later.op = "merge" /\ later.n = w[p].n /\ later.rev = w[p].rev
        /\ later.evaluated = w[p].evaluated
        /\ Fields(later, {"op", "n", "rev", "head", "evaluated", "base", "text"})
    BY <1>1, <2>1, <2>2 DEF Fields
  <2>4. ShapeOf(p, later)
    BY <1>1, <2>1, <2>3 DEF ShapeOf, Fields, StepsOf, MergeSteps
  <2>5. Merging(later)
    BY <1>1, <2>1, <2>3 DEF CallInv, Merging
  <2>6. CallInv(p, later)
    BY <2>1, <2>3, <2>4, <2>5 DEF CallInv, RoutingShape, RoutingSteps, Unposted, Building, Creating, Existing,
       Revising, Alone
  <2> QED  BY <1>2, <2>6 DEF Moves, Becomes, later
<1> QED  BY <1>2, StopReads DEF MergeResult, OnlyReads

LEMMA MergeReads ==
  ASSUME Types, NEW p \in Workers, CallInv(p, w[p]),
         AcceptedBase(p) \/ MergeBase(p) \/ MergeAcceptance(p) \/ MergeBaseAgain(p) \/ MergeResultAgain(p)
  PROVE  OnlyReads(p)
<1>0. UNCHANGED <<gitHub, local>>
  BY DEF AcceptedBase, MergeBase, MergeAcceptance, MergeBaseAgain, MergeResultAgain
<1>1. /\ w[p].at \in {"acceptBase", "mergeBase", "mergeAcceptance", "mergeBaseAgain", "mergeResultAgain"}
      /\ Running(p) /\ ShapeOf(p, w[p])
      /\ IF w[p].at = "acceptBase" THEN w[p].op = "accept" ELSE w[p].op = "merge"
  BY CallFacts, StepOps DEF AcceptedBase, MergeBase, MergeAcceptance, MergeBaseAgain, MergeResultAgain,
     At, LastSteps, MergeSteps
<1>2. ASSUME NEW step, Enters(w[p], step), step \notin RoutingSteps, NextAtBase(p, step) \/ To(p, step)
      PROVE  OnlyReads(p)
  BY <1>0, <1>1, <1>2, ToMoves, StopReads DEF NextAtBase, OnlyReads
<1>3. CASE AcceptedBase(p)
  <2>1. Enters(w[p], "find")
    BY <1>1, <1>3 DEF Enters, StepsOf, UpsertSteps, AcceptedBase, At
  <2> QED  BY <1>2, <1>3, <2>1 DEF AcceptedBase, RoutingSteps
<1>4. CASE MergeBase(p)
  <2>1. w[p].op = "merge"
    BY <1>1, <1>4 DEF MergeBase, At
  <2>2. Enters(w[p], IF w[p].evaluated = w[p].base THEN "mergeBaseAgain" ELSE "mergeAcceptance")
    BY <2>1 DEF Enters, StepsOf, MergeSteps, BindsBases
  <2> QED  BY <1>2, <1>4, <2>2 DEF MergeBase, RoutingSteps
<1>5. CASE MergeAcceptance(p)
  <2>1. w[p].op = "merge"
    BY <1>1, <1>5 DEF MergeAcceptance, At
  <2>2. ASSUME Accepted(w[p]) PROVE Enters(w[p], "mergeBaseAgain")
    BY <2>1, <2>2 DEF Enters, StepsOf, MergeSteps, BindsBases
  <2> QED  BY <1>0, <1>2, <1>5, <2>2, StopReads DEF MergeAcceptance, RoutingSteps, OnlyReads
<1>6. CASE MergeBaseAgain(p)
  <2>1. w[p].op = "merge" /\ w[p].at = "mergeBaseAgain"
    BY <1>1, <1>6 DEF MergeBaseAgain, At
  <2>2. Enters(w[p], "mergeResultAgain")
    BY <2>1 DEF Enters, StepsOf, MergeSteps
  <2> QED  BY <1>2, <1>6, <2>2 DEF MergeBaseAgain, RoutingSteps
<1>7. CASE MergeResultAgain(p)
  <2>1. w[p].op = "merge" /\ w[p].at = "mergeResultAgain"
    BY <1>1, <1>7 DEF MergeResultAgain, At
  <2>2. ASSUME TheResult(p) = {w[p].text} PROVE Enters(w[p], "put")
    BY <2>1, <2>2 DEF Enters, StepsOf, MergeSteps, TheResult
  <2> QED  BY <1>0, <1>2, <1>7, <2>2, StopReads DEF MergeResultAgain, RoutingSteps, OnlyReads
<1> QED  BY <1>3, <1>4, <1>5, <1>6, <1>7

LEMMA OtherReads ==
  ASSUME Types, NEW p \in Workers, CallInv(p, w[p]),
         Closed(p) \/ CreateConflicts(p) \/ Created(p) \/ RepairResult(p) \/ Verified(p)
  PROVE  OnlyReads(p)
<1>0. UNCHANGED <<gitHub, local>>
  BY DEF Closed, CreateConflicts, Created, RepairResult, Verified
<1>1. /\ w[p].at \in {"closed", "createConflicts", "created", "repairResult", "routed"}
      /\ Running(p) /\ w[p].at \in StepsOf(w[p].op)
  BY CallFacts DEF Closed, CreateConflicts, Created, RepairResult, Verified, At, LastSteps
<1>2. Carries(w[p], w[p])
  BY DEF Carries
<1>3. CASE Closed(p)
  <2>1. w[p].op = "close"
    BY <1>1, <1>3, StepOps DEF Closed, At
  <2>2. Enters(w[p], "find")
    BY <2>1 DEF Enters, StepsOf, UpsertSteps
  <2> QED  BY <1>0, <1>1, <1>3, <2>2, ToMoves, StopReads DEF Closed, OnlyReads, RoutingSteps
<1>4. CASE CreateConflicts(p)
  <2>1. w[p].op = "create"
    BY <1>1, <1>4, StepOps DEF CreateConflicts, At
  <2>2. ASSUME Conflicts(w[p].n) = {}
        PROVE  Enters(w[p], "created") /\ (Pull(p).state = "none" => Enters(w[p], "createPull"))
    BY <2>1, <2>2 DEF Enters, StepsOf, Pull
  <2>3. CASE Conflicts(w[p].n) = {} /\ To(p, IF Pull(p).state = "none" THEN "createPull" ELSE "created")
    BY <1>0, <1>1, <2>2, <2>3, ToMoves DEF RoutingSteps, OnlyReads
  <2> QED  BY <1>0, <1>4, <2>3, StopReads DEF CreateConflicts, OnlyReads
<1>5. CASE Created(p)
  <2>1. w[p].op = "create" /\ w[p].at = "created"
    BY <1>1, <1>5, StepOps DEF Created, At
  <2>2. \A step \in RoutingSteps \cup {"routed"} : Enters(w[p], step)
    BY <2>1 DEF Enters, StepsOf, RoutingSteps, EarlySteps
  <2>3. CASE Becomes(p, Route(w[p], Pull(p), TRUE, {"wip"}, {"hold", "review"}, "routed"))
    BY <1>0, <1>1, <1>2, <2>2, <2>3, RouteMoves DEF OnlyReads
  <2> QED  BY <1>0, <1>5, <2>3, StopReads DEF Created, OnlyReads
<1>6. CASE RepairResult(p)
  <2>1. w[p].op = "repair"
    BY <1>1, <1>6, StepOps DEF RepairResult, At
  <2>2. \A step \in RoutingSteps \cup {"routed"} : Enters(w[p], step)
    BY <2>1 DEF Enters, StepsOf, RoutingSteps
  <2>3. CASE Becomes(p, Repaired(w[p], w[p].wanted))
    BY <1>0, <1>1, <1>2, <2>2, <2>3, RouteMoves DEF OnlyReads, Repaired
  <2> QED  BY <1>0, <1>6, <2>3, StopReads DEF RepairResult, OnlyReads
<1>7. CASE Verified(p)
  BY <1>0, <1>7, StopReads DEF Verified, OnlyReads
<1> QED  BY <1>3, <1>4, <1>5, <1>6, <1>7

-----------------------------------------------------------------------------
(* The first reads of the calls.                                           *)

LEMMA StudentStarts ==
  ASSUME Types, NEW n \in Pulls, StudentCalls(n)
  PROVE  OnlyReads("student")
<1>1. ASSUME NEW head \in 1..scope.heads, NEW text \in 1..scope.texts, PreflightSubmit(n, head, text)
      PROVE  OnlyReads("student")
  <2> DEFINE call ==
        [at |-> "push", op |-> "submit", n |-> n, rev |-> pulls[n].rev, head |-> head,
         before |-> pulls[n].head, text |-> text,
         mark |-> [kind |-> "result", rev |-> pulls[n].rev, head |-> head]]
  <2>1. ShapeOf("student", call)
    BY <1>1 DEF ShapeOf, StepsOf, Fields, PreflightSubmit, Calls
  <2>2. Building(call)
    BY <1>1 DEF Building, ContainsRequired, PreflightSubmit, ContainsBase, Types, PullShape
  <2>3. CallInv("student", call)
    BY <2>1, <2>2 DEF CallInv, RoutingShape, RoutingSteps, Unposted, Creating, Existing,
       Revising, Merging, Alone
  <2> QED  BY <1>1, <2>3 DEF PreflightSubmit, Becomes, OnlyReads, Moves
<1>2. ASSUME NEW id \in 1..scope.heads, NEW text \in 1..scope.texts, PostAssignmentComment(n, id, text)
      PROVE  OnlyReads("student")
  <2> DEFINE call == [at |-> "find", op |-> "message", n |-> n, text |-> text,
                      mark |-> [kind |-> "student", rev |-> pulls[n].rev, id |-> id]]
  <2>1. CallInv("student", call)
    BY <1>2 DEF ShapeOf, StepsOf, Fields, PostAssignmentComment, SendMessage, Calls, CallInv,
       RoutingShape, RoutingSteps, Unposted, Building, Creating, Existing, Revising, Merging, Alone,
       UpsertSteps
  <2> QED  BY <1>2, <2>1 DEF PostAssignmentComment, SendMessage, Becomes, OnlyReads, Moves
<1> QED  BY <1>1, <1>2 DEF StudentCalls

LEMMA RevisionStarts ==
  ASSUME Types, NEW n \in Pulls,
         RequestRevisionAgain(n) \/ \E base \in 1..live : RequestRevision(n, base)
  PROVE  OnlyReads("advisor")
<1>1. ASSUME NEW rev, NEW new \in Nat, NEW base \in Nat, NEW step \in {"requiredBase", "appliedResult"},
             new >= pulls[n].rev, pulls[n].state = "open", "revise" \in scope.ops,
             Becomes("advisor", Revision(n, rev, new, base, step))
      PROVE  Moves("advisor")
  <2> DEFINE call == Revision(n, rev, new, base, step)
  <2>1. ShapeOf("advisor", call)
    BY <1>1 DEF Revision, ShapeOf, StepsOf, Fields
  <2>2. Revising(call) /\ Existing(call)
    BY <1>1 DEF Revision, Revising, Existing
  <2>3. CallInv("advisor", call)
    BY <2>1, <2>2 DEF Revision, CallInv, RoutingShape, RoutingSteps, Unposted, Building, Creating,
       Merging, Alone, EarlySteps
  <2> QED  BY <1>1, <2>3 DEF Becomes, Moves
<1>2. live \in Nat /\ pulls[n].rev \in Nat /\ pulls[n].base \in Nat
  BY DEF Types, PullShape
<1> QED  BY <1>1, <1>2 DEF RequestRevision, RequestRevisionAgain, Calls, OnlyReads

LEMMA DecisionStarts ==
  ASSUME Types, NEW n \in Pulls, NEW base \in 1..live, AcceptResult(n, base) \/ MergeExperiment(n, base)
  PROVE  OnlyReads("advisor")
<1>1. ASSUME NEW op, NEW step,
             <<op, step>> \in {<<"accept", "acceptResult">>, <<"merge", "mergeResult">>}, op \in scope.ops
      PROVE  CallInv("advisor", Decision(op, n, base, step))
  <2> DEFINE call == Decision(op, n, base, step)
  <2>1. ShapeOf("advisor", call)
    BY <1>1 DEF Decision, ShapeOf, StepsOf, Fields, MergeSteps
  <2> QED  BY <1>1, <2>1 DEF Decision, CallInv, RoutingShape, RoutingSteps, Unposted, Building, Creating,
       Existing, Revising, Merging, Alone
<1> QED  BY <1>1 DEF AcceptResult, MergeExperiment, Calls, Becomes, OnlyReads, Moves

LEMMA CloseStarts ==
  ASSUME Types, NEW n \in Pulls, CloseExperiment(n)
  PROVE  OnlyReads("advisor")
<1> DEFINE call ==
      [at |-> IF pulls[n].state = "open" THEN "close" ELSE "closed", op |-> "close",
       n |-> n, rev |-> pulls[n].rev, head |-> pulls[n].head, text |-> 0,
       mark |-> [kind |-> "closed", rev |-> pulls[n].rev]]
<1>1. ShapeOf("advisor", call)
  BY DEF ShapeOf, StepsOf, Fields, CloseExperiment, Calls
<1>2. CallInv("advisor", call)
  BY <1>1 DEF CallInv, RoutingShape, RoutingSteps, Unposted, Building, Creating,
       Existing, Revising, Merging, Alone, CloseExperiment
<1> QED  BY <1>2 DEF CloseExperiment, Becomes, OnlyReads, Moves

LEMMA RepairStarts ==
  ASSUME Types, NEW n \in Pulls, NEW wanted, RepairRouting(n, wanted)
  PROVE  OnlyReads("advisor")
<1> DEFINE call == [at |-> "repairResult", op |-> "repair", n |-> n, rev |-> pulls[n].rev,
                    head |-> pulls[n].head, seen |-> pulls[n], wanted |-> wanted]
<1>1. ShapeOf("advisor", call)
  BY DEF ShapeOf, StepsOf, Fields, RepairRouting, Calls
<1>2. CallInv("advisor", call)
  BY <1>1 DEF CallInv, RoutingShape, RoutingSteps, Unposted, Building, Creating,
       Existing, Revising, Merging, Alone
<1>3. CallInv("advisor", Repaired(call, wanted))
  <2> DEFINE later == Repaired(call, wanted)
  <2>1. /\ Carries(call, later) /\ RoutingFields \subseteq DOMAIN later /\ later.then = "routed"
        /\ later.at \in RoutingSteps \cup {"routed"}
    BY RouteCarries DEF Repaired
  <2>2. call.op = "repair" /\ call.at = "repairResult" /\ call.n = n /\ "op" \in DOMAIN call
    OBVIOUS
  <2> HIDE DEF later, call
  <2>3. later.op = "repair"
    BY <2>1, <2>2 DEF Carries, Held
  <2>4. RoutingShape(later)
    BY <2>1, <2>3 DEF RoutingShape, RoutingFields, Fields, StepsOf
  <2>5. Enters(call, later.at)
    BY <2>1, <2>2 DEF Enters, StepsOf, RoutingSteps
  <2>6. CallInv("advisor", later)
    BY <1>2, <2>1, <2>2, <2>4, <2>5, EnteredCall
  <2> QED  BY <2>6 DEF later
<1> HIDE DEF call
<1>4. Becomes("advisor", call) \/ Becomes("advisor", Repaired(call, wanted))
  BY DEF RepairRouting, call
<1> QED  BY <1>2, <1>3, <1>4 DEF RepairRouting, Becomes, OnlyReads, Moves

LEMMA MessageStarts ==
  ASSUME Types, NEW n \in Pulls, NEW id, NEW text, SendAssignmentFeedback(n, id, text)
  PROVE  OnlyReads("advisor")
<1> DEFINE call == [at |-> "find", op |-> "message", n |-> n, text |-> text,
                    mark |-> [kind |-> "advisor", rev |-> pulls[n].rev, id |-> id]]
<1>1. CallInv("advisor", call)
  BY DEF ShapeOf, StepsOf, Fields, SendAssignmentFeedback, SendMessage, Calls, CallInv,
     RoutingShape, RoutingSteps, Unposted, Building, Creating, Existing, Revising, Merging, Alone,
     UpsertSteps
<1> QED  BY <1>1 DEF SendAssignmentFeedback, SendMessage, Becomes, OnlyReads, Moves

LEMMA AnswerStarts ==
  ASSUME Types, NEW p \in Workers, NEW n \in scope.issues, NEW id, NEW text, RespondToIssue(p, n, id, text)
  PROVE  OnlyReads(p)
<1> DEFINE call == [at |-> "find", op |-> "answer", n |-> n, text |-> text,
                    mark |-> [kind |-> p, answers |-> id]]
<1>1. CallInv(p, call)
  BY DEF ShapeOf, StepsOf, Fields, RespondToIssue, Calls, CallInv,
     RoutingShape, RoutingSteps, Unposted, Building, Creating, Existing, Revising, Merging, Alone,
     UpsertSteps
<1> QED  BY <1>1 DEF RespondToIssue, Becomes, OnlyReads, Moves

-----------------------------------------------------------------------------
(* What a change on GitHub leaves of a call and of the invariant.          *)

\* No pull request gets another revision or base, nothing is taken back.
Extended(n) ==
  /\ branch[n] # 0 => branch'[n] # 0
  /\ Len(commits[n]) <= Len(commits'[n])
  /\ \A i \in 1..Len(commits[n]) : commits'[n][i] = commits[n][i]
Alike(n) ==
  /\ pulls'[n].state = "none" <=> pulls[n].state = "none"
  /\ pulls'[n].rev = pulls[n].rev /\ pulls'[n].base = pulls[n].base
Steady == scope' = scope /\ \A n \in Pulls : Alike(n) /\ Extended(n)

\* No other pull request becomes active while a creation or revision that
\* has looked at them goes on.
NoneJoins(call) ==
  Apart /\ call.op \in {"create", "revise"} /\ call.at \notin EarlySteps \cup {"idle"} =>
    \A n \in Pulls \ {call.n} : IsActive(n)' => IsActive(n)

LEMMA ContainsKept ==
  ASSUME Types, NEW n \in Pulls, Alike(n), Extended(n), NEW rev, NEW head,
         ContainsRequired(n, rev, head)
  PROVE  ContainsRequired(n, rev, head)'
<1>1. head \in 1..Len(commits[n]) /\ Len(commits[n]) \in Nat
  BY DEF ContainsRequired, Types
<1>2. head \in 1..Len(commits'[n]) /\ commits'[n][head] = commits[n][head]
  <2>1. Len(commits[n]) <= Len(commits'[n]) /\ commits'[n][head] = commits[n][head]
    BY <1>1 DEF Extended
  <2> QED  BY <1>1, <2>1
<1> QED  BY <1>2 DEF ContainsRequired, Alike

LEMMA SteadyCall ==
  ASSUME Types, NEW q, NEW call, CallInv(q, call), w'[q] = call, Steady, comments' = comments,
         NoneJoins(call)
  PROVE  CallInv(q, w[q])'
<1> SUFFICES ASSUME call.at # "idle" PROVE CallInv(q, w[q])'
  BY DEF CallInv
<1>1. ShapeOf(q, call) /\ RoutingShape(call)
  BY DEF CallInv
<1>2. ShapeOf(q, w[q])' /\ RoutingShape(w[q])'
  BY <1>1 DEF ShapeOf, RoutingShape, Steady, Pulls
<1>3. Unposted(w[q])'
  BY DEF CallInv, Unposted
<1>4. call.op \in {"submit", "create", "revise", "close", "merge"} => call.n \in Pulls
  BY <1>1 DEF ShapeOf
<1>5. Building(w[q])'
  BY <1>4, ContainsKept DEF CallInv, Building, Steady
<1>6. Creating(w[q])'
  BY <1>4 DEF CallInv, Creating, Steady, Alike, Extended
<1>7. Existing(w[q])' /\ Revising(w[q])'
  BY <1>4 DEF CallInv, Existing, Revising, Steady, Alike
<1>8. Merging(w[q])'
  BY <1>4 DEF CallInv, Merging, BindsBases, Accepted, Results, Steady, Alike
<1>9. Alone(w[q])'
  <2>1. Pulls' = Pulls /\ (Apart' <=> Apart)
    BY DEF Steady, Pulls, Apart
  <2>2. ASSUME Apart, call.op \in {"create", "revise"}, call.at \notin EarlySteps \cup {"idle"},
               NEW m \in Pulls \ {call.n}, IsActive(m)'
        PROVE  FALSE
    BY <2>2 DEF NoneJoins, CallInv, Alone, Conflicts
  <2> QED  BY <2>1, <2>2 DEF Alone, Conflicts
<1> QED  BY <1>2, <1>3, <1>5, <1>6, <1>7, <1>8, <1>9 DEF CallInv

LEMMA SteadyGit ==
  ASSUME GitInv, Types', BranchFirst', OneActive', Steady, UNCHANGED <<comments, merges>>
  PROVE  GitInv'
<1>0. Types /\ Pulls' = Pulls
  BY DEF GitInv, Steady, Pulls
<1>1. OneCommentPerMark'
  BY DEF GitInv, OneCommentPerMark
<1>2. ResultsBuilt'
  BY <1>0, ContainsKept DEF GitInv, ResultsBuilt, Steady
<1>3. MergesBacked'
  <2> SUFFICES ASSUME NEW n \in Pulls, merges[n] # NotMerged PROVE Backed(n, merges[n])'
    BY <1>0 DEF MergesBacked
  <2> DEFINE m == merges[n]
  <2>1. Backed(n, m)
    BY DEF GitInv, MergesBacked
  <2>2. m.head \in 1..Len(commits[n]) /\ Len(commits[n]) \in Nat
    BY <1>0, <2>1 DEF Backed, Types
  <2>3. /\ Len(commits'[n]) \in Nat /\ Len(commits[n]) <= Len(commits'[n])
        /\ commits'[n][m.head] = commits[n][m.head]
    BY <1>0, <2>2 DEF Steady, Extended, Types
  <2>4. m.head \in 1..Len(commits'[n])
    BY <2>2, <2>3
  <2> QED  BY <2>1, <2>3, <2>4 DEF Backed, Results
<1> QED  BY <1>1, <1>2, <1>3 DEF GitInv

\* The step as a whole: of the workers, at most one goes on.
Goes(p) == \E call : CallInv(p, call) /\ NoneJoins(call) /\ w' = [w EXCEPT ![p] = call]
SteadyStep ==
  \/ UNCHANGED w /\ \A q \in Workers : NoneJoins(w[q])
  \/ \E p \in Workers : Goes(p) /\ \A q \in Workers \ {p} : NoneJoins(w[q])

LEMMA SteadyKeeps ==
  ASSUME IInv, Types', BranchFirst', OneActive', Steady, UNCHANGED <<comments, merges>>, SteadyStep
  PROVE  IInv'
<1>1. GitInv' /\ Types
  BY SteadyGit DEF IInv, GitInv
<1>2. ASSUME NEW q \in Workers PROVE CallInv(q, w[q])'
  <2>1. CASE w'[q] = w[q] /\ NoneJoins(w[q])
    <3>1. PICK call : call = w[q]
      OBVIOUS
    <3>2. CallInv(q, call) /\ w'[q] = call /\ NoneJoins(call)
      BY <1>2, <2>1, <3>1 DEF IInv
    <3> QED  BY <1>1, <3>2, SteadyCall
  <2>2. CASE Goes(q)
    <3>1. PICK call : CallInv(q, call) /\ NoneJoins(call) /\ w' = [w EXCEPT ![q] = call]
      BY <2>2 DEF Goes
    <3>2. w'[q] = call
      BY <1>1, <1>2, <3>1 DEF Types
    <3> QED  BY <1>1, <3>1, <3>2, SteadyCall
  <2>3. ASSUME NEW p \in Workers \ {q}, Goes(p) PROVE w'[q] = w[q]
    BY <1>1, <1>2, <2>3 DEF Goes, Types
  <2> QED  BY <1>2, <2>1, <2>2, <2>3 DEF SteadyStep
<1> QED  BY <1>1, <1>2 DEF IInv, Workers

LEMMA TypesOfW ==
  ASSUME Types, SteadyStep PROVE DOMAIN w' = Workers
BY DEF Types, SteadyStep, Goes

\* A step that writes nothing.
LEMMA ReadsKeep ==
  ASSUME IInv, NEW p \in Workers, OnlyReads(p)
  PROVE  IInv'
<1>1. UNCHANGED <<scope, pulls, comments, branch, live, merges, given, commits>> /\ Types
  BY DEF OnlyReads, gitHub, local, IInv, GitInv
<1>2. \A call : NoneJoins(call)
  BY <1>1 DEF NoneJoins, IsActive
<1>3. SteadyStep
  BY <1>2 DEF SteadyStep, OnlyReads, Moves, Goes
<1>4. Types' /\ BranchFirst' /\ OneActive'
  <2>1. Types'
    BY <1>1, <1>3, TypesOfW DEF Types, Pulls, PullShape, CommentShape, Workers
  <2>2. BranchFirst'
    BY <1>1 DEF IInv, GitInv, BranchFirst, Pulls
  <2>3. OneActive'
    BY <1>1 DEF IInv, GitInv, OneActive, Pulls, IsActive, Apart
  <2> QED  BY <2>1, <2>2, <2>3
<1>5. Steady
  BY <1>1 DEF Steady, Alike, Extended, Types
<1> QED  BY <1>1, <1>3, <1>4, <1>5, SteadyKeeps

-----------------------------------------------------------------------------
(* The writes that leave revisions and bases as they are.                  *)

Shaped(pull) ==
  pull = [state |-> pull.state, rev |-> pull.rev, base |-> pull.base,
          head |-> pull.head, draft |-> pull.draft, labels |-> pull.labels]
Acts(pull) == pull.state = "open" /\ pull.labels \cap Active # {}

LEMMA PullJoins ==
  ASSUME Types, NEW n \in Pulls, NEW pull, pulls' = [pulls EXCEPT ![n] = pull], NEW call,
         \/ Acts(pull) => IsActive(n)
         \/ call.op \notin {"create", "revise"}
         \/ call.n = n
  PROVE  NoneJoins(call)
BY DEF NoneJoins, IsActive, Acts, Types

LEMMA PullKeeps ==
  ASSUME IInv, NEW n \in Pulls, NEW pull,
         Shaped(pull), pull.rev = pulls[n].rev, pull.base = pulls[n].base,
         pull.state = "none" <=> pulls[n].state = "none",
         Apart /\ Acts(pull) => IsActive(n) \/ Conflicts(n) = {},
         PullChanges(n, pull), UNCHANGED local, SteadyStep
  PROVE  IInv'
<1>1. Types /\ pulls' = [pulls EXCEPT ![n] = pull]
      /\ UNCHANGED <<scope, comments, branch, live, merges, given, commits>>
  BY DEF PullChanges, local, IInv, GitInv
<1>2. \A m \in Pulls : pulls'[m] = IF m = n THEN pull ELSE pulls[m]
  BY <1>1 DEF Types
<1>3. Steady
  BY <1>1, <1>2 DEF Steady, Alike, Extended, Types
<1>4. Types'
  <2>1. \A m \in Pulls : PullShape(m)'
    BY <1>1, <1>2 DEF PullShape, Shaped, Types
  <2>2. DOMAIN w' = Workers
    BY <1>1, TypesOfW
  <2> QED  BY <1>1, <2>1, <2>2 DEF Types, Pulls, CommentShape, Workers
<1>5. BranchFirst'
  BY <1>1, <1>2 DEF IInv, GitInv, BranchFirst, Pulls
<1>6. OneActive'
  <2> SUFFICES ASSUME Apart PROVE /\ \A k, m \in Pulls : IsActive(k)' /\ IsActive(m)' => k = m
                                  /\ \A m \in Pulls : \A c \in comments[m] : c.mark.kind # "result"
    BY <1>1 DEF OneActive, Apart, Pulls
  <2>1. \A m \in Pulls : IsActive(m)' <=> IF m = n THEN Acts(pull) ELSE IsActive(m)
    BY <1>2 DEF IsActive, Acts
  <2>2. OneActive
    BY DEF IInv, GitInv
  <2> QED  BY <2>1, <2>2 DEF OneActive, Conflicts
<1> QED  BY <1>1, <1>3, <1>4, <1>5, <1>6, SteadyKeeps

\* The call that goes on after a request of a routing change has its pull request.
LEMMA OnwardStays ==
  ASSUME Types, NEW p \in Workers, Fields(w[p], {"at", "n"}),
         NEW field \in {"turn", "add", "remove"}, NEW value,
         Becomes(p, Onward([w[p] EXCEPT ![field] = value]))
  PROVE  w'[p].n = w[p].n
<1> DEFINE call == [w[p] EXCEPT ![field] = value]
<1>1. "at" \in DOMAIN call /\ "n" \in DOMAIN call /\ call.n = w[p].n
  BY DEF Fields
<1> HIDE DEF call
<1>2. Onward(call).n = call.n
  BY <1>1, OnwardCarries
<1>3. w'[p] = Onward(call)
  BY DEF Becomes, Types, call
<1> QED  BY <1>1, <1>2, <1>3

LEMMA SetRoutingKeeps ==
  ASSUME IInv, NEW p \in Workers, SetRouting(p)
  PROVE  IInv'
<1>1. /\ Types /\ Running(p) /\ ShapeOf(p, w[p]) /\ w[p].at \in RoutingSteps
      /\ w[p].n \in Pulls /\ w[p].op \in {"submit", "revise", "create", "repair"}
  <2>1. w[p].at \in RoutingSteps /\ w[p].at # "idle" /\ w[p].at \notin LastSteps /\ CallInv(p, w[p])
    BY DEF SetRouting, SetDraft, AddLabels, RemoveLabel, At, RoutingSteps, LastSteps, IInv
  <2>2. ShapeOf(p, w[p]) /\ Running(p) /\ w[p].at \in StepsOf(w[p].op)
    BY <2>1, CallFacts
  <2>3. w[p].op \in {"submit", "revise", "create", "repair"}
    BY <2>1, <2>2, StepOps
  <2> QED  BY <2>1, <2>2, <2>3 DEF IInv, GitInv, ShapeOf
<1>2. Fields(w[p], {"at", "n"})
  BY <1>1 DEF ShapeOf, Fields, Running, CallInv
<1>3. CASE Moves(p) /\ UNCHANGED <<gitHub, local>>
  BY <1>3, ReadsKeep DEF OnlyReads
<1>4. ASSUME NEW pull, PullChanges(w[p].n, pull), Moves(p), w'[p].n = w[p].n, UNCHANGED local,
             Shaped(pull), pull.rev = Pull(p).rev, pull.base = Pull(p).base, pull.state = Pull(p).state
      PROVE  IInv'
  <2>1. PICK call : CallInv(p, call) /\ w' = [w EXCEPT ![p] = call]
    BY <1>4 DEF Moves
  <2>2. call.n = w[p].n
    BY <1>1, <1>4, <2>1 DEF Types
  <2>3. PICK n \in Pulls : n = w[p].n
    BY <1>1
  <2>4. pulls' = [pulls EXCEPT ![n] = pull]
    BY <1>4, <2>3 DEF PullChanges
  <2>5. Goes(p)
    BY <1>1, <2>1, <2>2, <2>3, <2>4, PullJoins DEF Goes
  <2>6. ASSUME NEW q \in Workers \ {p}, ~ NoneJoins(w[q]) PROVE FALSE
    <3>1. w[q].at # "idle" /\ Apart /\ w[q].op \in {"create", "revise"} /\ CallInv(q, w[q])
      BY <2>6, <1>1, <2>3, <2>4, PullJoins DEF NoneJoins, IInv, StepsOf, CallInv, Idle
    <3>2. q = "advisor" /\ p = "student"
      BY <2>6, <3>1 DEF CallInv, ShapeOf, Workers
    <3> QED  BY <1>1, <3>1, <3>2 DEF ShapeOf, Apart
  <2>7. Apart => Conflicts(n) = {}
    BY <1>1, <2>3 DEF Apart, ShapeOf, Running, CallInv, Alone, EarlySteps, RoutingSteps
  <2>8. SteadyStep
    BY <2>5, <2>6 DEF SteadyStep
  <2> QED  BY <1>4, <2>3, <2>7, <2>8, PullKeeps DEF Pull
<1>5. Shaped(Pull(p))
  BY <1>1 DEF Types, PullShape, Shaped, Pull
<1>6. CASE SetDraft(p)
  <2>1. CASE Raises(p) /\ UNCHANGED <<gitHub, local, faults>>
    BY <1>3, <2>1, StopReads
  <2>2. CASE Becomes(p, Onward([w[p] EXCEPT !.turn = FALSE]))
    <3>1. Moves(p) /\ w'[p].n = w[p].n
      BY <1>1, <1>2, <2>2, OnwardMoves, OnwardStays
    <3>2. UNCHANGED local
      BY <1>6 DEF SetDraft
    <3>3. CASE UNCHANGED gitHub
      BY <1>3, <3>1, <3>2, <3>3
    <3>4. CASE PullChanges(w[p].n, [Pull(p) EXCEPT !.draft = w[p].draft])
      <4> DEFINE pull == [Pull(p) EXCEPT !.draft = w[p].draft]
      <4>1. /\ Shaped(pull) /\ pull.rev = Pull(p).rev /\ pull.base = Pull(p).base
            /\ pull.state = Pull(p).state
        BY <1>5 DEF Shaped
      <4> HIDE DEF pull
      <4> QED  BY <1>4, <3>1, <3>2, <3>4, <4>1 DEF pull
    <3> QED  BY <1>6, <2>1, <3>3, <3>4 DEF SetDraft, Sent
  <2> QED  BY <1>6, <2>1, <2>2 DEF SetDraft
<1>7. CASE AddLabels(p)
  <2>1. Moves(p) /\ w'[p].n = w[p].n /\ UNCHANGED local
    BY <1>1, <1>2, <1>7, OnwardMoves, OnwardStays DEF AddLabels
  <2>2. CASE UNCHANGED gitHub
    BY <1>3, <2>1, <2>2
  <2>3. CASE PullChanges(w[p].n, [Pull(p) EXCEPT !.labels = @ \cup w[p].add])
    <3> DEFINE pull == [Pull(p) EXCEPT !.labels = @ \cup w[p].add]
    <3>1. /\ Shaped(pull) /\ pull.rev = Pull(p).rev /\ pull.base = Pull(p).base
          /\ pull.state = Pull(p).state
      BY <1>5 DEF Shaped
    <3> HIDE DEF pull
    <3> QED  BY <1>4, <2>1, <2>3, <3>1 DEF pull
  <2> QED  BY <1>7, <2>2, <2>3 DEF AddLabels, Sent
<1>8. CASE RemoveLabel(p)
  <2> DEFINE label == CHOOSE l \in w[p].remove : \A m \in w[p].remove : LabelOrder[l] <= LabelOrder[m]
             pull == [Pull(p) EXCEPT !.labels = @ \ {label}]
  <2>0. PICK value : value = w[p].remove \ {label}
    OBVIOUS
  <2>1. /\ Becomes(p, Onward([w[p] EXCEPT !["remove"] = value])) /\ UNCHANGED local
        /\ Sent(PullChanges(w[p].n, pull))
    BY <1>8, <2>0 DEF RemoveLabel
  <2>2. Moves(p) /\ w'[p].n = w[p].n
    BY <1>1, <1>2, <2>1, OnwardMoves, OnwardStays
  <2>3. CASE UNCHANGED gitHub
    BY <1>3, <2>1, <2>2, <2>3
  <2>4. CASE PullChanges(w[p].n, pull)
    <3>1. /\ Shaped(pull) /\ pull.rev = Pull(p).rev /\ pull.base = Pull(p).base
          /\ pull.state = Pull(p).state
      BY <1>5 DEF Shaped
    <3> HIDE DEF pull
    <3> QED  BY <1>4, <2>1, <2>2, <2>4, <3>1
  <2> QED  BY <2>1, <2>3, <2>4 DEF Sent
<1> QED  BY <1>6, <1>7, <1>8 DEF SetRouting

\* What a worker's write does to the calls: its own goes on, the other's
\* has its pull request, or is no creation or revision.
LEMMA WriteSteps ==
  ASSUME IInv, NEW p \in Workers, Moves(p), NEW n \in Pulls, NEW pull,
         pulls' = [pulls EXCEPT ![n] = pull], Acts(pull) => IsActive(n)
  PROVE  SteadyStep
<1>1. Types
  BY DEF IInv, GitInv
<1>2. \A call : NoneJoins(call)
  BY <1>1, PullJoins
<1> QED  BY <1>2 DEF Moves, Goes, SteadyStep

LEMMA CloseKeeps ==
  ASSUME IInv, NEW p \in Workers, PatchClosed(p)
  PROVE  IInv'
<1>1. /\ Types /\ Running(p) /\ w[p].op = "close" /\ w[p].n \in Pulls /\ w[p].at = "close"
      /\ CallInv(p, w[p])
  <2>1. w[p].at = "close" /\ CallInv(p, w[p])
    BY DEF PatchClosed, At, IInv
  <2>2. w[p].op = "close" /\ Running(p) /\ ShapeOf(p, w[p])
    BY <2>1, CallFacts, StepOps DEF LastSteps
  <2> QED  BY <2>1, <2>2 DEF ShapeOf, IInv, GitInv
<1>2. Moves(p) /\ UNCHANGED local
  <2>1. Enters(w[p], "closed")
    BY <1>1 DEF Enters, StepsOf
  <2> QED  BY <1>1, <2>1, ToMoves DEF PatchClosed, RoutingSteps
<1>3. CASE UNCHANGED gitHub
  BY <1>2, <1>3, ReadsKeep DEF OnlyReads
<1>4. CASE PullChanges(w[p].n, [Pull(p) EXCEPT !.state = "closed"])
  <2> DEFINE pull == [Pull(p) EXCEPT !.state = "closed"]
  <2>1. PICK n \in Pulls : n = w[p].n
    BY <1>1
  <2>2. pulls[n].state # "none"
    BY <1>1, <2>1 DEF CallInv, Existing
  <2>3. /\ Shaped(pull) /\ pull.rev = pulls[n].rev /\ pull.base = pulls[n].base
        /\ pull.state = "closed"
    <3>1. Shaped(Pull(p)) /\ Pull(p) = pulls[n]
      BY <1>1, <2>1 DEF Types, PullShape, Shaped, Pull
    <3> QED  BY <3>1 DEF Shaped
  <2> HIDE DEF pull
  <2>4. ~ Acts(pull)
    BY <2>3 DEF Acts
  <2>5. PullChanges(n, pull)
    BY <1>4, <2>1 DEF pull
  <2>6. SteadyStep
    BY <1>2, <2>4, <2>5, WriteSteps DEF PullChanges
  <2> QED  BY <1>2, <2>2, <2>3, <2>4, <2>5, <2>6, PullKeeps
<1> QED  BY <1>3, <1>4 DEF PatchClosed, Sent

LEMMA FollowsKeeps ==
  ASSUME IInv, NEW n \in Pulls, PullFollowsBranch(n)
  PROVE  IInv'
<1> DEFINE pull == [pulls[n] EXCEPT !.head = branch[n]]
<1>1. Types
  BY DEF IInv, GitInv
<1>2. /\ Shaped(pull) /\ pull.rev = pulls[n].rev /\ pull.base = pulls[n].base
      /\ pull.state = pulls[n].state /\ pull.labels = pulls[n].labels
  BY <1>1 DEF Types, PullShape, Shaped
<1>3. pulls' = [pulls EXCEPT ![n] = pull] /\ PullChanges(n, pull) /\ UNCHANGED <<local, w>>
  BY <1>1 DEF PullFollowsBranch, PullChanges, Types
<1> HIDE DEF pull
<1>4. Acts(pull) => IsActive(n)
  BY <1>2 DEF Acts, IsActive
<1>5. SteadyStep
  BY <1>1, <1>3, <1>4, PullJoins DEF SteadyStep
<1> QED  BY <1>2, <1>3, <1>4, <1>5, PullKeeps

LEMMA PushKeeps ==
  ASSUME IInv, NEW p \in Workers, PushBranch(p)
  PROVE  IInv'
<1>1. /\ Types /\ Running(p) /\ w[p].op = "submit" /\ w[p].n \in Pulls /\ CallInv(p, w[p])
      /\ w[p].at = "push"
  <2>1. w[p].at = "push" /\ CallInv(p, w[p])
    BY DEF PushBranch, At, IInv
  <2>2. w[p].op = "submit" /\ Running(p) /\ ShapeOf(p, w[p])
    BY <2>1, CallFacts, StepOps DEF LastSteps
  <2> QED  BY <2>1, <2>2 DEF ShapeOf, IInv, GitInv
<1>2. CASE Refuses(p) /\ UNCHANGED <<branch, pulls>>
  BY <1>2, StopReads, ReadsKeep DEF PushBranch, OnlyReads, gitHub
<1>3. CASE /\ branch' = [branch EXCEPT ![w[p].n] = w[p].head]
           /\ pulls' = IF scope.lags THEN pulls ELSE [pulls EXCEPT ![w[p].n].head = w[p].head]
           /\ To(p, "submitBefore")
  <2>1. PICK n \in Pulls : n = w[p].n
    BY <1>1
  <2>2. w[p].head \in 1..Len(commits[n]) /\ commits[n] \in Seq(Nat) /\ commits[n] # <<>>
    BY <1>1, <2>1 DEF CallInv, Building, ContainsRequired, Types
  <2>3. PICK pull : /\ pull = IF scope.lags THEN pulls[n] ELSE [pulls[n] EXCEPT !.head = w[p].head]
    OBVIOUS
  <2>4. /\ Shaped(pull) /\ pull.rev = pulls[n].rev /\ pull.base = pulls[n].base
        /\ pull.state = pulls[n].state /\ pull.labels = pulls[n].labels
    <3>1. Shaped(pulls[n])
      BY <1>1 DEF Types, PullShape, Shaped
    <3> QED  BY <2>3, <3>1 DEF Shaped
  <2>5. DOMAIN pulls' = Pulls
    BY <1>1, <1>3 DEF Types
  <2>6. UNCHANGED <<scope, given, commits, comments, live, merges>>
    BY DEF PushBranch, local
  <2>7. \A m \in Pulls : /\ pulls'[m] = IF m = n THEN pull ELSE pulls[m]
                         /\ branch'[m] = IF m = n THEN w[p].head ELSE branch[m]
    BY <1>1, <1>3, <2>1, <2>3 DEF Types
  <2>8. Steady
    BY <1>1, <2>2, <2>4, <2>6, <2>7 DEF Steady, Alike, Extended, Types
  <2>9. SteadyStep
    <3>1. Enters(w[p], "submitBefore")
      BY <1>1 DEF Enters, StepsOf
    <3>2. Moves(p)
      BY <1>1, <1>3, <3>1, ToMoves DEF RoutingSteps
    <3>3. \A call : NoneJoins(call)
      BY <2>4, <2>7 DEF NoneJoins, IsActive
    <3> QED  BY <3>2, <3>3 DEF Moves, Goes, SteadyStep
  <2>10. Types'
    <3>1. \A m \in Pulls : PullShape(m)'
      BY <1>1, <2>4, <2>7 DEF PullShape, Shaped, Types
    <3>2. DOMAIN w' = Workers
      BY <1>1, <2>9, TypesOfW
    <3>3. branch' \in [Pulls -> Nat] /\ DOMAIN pulls' = Pulls
      BY <1>1, <1>3, <2>1, <2>2, <2>5 DEF Types
    <3> QED  BY <1>1, <2>6, <3>1, <3>2, <3>3 DEF Types, Pulls, CommentShape, Workers
  <2>11. BranchFirst'
    BY <2>2, <2>4, <2>6, <2>7 DEF IInv, GitInv, BranchFirst, Pulls
  <2>12. OneActive'
    <3>1. \A m \in Pulls : IsActive(m)' => IsActive(m)
      BY <2>4, <2>7 DEF IsActive
    <3> QED  BY <2>6, <3>1 DEF IInv, GitInv, OneActive, Pulls, Apart
  <2> QED  BY <2>6, <2>8, <2>9, <2>10, <2>11, <2>12, SteadyKeeps
<1> QED  BY <1>2, <1>3 DEF PushBranch

\* A merged pull request has the evidence its call has seen.
LEMMA PutKeeps ==
  ASSUME IInv, NEW p \in Workers, PutMerge(p)
  PROVE  IInv'
<1>1. /\ Types /\ w[p].op = "merge" /\ w[p].n \in Pulls /\ w[p].at = "put" /\ CallInv(p, w[p])
  <2>1. w[p].at = "put" /\ CallInv(p, w[p])
    BY DEF PutMerge, At, IInv
  <2>2. w[p].op = "merge" /\ ShapeOf(p, w[p])
    BY <2>1, CallFacts, StepOps DEF MergeSteps
  <2> QED  BY <2>1, <2>2 DEF ShapeOf, IInv, GitInv
<1>2. Moves(p) /\ UNCHANGED local
  BY StopReads DEF PutMerge
<1>3. CASE UNCHANGED gitHub
  BY <1>2, <1>3, ReadsKeep DEF OnlyReads
<1>4. CASE /\ IsOpen(p)
           /\ pulls' = [pulls EXCEPT ![w[p].n].state = "merged"]
           /\ merges' = [merges EXCEPT ![w[p].n] =
                [rev |-> Pull(p).rev, head |-> w[p].head, required |-> Pull(p).base,
                 named |-> w[p].base]]
           /\ live' = live + 1
           /\ UNCHANGED <<comments, branch>>
  <2>1. PICK n \in Pulls : n = w[p].n
    BY <1>1
  <2>2. PICK pull : pull = [pulls[n] EXCEPT !.state = "merged"]
    OBVIOUS
  <2>3. Shaped(pull) /\ pull.rev = pulls[n].rev /\ pull.base = pulls[n].base /\ pull.state = "merged"
    <3>1. Shaped(pulls[n])
      BY <1>1 DEF Types, PullShape, Shaped
    <3> QED  BY <2>2, <3>1 DEF Shaped
  <2>4. pulls' = [pulls EXCEPT ![n] = pull]
    BY <1>1, <1>4, <2>1, <2>2 DEF Types
  <2>5. UNCHANGED <<scope, given, commits>>
    BY <1>2 DEF local
  <2>6. \A m \in Pulls : pulls'[m] = IF m = n THEN pull ELSE pulls[m]
    BY <1>1, <2>4 DEF Types
  <2>7. pulls[n].state = "open"
    BY <1>4, <2>1 DEF IsOpen, Pull
  <2>8. Steady
    BY <1>1, <1>4, <2>3, <2>5, <2>6, <2>7 DEF Steady, Alike, Extended, Types
  <2>9. \A m \in Pulls : IsActive(m)' => IsActive(m)
    BY <2>3, <2>6 DEF IsActive
  <2>10. SteadyStep
    BY <1>2, <2>9 DEF NoneJoins, Moves, Goes, SteadyStep
  <2>11. Types'
    <3>1. \A m \in Pulls : PullShape(m)'
      BY <1>1, <2>3, <2>6 DEF PullShape, Shaped, Types
    <3>2. DOMAIN w' = Workers
      BY <1>1, <2>10, TypesOfW
    <3>3. DOMAIN merges' = Pulls /\ DOMAIN pulls' = Pulls /\ live' \in Nat
      BY <1>1, <1>4 DEF Types
    <3> QED  BY <1>1, <1>4, <2>5, <3>1, <3>2, <3>3 DEF Types, Pulls, CommentShape, Workers
  <2>12. BranchFirst'
    BY <1>4, <2>3, <2>5, <2>6, <2>7 DEF IInv, GitInv, BranchFirst, Pulls
  <2>13. OneActive'
    BY <1>4, <2>5, <2>9 DEF IInv, GitInv, OneActive, Pulls, Apart
  <2>14. OneCommentPerMark'
    BY <1>4 DEF IInv, GitInv, OneCommentPerMark
  <2>15. ResultsBuilt'
    BY <1>1, <1>4, <2>8, ContainsKept DEF IInv, GitInv, ResultsBuilt, Steady, Pulls
  <2>16. MergesBacked'
    <3>1. PICK text : Results(n, w[p].rev, w[p].head) = {text} /\ text = w[p].text
      BY <1>1, <2>1 DEF CallInv, Merging
    <3>2. PICK c \in comments[n] : c.mark = [kind |-> "result", rev |-> w[p].rev, head |-> w[p].head]
      BY <3>1 DEF Results
    <3>3. /\ pulls[n].rev = w[p].rev /\ pulls[n].base = w[p].evaluated
          /\ w[p].evaluated = w[p].base \/ Accepted(w[p])
      BY <1>1, <2>1 DEF CallInv, Merging, BindsBases
    <3>4. ContainsRequired(n, w[p].rev, w[p].head)
      BY <3>2 DEF IInv, GitInv, ResultsBuilt
    <3> DEFINE m == [rev |-> pulls[n].rev, head |-> w[p].head, required |-> pulls[n].base,
                     named |-> w[p].base]
    <3>5. Backed(n, m)
      <4>1. Results(n, m.rev, m.head) = {text}
        BY <3>1, <3>3
      <4>2. m.head \in 1..Len(commits[n]) /\ commits[n][m.head] >= m.required
        BY <3>3, <3>4 DEF ContainsRequired
      <4>3. ASSUME Accepted(w[p]) PROVE \E d \in comments[n], t \in Results(n, m.rev, m.head) :
              d.mark = AcceptanceMark([rev |-> m.rev, head |-> m.head,
                                       evaluated |-> m.required, base |-> m.named], t)
        BY <2>1, <3>1, <3>3, <4>1, <4>3 DEF Accepted, AcceptanceMark
      <4> QED  BY <3>3, <4>1, <4>2, <4>3 DEF Backed
    <3>6. \A k \in Pulls : merges'[k] = IF k = n THEN m ELSE merges[k]
      BY <1>1, <1>4, <2>1 DEF Types, Pull
    <3> HIDE DEF m
    <3>7. \A k \in Pulls : merges'[k] # NotMerged => Backed(k, merges'[k])
      BY <3>5, <3>6 DEF IInv, GitInv, MergesBacked
    <3>8. \A k \in Pulls : \A r : Backed(k, r) => Backed(k, r)'
      BY <1>4, <2>5 DEF Backed, Results
    <3>9. Pulls' = Pulls
      BY <2>5 DEF Pulls
    <3> SUFFICES ASSUME NEW k \in Pulls, merges'[k] # NotMerged PROVE Backed(k, merges[k])'
      BY <3>9 DEF MergesBacked, NotMerged
    <3>10. PICK r : r = merges'[k]
      OBVIOUS
    <3>11. Backed(k, r)'
      BY <3>7, <3>8, <3>10
    <3> QED  BY <3>10, <3>11 DEF Backed
  <2>17. \A q \in Workers : CallInv(q, w[q])'
    <3> SUFFICES ASSUME NEW q \in Workers PROVE CallInv(q, w[q])'
      BY DEF Workers
    <3>1. \A call : NoneJoins(call)
      BY <2>9 DEF NoneJoins
    <3>2. PICK call : CallInv(q, call) /\ w'[q] = call
      BY <1>1, <1>2 DEF Moves, Types, IInv
    <3> QED  BY <1>1, <1>4, <2>8, <3>1, <3>2, SteadyCall
  <2> QED  BY <2>11, <2>12, <2>13, <2>14, <2>15, <2>16, <2>17 DEF IInv, GitInv
<1> QED  BY <1>3, <1>4 DEF PutMerge, Sent, gitHub

-----------------------------------------------------------------------------
(* The writes of a new revision, base or pull request.                     *)

\* A call is as before, on a pull request that is as it was, or after
\* another revision or the creation of another one.
LEMMA RenewedCall ==
  ASSUME Types, NEW q, NEW call, CallInv(q, call), w'[q] = call,
         NEW n \in Pulls, NEW pull, pulls' = [pulls EXCEPT ![n] = pull],
         pull.state # "none", pulls[n].state = "none" \/ pull.rev > pulls[n].rev,
         pull.rev \in Nat, Acts(pull) => IsActive(n),
         UNCHANGED <<scope, comments, branch, commits>>,
         call.at # "idle" => call.op # "merge" /\ (call.at = "createPull" => call.n # n)
                             /\ (call.op = "revise" => call.at = "patched")
  PROVE  CallInv(q, w[q])'
<1> SUFFICES ASSUME call.at # "idle" PROVE CallInv(q, w[q])'
  BY DEF CallInv
<1>1. ShapeOf(q, call) /\ RoutingShape(call)
  BY DEF CallInv
<1>2. ShapeOf(q, w[q])' /\ RoutingShape(w[q])'
  BY <1>1 DEF ShapeOf, RoutingShape, Pulls
<1>3. Unposted(w[q])'
  BY DEF CallInv, Unposted
<1>4. call.op \in {"submit", "create", "revise", "close"} => call.n \in Pulls
  BY <1>1 DEF ShapeOf
<1>5. \A m \in Pulls : pulls'[m] = IF m = n THEN pull ELSE pulls[m]
  BY DEF Types
<1>6. Building(w[q])'
  <2> SUFFICES ASSUME call.op = "submit" PROVE ContainsRequired(call.n, call.rev, call.head)'
    BY DEF Building
  <2>1. ContainsRequired(call.n, call.rev, call.head) /\ call.n \in Pulls /\ pulls[call.n].rev \in Nat
    BY <1>4 DEF CallInv, Building, Types, PullShape
  <2> QED  BY <1>5, <2>1 DEF ContainsRequired
<1>7. Creating(w[q])' /\ Existing(w[q])' /\ Revising(w[q])' /\ Merging(w[q])'
  BY <1>4, <1>5 DEF CallInv, Creating, Existing, Revising, Merging
<1>8. Alone(w[q])'
  <2>1. \A m \in Pulls : IsActive(m)' => IsActive(m)
    BY <1>5 DEF IsActive, Acts
  <2> QED  BY <2>1 DEF CallInv, Alone, Conflicts, Apart, Pulls
<1> QED  BY <1>2, <1>3, <1>6, <1>7, <1>8 DEF CallInv

LEMMA RenewalKeeps ==
  ASSUME IInv, NEW p \in Workers, p = "advisor",
         NEW call, CallInv(p, call), w' = [w EXCEPT ![p] = call],
         call.at # "idle", call.op # "merge", call.at # "createPull",
         call.op = "revise" => call.at = "patched",
         NEW n \in Pulls, NEW pull, PullChanges(n, pull), Shaped(pull),
         pull.state # "none", pulls[n].state = "none" \/ pull.rev > pulls[n].rev,
         pull.rev \in Nat, pull.base \in Nat, Acts(pull) => IsActive(n), branch[n] # 0,
         UNCHANGED local
  PROVE  IInv'
<1>1. Types /\ pulls' = [pulls EXCEPT ![n] = pull]
      /\ UNCHANGED <<scope, comments, branch, live, merges, given, commits>>
  BY DEF PullChanges, local, IInv, GitInv
<1>2. \A m \in Pulls : pulls'[m] = IF m = n THEN pull ELSE pulls[m]
  BY <1>1 DEF Types
<1>3. Types'
  <2>1. \A m \in Pulls : PullShape(m)'
    BY <1>1, <1>2 DEF PullShape, Shaped, Types
  <2> QED  BY <1>1, <2>1 DEF Types, Pulls, CommentShape, Workers
<1>4. BranchFirst'
  BY <1>1, <1>2 DEF IInv, GitInv, BranchFirst, Pulls
<1>5. OneActive'
  <2>1. \A m \in Pulls : IsActive(m)' => IsActive(m)
    BY <1>2 DEF IsActive, Acts
  <2> QED  BY <1>1, <2>1 DEF IInv, GitInv, OneActive, Pulls, Apart
<1>6. OneCommentPerMark' /\ MergesBacked'
  <2>1. Pulls' = Pulls
    BY <1>1 DEF Pulls
  <2>2. OneCommentPerMark'
    BY <1>1 DEF IInv, GitInv, OneCommentPerMark
  <2>3. MergesBacked'
    <3> SUFFICES ASSUME NEW k \in Pulls, merges[k] # NotMerged PROVE Backed(k, merges[k])'
      BY <1>1, <2>1 DEF MergesBacked
    <3>1. Backed(k, merges[k])
      BY DEF IInv, GitInv, MergesBacked
    <3> QED  BY <1>1, <3>1 DEF Backed, Results
  <2> QED  BY <2>2, <2>3
<1>7. ResultsBuilt'
  <2> SUFFICES ASSUME NEW m \in Pulls, NEW c \in comments[m], c.mark.kind = "result"
               PROVE  ContainsRequired(m, c.mark.rev, c.mark.head)'
    BY <1>1 DEF ResultsBuilt, Pulls, IInv, GitInv
  <2>1. ContainsRequired(m, c.mark.rev, c.mark.head) /\ pulls[m].rev \in Nat
    BY <1>1 DEF IInv, GitInv, ResultsBuilt, Types, PullShape
  <2> QED  BY <1>1, <1>2, <2>1 DEF ContainsRequired
<1>8. ASSUME NEW q \in Workers PROVE CallInv(q, w[q])'
  <2>1. CASE q = p
    BY <1>1, <2>1, RenewedCall DEF Types
  <2>2. CASE q # p
    <3>1. PICK other : other = w[q] /\ CallInv(q, other) /\ w'[q] = other
      BY <1>1, <2>2 DEF Types, IInv
    <3>2. other.at # "idle" => other.op \notin {"create", "revise", "merge"} /\ other.at # "createPull"
      BY <2>2, <3>1, StepOps DEF CallInv, ShapeOf, Workers
    <3> QED  BY <1>1, <3>1, <3>2, RenewedCall
  <2> QED  BY <2>1, <2>2
<1> QED  BY <1>3, <1>4, <1>5, <1>6, <1>7, <1>8 DEF IInv, GitInv, Workers

LEMMA PatchKeeps ==
  ASSUME IInv, NEW p \in Workers, PatchRevision(p)
  PROVE  IInv'
<1>1. /\ Types /\ Running(p) /\ w[p].op = "revise" /\ w[p].n \in Pulls /\ w[p].at = "patch"
      /\ CallInv(p, w[p]) /\ p = "advisor"
  <2>1. w[p].at = "patch" /\ CallInv(p, w[p])
    BY DEF PatchRevision, At, IInv
  <2>2. w[p].op = "revise" /\ Running(p) /\ ShapeOf(p, w[p])
    BY <2>1, CallFacts, StepOps DEF LastSteps
  <2> QED  BY <2>1, <2>2 DEF ShapeOf, IInv, GitInv
<1>2. UNCHANGED local /\ To(p, "patched")
  BY DEF PatchRevision
<1>3. Moves(p)
  <2>1. Enters(w[p], "patched")
    BY <1>1 DEF Enters, StepsOf, EarlySteps
  <2> QED  BY <1>1, <1>2, <2>1, ToMoves DEF RoutingSteps
<1>4. CASE UNCHANGED gitHub
  BY <1>2, <1>3, <1>4, ReadsKeep DEF OnlyReads
<1>5. CASE PullChanges(w[p].n, [Pull(p) EXCEPT !.rev = w[p].new, !.base = w[p].base])
  <2>1. PICK n \in Pulls : n = w[p].n
    BY <1>1
  <2>2. PICK pull : pull = [Pull(p) EXCEPT !.rev = w[p].new, !.base = w[p].base]
    OBVIOUS
  <2>3. /\ w[p].new \in Nat /\ w[p].base \in Nat /\ w[p].new > pulls[n].rev
        /\ pulls[n].state # "none"
    BY <1>1, <2>1 DEF CallInv, Revising, Existing
  <2>4. /\ Shaped(pull) /\ pull.rev = w[p].new /\ pull.base = w[p].base
        /\ pull.state = pulls[n].state /\ pull.labels = pulls[n].labels
    <3>1. Shaped(Pull(p)) /\ Pull(p) = pulls[n]
      BY <1>1, <2>1 DEF Types, PullShape, Shaped, Pull
    <3> QED  BY <2>2, <3>1 DEF Shaped
  <2>5. PICK call : CallInv(p, call) /\ w' = [w EXCEPT ![p] = call]
    BY <1>3 DEF Moves
  <2>6. call.at = "patched" /\ call.op = "revise"
    <3>1. "at" \in DOMAIN w[p] /\ call = [w[p] EXCEPT !.at = "patched"]
      BY <1>1, <1>2, <2>5 DEF CallInv, To, Types
    <3> QED  BY <1>1, <3>1
  <2>7. PullChanges(n, pull) /\ (Acts(pull) => IsActive(n)) /\ branch[n] # 0
    BY <1>5, <2>1, <2>2, <2>3, <2>4 DEF Acts, IsActive, IInv, GitInv, BranchFirst
  <2> QED  BY <1>1, <1>2, <2>3, <2>4, <2>5, <2>6, <2>7, RenewalKeeps
<1> QED  BY <1>4, <1>5 DEF PatchRevision, Sent

LEMMA CreatePullKeeps ==
  ASSUME IInv, NEW p \in Workers, CreatePull(p)
  PROVE  IInv'
<1>1. /\ Types /\ Running(p) /\ w[p].op = "create" /\ w[p].n \in Pulls /\ w[p].at = "createPull"
      /\ CallInv(p, w[p]) /\ p = "advisor"
  <2>1. w[p].at = "createPull" /\ CallInv(p, w[p])
    BY DEF CreatePull, At, IInv
  <2>2. w[p].op = "create" /\ Running(p) /\ ShapeOf(p, w[p])
    BY <2>1, CallFacts, StepOps DEF LastSteps
  <2> QED  BY <2>1, <2>2 DEF ShapeOf, IInv, GitInv
<1>2. UNCHANGED local /\ To(p, "created")
  BY DEF CreatePull
<1>3. Moves(p)
  <2>1. Enters(w[p], "created")
    BY <1>1 DEF Enters, StepsOf, EarlySteps
  <2> QED  BY <1>1, <1>2, <2>1, ToMoves DEF RoutingSteps
<1>4. CASE UNCHANGED gitHub
  BY <1>2, <1>3, <1>4, ReadsKeep DEF OnlyReads
<1>5. CASE PullChanges(w[p].n, Opened(w[p].base, w[p].head))
  <2>1. PICK n \in Pulls : n = w[p].n
    BY <1>1
  <2>2. PICK pull : pull = Opened(w[p].base, w[p].head)
    OBVIOUS
  <2>3. w[p].base \in Nat /\ branch[n] # 0 /\ pulls[n].state = "none"
    BY <1>1, <2>1 DEF CallInv, Creating
  <2>4. /\ Shaped(pull) /\ pull.rev = 1 /\ pull.base = w[p].base
        /\ pull.state = "open" /\ pull.labels = {}
    BY <2>2 DEF Opened, Shaped
  <2>5. PICK call : CallInv(p, call) /\ w' = [w EXCEPT ![p] = call]
    BY <1>3 DEF Moves
  <2>6. call.at = "created" /\ call.op = "create"
    <3>1. "at" \in DOMAIN w[p] /\ call = [w[p] EXCEPT !.at = "created"]
      BY <1>1, <1>2, <2>5 DEF CallInv, To, Types
    <3> QED  BY <1>1, <3>1
  <2>7. PullChanges(n, pull) /\ ~ Acts(pull)
    BY <1>5, <2>1, <2>2, <2>4 DEF Acts
  <2>8. pull.state # "none" /\ pull.rev \in Nat /\ pull.base \in Nat
    BY <2>3, <2>4
  <2>9. call.at # "idle" /\ call.op # "merge" /\ call.at # "createPull" /\ call.op # "revise"
    BY <2>6
  <2> QED  BY <1>1, <1>2, <2>3, <2>4, <2>5, <2>7, <2>8, <2>9, RenewalKeeps
<1> QED  BY <1>4, <1>5 DEF CreatePull, Sent

-----------------------------------------------------------------------------
(* The writes of comments.                                                 *)

\* Whose mark a comment has.
Kinds(p) == IF p = "student" THEN {"result", "student"}
            ELSE {"revision", "acceptance", "closed", "advisor"}

LEMMA MarkOwner ==
  ASSUME NEW p \in Workers, NEW call, ShapeOf(p, call),
         call.at \in UpsertSteps \cup {"stillCurrent", "edit"}
  PROVE  /\ call.mark.kind \in Kinds(p)
         /\ call.mark.kind = "result" =>
              call.op = "submit" /\ call.mark = [kind |-> "result", rev |-> call.rev, head |-> call.head]
         /\ call.op \notin {"create", "repair", "merge"}
<1>1. call.op \in {"submit", "revise", "accept", "close", "message", "answer"}
  BY StepOps DEF ShapeOf, UpsertSteps
<1> QED  BY <1>1 DEF ShapeOf, Kinds, Workers, UpsertSteps

\* A comment with a new mark, for a worker that does not rely on its absence.
LEMMA PostedCall ==
  ASSUME Types, NEW q, NEW call, CallInv(q, call), w'[q] = call, NEW n, NEW c,
         comments' = [comments EXCEPT ![n] = @ \cup {c}],
         UNCHANGED <<scope, pulls, branch, commits>>,
         call.at \in {"stillCurrent", "post"} => call.n # n \/ c.mark # call.mark,
         call.at = "put" => call.n # n \/ c.mark # [kind |-> "result", rev |-> call.rev, head |-> call.head]
  PROVE  CallInv(q, w[q])'
<1> SUFFICES ASSUME call.at # "idle" PROVE CallInv(q, w[q])'
  BY DEF CallInv
<1>1. ShapeOf(q, call) /\ RoutingShape(call)
  BY DEF CallInv
<1>2. ShapeOf(q, w[q])' /\ RoutingShape(w[q])'
  BY <1>1 DEF ShapeOf, RoutingShape, Pulls
<1>3. call.n \in DOMAIN comments
  BY <1>1 DEF ShapeOf, Types
<1>4. comments'[call.n] = IF call.n = n THEN comments[n] \cup {c} ELSE comments[call.n]
  BY <1>3
<1>5. Unposted(w[q])'
  BY <1>4 DEF CallInv, Unposted
<1>6. Building(w[q])' /\ Creating(w[q])' /\ Existing(w[q])' /\ Revising(w[q])'
  BY DEF CallInv, Building, ContainsRequired, Creating, Existing, Revising
<1>7. Merging(w[q])'
  <2>1. Accepted(call) => Accepted(call)'
    BY <1>4 DEF Accepted
  <2>2. call.at = "put" => Results(call.n, call.rev, call.head)' = Results(call.n, call.rev, call.head)
    BY <1>4 DEF Results
  <2> QED  BY <2>1, <2>2 DEF CallInv, Merging, BindsBases
<1>8. Alone(w[q])'
  BY DEF CallInv, Alone, Conflicts, Apart, Pulls, IsActive
<1> QED  BY <1>2, <1>5, <1>6, <1>7, <1>8 DEF CallInv

LEMMA PostKeeps ==
  ASSUME IInv, NEW p \in Workers, PostComment(p)
  PROVE  IInv'
<1>1. /\ Types /\ Running(p) /\ w[p].n \in DOMAIN comments /\ w[p].at = "post"
      /\ CallInv(p, w[p]) /\ ShapeOf(p, w[p])
      /\ w[p].op \in {"submit", "revise", "accept", "close", "message", "answer"}
  <2>1. w[p].at = "post" /\ CallInv(p, w[p])
    BY DEF PostComment, At, IInv
  <2>2. /\ w[p].op \in {"submit", "revise", "accept", "close", "message", "answer"}
        /\ Running(p) /\ ShapeOf(p, w[p])
    BY <2>1, CallFacts, StepOps DEF LastSteps, UpsertSteps
  <2> QED  BY <2>1, <2>2 DEF ShapeOf, IInv, GitInv, Types
<1>2. UNCHANGED local /\ To(p, "verifyPost")
  BY DEF PostComment
<1>3. Moves(p)
  <2>1. Enters(w[p], "verifyPost")
    BY <1>1 DEF Enters, StepsOf, UpsertSteps, EarlySteps
  <2> QED  BY <1>1, <1>2, <2>1, ToMoves DEF RoutingSteps
<1>4. CASE UNCHANGED gitHub
  BY <1>2, <1>3, <1>4, ReadsKeep DEF OnlyReads
<1>5. CASE /\ comments' = [comments EXCEPT ![w[p].n] =
                @ \cup {[mark |-> w[p].mark, text |-> w[p].text, copy |-> Copies(p)]}]
           /\ UNCHANGED <<pulls, branch, live, merges>>
  <2>1. PICK n \in DOMAIN comments, mark \in {w[p].mark},
             c \in {[mark |-> w[p].mark, text |-> w[p].text, copy |-> Copies(p)]} :
          n = w[p].n /\ mark = w[p].mark /\ c = [mark |-> mark, text |-> w[p].text, copy |-> Copies(p)]
    BY <1>1
  <2>2. comments' = [comments EXCEPT ![n] = @ \cup {c}] /\ c.mark = mark /\ CommentShape(c)
    BY <1>5, <2>1 DEF CommentShape
  <2>3. \A d \in comments[n] : d.mark # mark
    BY <1>1, <2>1 DEF CallInv, Unposted
  <2>4. /\ mark.kind \in Kinds(p)
        /\ mark.kind = "result" =>
             /\ w[p].op = "submit" /\ mark = [kind |-> "result", rev |-> w[p].rev, head |-> w[p].head]
    BY <1>1, <2>1, MarkOwner DEF UpsertSteps
  <2>5. UNCHANGED <<scope, given, commits, pulls, branch, live, merges>> /\ Pulls' = Pulls
    BY <1>2, <1>5 DEF local, Pulls
  <2>6. \A m \in DOMAIN comments : comments'[m] = IF m = n THEN comments[n] \cup {c} ELSE comments[m]
    BY <2>2
  <2>7. DOMAIN comments' = DOMAIN comments /\ Pulls \subseteq DOMAIN comments
    BY <1>1, <2>2 DEF Types
  <2>8. PICK call : CallInv(p, call) /\ w' = [w EXCEPT ![p] = call] /\ call.at = "verifyPost"
    <3>1. PICK call : CallInv(p, call) /\ w' = [w EXCEPT ![p] = call]
      BY <1>3 DEF Moves
    <3>2. "at" \in DOMAIN w[p] /\ call = [w[p] EXCEPT !.at = "verifyPost"]
      BY <1>1, <1>2, <3>1 DEF CallInv, To, Types
    <3>3. call.at = "verifyPost"
      BY <3>2
    <3> QED  BY <3>1, <3>3
  <2>9. Types'
    BY <1>1, <2>2, <2>5, <2>6, <2>7, <2>8 DEF Types, PullShape, CommentShape, Workers
  <2>10. BranchFirst'
    BY <2>5 DEF IInv, GitInv, BranchFirst
  <2>11. OneCommentPerMark'
    BY <2>2, <2>3, <2>6, <2>7 DEF IInv, GitInv, OneCommentPerMark
  <2>12. ResultsBuilt'
    <3>1. mark.kind = "result" => ContainsRequired(n, mark.rev, mark.head)
      BY <1>1, <2>1, <2>4 DEF CallInv, Building
    <3>2. \A m \in Pulls : \A rev, head : ContainsRequired(m, rev, head) => ContainsRequired(m, rev, head)'
      BY <2>5 DEF ContainsRequired
    <3>3. \A m \in Pulls : \A d \in comments[m] : d.mark.kind = "result" =>
            /\ d.mark = [kind |-> "result", rev |-> d.mark.rev, head |-> d.mark.head]
            /\ ContainsRequired(m, d.mark.rev, d.mark.head)
      BY DEF IInv, GitInv, ResultsBuilt
    <3>4. \A m \in Pulls : \A d \in comments'[m] : d.mark.kind = "result" =>
            /\ d.mark = [kind |-> "result", rev |-> d.mark.rev, head |-> d.mark.head]
            /\ ContainsRequired(m, d.mark.rev, d.mark.head)
      BY <2>2, <2>4, <2>6, <2>7, <3>1, <3>3
    <3> QED  BY <2>5, <3>2, <3>4 DEF ResultsBuilt
  <2>13. MergesBacked'
    <3> SUFFICES ASSUME NEW k \in Pulls, merges[k] # NotMerged PROVE Backed(k, merges[k])'
      BY <2>5 DEF MergesBacked
    <3>1. PICK r : r = merges[k] /\ merges'[k] = r /\ Backed(k, r)
      BY <2>5 DEF IInv, GitInv, MergesBacked
    <3>2. Results(k, r.rev, r.head)' = Results(k, r.rev, r.head)
      <4>1. CASE k # n
        BY <2>6, <2>7, <4>1 DEF Results
      <4>2. CASE k = n
        <5>1. PICK d \in comments[n] : d.mark = [kind |-> "result", rev |-> r.rev, head |-> r.head]
          BY <3>1, <4>2 DEF Backed, Results
        <5>2. c.mark # [kind |-> "result", rev |-> r.rev, head |-> r.head]
          BY <2>2, <2>3, <5>1
        <5> QED  BY <2>6, <4>2, <5>2 DEF Results
      <4> QED  BY <4>1, <4>2
    <3>3. comments[k] \subseteq comments'[k]
      BY <2>6, <2>7
    <3> QED  BY <2>5, <3>1, <3>2, <3>3 DEF Backed
  <2>14. OneActive'
    <3>1. Apart => mark.kind # "result"
      BY <1>1, <2>4 DEF Apart, ShapeOf
    <3> QED  BY <2>2, <2>5, <2>6, <2>7, <3>1 DEF IInv, GitInv, OneActive, Apart, IsActive
  <2>15. ASSUME NEW q \in Workers PROVE CallInv(q, w[q])'
    <3>1. CASE q = p
      BY <1>1, <2>2, <2>5, <2>8, <3>1, PostedCall DEF Types
    <3>2. CASE q # p
      <4>1. PICK other : other = w[q] /\ CallInv(q, other) /\ w'[q] = other
        BY <1>1, <2>8, <3>2 DEF Types, IInv
      <4>2. other.at \in {"stillCurrent", "post"} => c.mark # other.mark
        <5>1. Kinds(p) \cap Kinds(q) = {}
          BY <3>2 DEF Kinds, Workers
        <5> QED  BY <2>2, <2>4, <4>1, <5>1, MarkOwner DEF CallInv, UpsertSteps
      <4>3. other.at = "put" =>
              other.n # n \/ c.mark # [kind |-> "result", rev |-> other.rev, head |-> other.head]
        <5> SUFFICES ASSUME other.at = "put", other.n = n
                     PROVE  c.mark # [kind |-> "result", rev |-> other.rev, head |-> other.head]
          OBVIOUS
        <5>1. Results(n, other.rev, other.head) # {}
          BY <4>1, StepOps DEF CallInv, ShapeOf, MergeSteps, Merging
        <5> QED  BY <2>2, <2>3, <5>1 DEF Results
      <4> QED  BY <1>1, <2>2, <2>5, <4>1, <4>2, <4>3, PostedCall
    <3> QED  BY <3>1, <3>2
  <2> QED  BY <2>9, <2>10, <2>11, <2>12, <2>13, <2>14, <2>15 DEF IInv, GitInv, Workers
<1> QED  BY <1>4, <1>5 DEF PostComment, Sent, gitHub

\* An answer is edited in an issue: what a call knows of pull requests stays.
LEMMA EditKeeps ==
  ASSUME IInv, ScopesAssumption, NEW p \in Workers, EditComment(p)
  PROVE  IInv'
<1>1. /\ Types /\ Running(p) /\ w[p].n \in DOMAIN comments /\ w[p].at = "edit"
      /\ w[p].n \notin Pulls /\ w[p].op = "answer" /\ w[p].mark.kind = p
  <2>1. w[p].at = "edit" /\ CallInv(p, w[p])
    BY DEF EditComment, At, IInv
  <2>2. w[p].op = "answer" /\ Running(p) /\ ShapeOf(p, w[p])
    BY <2>1, CallFacts, StepOps DEF LastSteps
  <2>3. w[p].n \in scope.issues /\ scope \in Scopes
    BY <2>2 DEF ShapeOf, IInv, GitInv, Types
  <2>4. w[p].n \notin Pulls
    BY <2>3 DEF ScopesAssumption, Pulls
  <2> QED  BY <2>1, <2>2, <2>3, <2>4 DEF ShapeOf, IInv, GitInv, Types
<1>2. UNCHANGED local /\ To(p, "verifyPost")
  BY DEF EditComment
<1>3. Moves(p)
  <2>1. Enters(w[p], "verifyPost")
    BY <1>1 DEF Enters, StepsOf, UpsertSteps, EarlySteps
  <2> QED  BY <1>1, <1>2, <2>1, ToMoves DEF RoutingSteps
<1>4. CASE UNCHANGED gitHub
  BY <1>2, <1>3, <1>4, ReadsKeep DEF OnlyReads
<1>5. CASE /\ comments' = [comments EXCEPT ![w[p].n] =
                (@ \ Marked(p)) \cup {[c EXCEPT !.text = w[p].text] : c \in Marked(p)}]
           /\ UNCHANGED <<pulls, branch, live, merges>>
  <2>1. PICK n \in DOMAIN comments : n = w[p].n /\ n \notin Pulls
    BY <1>1
  <2>2. PICK edited : edited = (comments[n] \ Marked(p)) \cup
                                 {[c EXCEPT !.text = w[p].text] : c \in Marked(p)}
    OBVIOUS
  <2>3. comments' = [comments EXCEPT ![n] = edited]
    BY <1>5, <2>1, <2>2
  <2>4. \A c \in edited : \E d \in comments[n] :
          /\ c.mark = d.mark /\ CommentShape(c)
          /\ c = IF d \in Marked(p) THEN [d EXCEPT !.text = w[p].text] ELSE d
    <3> SUFFICES ASSUME NEW c \in edited
                 PROVE  \E d \in comments[n] :
                          /\ c.mark = d.mark /\ CommentShape(c)
                          /\ c = IF d \in Marked(p) THEN [d EXCEPT !.text = w[p].text] ELSE d
      OBVIOUS
    <3>1. CASE c \in comments[n] \ Marked(p)
      BY <1>1, <3>1 DEF Types
    <3>2. CASE c \in {[d EXCEPT !.text = w[p].text] : d \in Marked(p)}
      <4>1. PICK d \in Marked(p) : c = [d EXCEPT !.text = w[p].text]
        BY <3>2
      <4>2. d \in comments[n] /\ CommentShape(d)
        BY <1>1, <2>1, <4>1 DEF Marked, Types
      <4>3. CommentShape(c) /\ c.mark = d.mark
        BY <4>1, <4>2 DEF CommentShape
      <4> QED  BY <4>1, <4>2, <4>3
    <3> QED  BY <2>2, <3>1, <3>2
  <2>5. UNCHANGED <<scope, given, commits, pulls, branch, live, merges>> /\ Pulls' = Pulls
    BY <1>2, <1>5 DEF local, Pulls
  <2>6. \A m \in DOMAIN comments : comments'[m] = IF m = n THEN edited ELSE comments[m]
    BY <2>3
  <2>7. DOMAIN comments' = DOMAIN comments /\ Pulls \subseteq DOMAIN comments
    BY <1>1, <2>3 DEF Types
  <2>8. \A m \in Pulls : comments'[m] = comments[m]
    BY <2>1, <2>6, <2>7
  <2>9. PICK call : CallInv(p, call) /\ w' = [w EXCEPT ![p] = call] /\ call.at = "verifyPost"
    <3>1. PICK call : CallInv(p, call) /\ w' = [w EXCEPT ![p] = call]
      BY <1>3 DEF Moves
    <3>2. "at" \in DOMAIN w[p] /\ call = [w[p] EXCEPT !.at = "verifyPost"]
      BY <1>1, <1>2, <3>1 DEF Running, CallInv, To, Types
    <3>3. call.at = "verifyPost"
      BY <3>2
    <3> QED  BY <3>1, <3>3
  <2>10. Types'
    BY <1>1, <2>4, <2>5, <2>6, <2>7, <2>9 DEF Types, PullShape, CommentShape, Workers
  <2>11. BranchFirst'
    BY <2>5 DEF IInv, GitInv, BranchFirst
  <2>12. OneCommentPerMark'
    <3>1. \A m \in DOMAIN comments : \A c, d \in comments[m] : c.mark = d.mark => c = d
      BY DEF IInv, GitInv, OneCommentPerMark
    <3>2. \A c, d \in edited : c.mark = d.mark => c = d
      BY <2>4, <3>1
    <3> QED  BY <2>6, <2>7, <3>1, <3>2 DEF OneCommentPerMark
  <2>13. ResultsBuilt'
    BY <2>5, <2>8 DEF IInv, GitInv, ResultsBuilt, ContainsRequired
  <2>14. MergesBacked'
    <3> SUFFICES ASSUME NEW k \in Pulls, merges[k] # NotMerged PROVE Backed(k, merges[k])'
      BY <2>5 DEF MergesBacked
    <3>1. Backed(k, merges[k])
      BY DEF IInv, GitInv, MergesBacked
    <3>2. comments'[k] = comments[k] /\ merges' = merges /\ commits' = commits
      BY <2>5, <2>8
    <3> QED  BY <3>1, <3>2 DEF Backed, Results
  <2>15. OneActive'
    BY <2>5, <2>8 DEF IInv, GitInv, OneActive, Apart, IsActive
  <2>16. ASSUME NEW q \in Workers, NEW other, CallInv(q, other), w'[q] = other,
                other.at \notin {"stillCurrent", "post"} \/ other.n \notin {n} \/ q # p
         PROVE  CallInv(q, w[q])'
    <3> SUFFICES ASSUME other.at # "idle" PROVE CallInv(q, w[q])'
      BY <2>16 DEF CallInv
    <3>1. ShapeOf(q, other) /\ RoutingShape(other)
      BY <2>16 DEF CallInv
    <3>2. ShapeOf(q, w[q])' /\ RoutingShape(w[q])'
      BY <2>5, <2>16, <3>1 DEF ShapeOf, RoutingShape, Pulls
    <3>3. other.n \in DOMAIN comments
      BY <1>1, <3>1 DEF ShapeOf, Types
    <3>4. Unposted(w[q])'
      BY <2>4, <2>6, <2>16, <3>3 DEF CallInv, Unposted
    <3>5. Building(w[q])' /\ Creating(w[q])' /\ Existing(w[q])' /\ Revising(w[q])'
      BY <2>5, <2>16 DEF CallInv, Building, ContainsRequired, Creating, Existing, Revising
    <3>6. Merging(w[q])'
      <4>1. other.op = "merge" => other.n \in Pulls
        BY <3>1 DEF ShapeOf
      <4> QED  BY <2>5, <2>8, <2>16, <4>1 DEF CallInv, Merging, BindsBases, Accepted, Results
    <3>7. Alone(w[q])'
      BY <2>5, <2>16 DEF CallInv, Alone, Conflicts, Apart, Pulls, IsActive
    <3> QED  BY <2>16, <3>2, <3>4, <3>5, <3>6, <3>7 DEF CallInv
  <2>17. ASSUME NEW q \in Workers PROVE CallInv(q, w[q])'
    <3>1. CASE q = p
      BY <1>1, <2>9, <2>16, <3>1 DEF Types
    <3>2. CASE q # p
      <4>1. PICK other : other = w[q] /\ CallInv(q, other) /\ w'[q] = other
        BY <1>1, <2>9, <3>2 DEF Types, IInv
      <4> QED  BY <2>16, <3>2, <4>1
    <3> QED  BY <3>1, <3>2
  <2> QED  BY <2>10, <2>11, <2>12, <2>13, <2>14, <2>15, <2>17 DEF IInv, GitInv, Workers
<1> QED  BY <1>4, <1>5 DEF EditComment, Sent, gitHub

-----------------------------------------------------------------------------
(* The surroundings, a creation's branch, and the specification.           *)

LEMMA TakeKeeps ==
  ASSUME IInv, NEW n \in Pulls, Take(n)
  PROVE  IInv'
<1>1. /\ UNCHANGED <<scope, commits, pulls, comments, branch, live, merges, w>>
      /\ given' = given \cup {n} /\ pulls[n].state = "open" /\ Types
  BY DEF Take, gitHub, IsActive, IInv, GitInv
<1>2. \A call : NoneJoins(call)
  BY <1>1 DEF NoneJoins, IsActive
<1>3. SteadyStep
  BY <1>1, <1>2 DEF SteadyStep
<1>4. Types'
  BY <1>1 DEF Types, Pulls, PullShape, CommentShape, Workers
<1>5. BranchFirst'
  BY <1>1 DEF IInv, GitInv, BranchFirst, Pulls
<1>6. OneActive'
  BY <1>1 DEF IInv, GitInv, OneActive, Pulls, IsActive, Apart
<1>7. Steady
  BY <1>1 DEF Steady, Alike, Extended, Types
<1> QED  BY <1>1, <1>3, <1>4, <1>5, <1>6, <1>7, SteadyKeeps

LEMMA CommitKeeps ==
  ASSUME IInv, NEW n \in Pulls, Commit(n)
  PROVE  IInv'
<1>1. /\ UNCHANGED <<scope, given, pulls, comments, branch, live, merges, w>> /\ Types
      /\ n \in given
  BY DEF Commit, gitHub, IInv, GitInv
<1>2. \A call : NoneJoins(call)
  BY <1>1 DEF NoneJoins, IsActive
<1>3. SteadyStep
  BY <1>1, <1>2 DEF SteadyStep
<1>4. branch[n] # 0 /\ commits[n] # <<>> /\ commits[n] \in Seq(Nat)
  BY <1>1 DEF IInv, GitInv, BranchFirst, Types
<1>5. PICK base \in Nat : commits' = [commits EXCEPT ![n] = Append(@, base)]
  <2>1. commits[n][Len(commits[n])] \in Nat /\ live \in Nat
    BY <1>1, <1>4 DEF Types
  <2> QED  BY <2>1 DEF Commit
<1>6. \A m \in Pulls : commits'[m] = IF m = n THEN Append(commits[n], base) ELSE commits[m]
  BY <1>1, <1>5 DEF Types
<1>7. /\ Append(commits[n], base) \in Seq(Nat) /\ Append(commits[n], base) # <<>>
      /\ Len(Append(commits[n], base)) = Len(commits[n]) + 1
      /\ \A i \in 1..Len(commits[n]) : Append(commits[n], base)[i] = commits[n][i]
      /\ Len(commits[n]) \in Nat
  BY <1>4
<1>8. Types'
  <2>1. commits' \in [Pulls -> Seq(Nat)]
    BY <1>1, <1>5, <1>7 DEF Types
  <2> QED  BY <1>1, <2>1 DEF Types, Pulls, PullShape, CommentShape, Workers
<1>9. BranchFirst'
  BY <1>1, <1>4, <1>6, <1>7 DEF IInv, GitInv, BranchFirst, Pulls
<1>10. OneActive'
  BY <1>1 DEF IInv, GitInv, OneActive, Pulls, IsActive, Apart
<1>11. Steady
  <2>1. ASSUME NEW m \in Pulls PROVE Extended(m)
    <3>1. Len(commits[m]) \in Nat
      BY <1>1 DEF Types
    <3>2. CASE m = n
      <4>1. commits'[n] = Append(commits[n], base)
        BY <1>6
      <4>2. /\ Len(commits[n]) <= Len(commits'[n])
            /\ \A i \in 1..Len(commits[n]) : commits'[n][i] = commits[n][i]
        BY <1>7, <4>1
      <4> QED  BY <1>1, <3>2, <4>2 DEF Extended
    <3>3. CASE m # n
      <4>1. commits'[m] = commits[m]
        BY <1>6, <3>3
      <4> QED  BY <1>1, <3>1, <4>1 DEF Extended
    <3> QED  BY <3>2, <3>3
  <2> QED  BY <1>1, <2>1 DEF Steady, Alike
<1> QED  BY <1>1, <1>3, <1>8, <1>9, <1>10, <1>11, SteadyKeeps

LEMMA BaseKeeps ==
  ASSUME IInv, BaseMoves
  PROVE  IInv'
<1>1. /\ UNCHANGED <<scope, given, commits, pulls, comments, branch, merges, w>> /\ Types
      /\ live' = live + 1
  BY DEF BaseMoves, local, IInv, GitInv
<1>2. \A call : NoneJoins(call)
  BY <1>1 DEF NoneJoins, IsActive
<1>3. SteadyStep
  BY <1>1, <1>2 DEF SteadyStep
<1>4. Types'
  BY <1>1 DEF Types, Pulls, PullShape, CommentShape, Workers
<1>5. BranchFirst'
  BY <1>1 DEF IInv, GitInv, BranchFirst, Pulls
<1>6. OneActive'
  BY <1>1 DEF IInv, GitInv, OneActive, Pulls, IsActive, Apart
<1>7. Steady
  BY <1>1 DEF Steady, Alike, Extended, Types
<1> QED  BY <1>1, <1>3, <1>4, <1>5, <1>6, <1>7, SteadyKeeps

\* The branch of a creation; its call has looked at nothing else yet.
LEMMA CreateKeeps ==
  ASSUME IInv, NEW n \in Pulls, CreateAssignment(n)
  PROVE  IInv'
<1>1. /\ UNCHANGED <<pulls, comments, live, merges, scope, given>> /\ Types /\ Pulls' = Pulls
      /\ "create" \in scope.ops
  BY DEF CreateAssignment, Calls, IInv, GitInv, Pulls
<1>2. \A m \in Pulls :
        /\ branch'[m] = IF m = n THEN 1 ELSE branch[m]
        /\ commits'[m] = IF m = n /\ branch[n] = 0 THEN <<live>> ELSE commits[m]
  BY <1>1 DEF CreateAssignment, Types
<1>3. /\ <<live>> \in Seq(Nat) /\ <<live>> # <<>> /\ Len(<<>>) = 0
      /\ branch[n] = 0 => commits[n] = <<>>
      /\ \A m \in Pulls : branch[m] = 0 <=> commits[m] = <<>>
  BY <1>1 DEF Types, IInv, GitInv, BranchFirst
<1>4. Types'
  <2>1. branch' \in [Pulls -> Nat] /\ commits' \in [Pulls -> Seq(Nat)] /\ DOMAIN w' = Workers
    BY <1>1, <1>3 DEF CreateAssignment, Types, Becomes
  <2> QED  BY <1>1, <2>1 DEF Types, PullShape, CommentShape, Workers
<1>5. BranchFirst'
  BY <1>1, <1>2, <1>3 DEF IInv, GitInv, BranchFirst
<1>6. OneActive'
  BY <1>1 DEF IInv, GitInv, OneActive, IsActive, Apart
<1>7. Steady
  <2>1. ASSUME NEW m \in Pulls PROVE Extended(m)
    <3>1. Len(commits[m]) \in Nat
      BY <1>1 DEF Types
    <3>2. CASE m = n /\ branch[n] = 0
      BY <1>2, <1>3, <3>2 DEF Extended
    <3>3. CASE ~ (m = n /\ branch[n] = 0)
      <4>1. commits'[m] = commits[m] /\ (branch[m] # 0 => branch'[m] # 0)
        BY <1>2, <3>3
      <4> QED  BY <3>1, <4>1 DEF Extended
    <3> QED  BY <3>2, <3>3
  <2> QED  BY <1>1, <2>1 DEF Steady, Alike
<1>8. GitInv'
  BY <1>1, <1>4, <1>5, <1>6, <1>7, SteadyGit DEF IInv
<1>9. \A call : NoneJoins(call)
  BY <1>1 DEF NoneJoins, IsActive
<1>10. CallInv("student", w["student"])'
  <2>1. PICK call : call = w["student"] /\ CallInv("student", call) /\ w'["student"] = call
    BY <1>1 DEF CreateAssignment, Becomes, Types, Workers, IInv
  <2> QED  BY <1>1, <1>7, <1>9, <2>1, SteadyCall
<1>11. CallInv("advisor", w["advisor"])'
  <2> DEFINE call == [at |-> "createConflicts", op |-> "create", n |-> n, rev |-> 1,
                      head |-> 1, base |-> live]
  <2>1. ShapeOf("advisor", call)
    BY <1>1 DEF ShapeOf, StepsOf, Fields
  <2>2. w'["advisor"] = call
    BY <1>1 DEF CreateAssignment, Becomes, Types, Workers
  <2>3. ShapeOf("advisor", w["advisor"])'
    BY <1>1, <2>1, <2>2 DEF ShapeOf, StepsOf, Fields
  <2>4. Creating(w["advisor"])'
    BY <1>1, <1>2, <2>2 DEF Creating, Types
  <2> QED  BY <2>2, <2>3, <2>4 DEF CallInv, RoutingShape, RoutingSteps, Unposted, Building,
         Existing, Revising, Merging, Alone, EarlySteps
<1> QED  BY <1>8, <1>10, <1>11 DEF IInv, Workers

LEMMA FailsKeep ==
  ASSUME IInv, NEW p \in Workers, Fails(p)
  PROVE  IInv'
BY StopReads, ReadsKeep DEF Fails, OnlyReads

LEMMA InitIInv ==
  ASSUME ScopesAssumption, Init
  PROVE  IInv
<1>1. /\ scope \in Scopes /\ scope.pulls \subseteq Nat
      /\ \A n, m \in scope.made : n = m
      /\ scope.made \subseteq Pulls
  BY DEF ScopesAssumption, Init, Pulls
<1>2. Types
  <2>1. \A n \in Pulls : PullShape(n)
    BY DEF Init, PullShape, Opened, NoPull
  <2>2. commits \in [Pulls -> Seq(Nat)]
    <3>1. <<1>> \in Seq(Nat) /\ <<>> \in Seq(Nat)
      OBVIOUS
    <3> QED  BY <3>1 DEF Init
  <2>3. given \subseteq Pulls /\ branch \in [Pulls -> Nat] /\ live \in Nat
    BY <1>1 DEF Init
  <2> QED  BY <1>1, <2>1, <2>2, <2>3 DEF Init, Types
<1>3. BranchFirst
  <2>1. <<1>> # <<>>
    OBVIOUS
  <2> QED  BY <1>1, <2>1 DEF Init, BranchFirst, NoPull
<1>4. \A n \in DOMAIN comments : comments[n] = {}
  BY DEF Init
<1>5. OneCommentPerMark /\ ResultsBuilt /\ MergesBacked
  BY <1>2, <1>4 DEF OneCommentPerMark, ResultsBuilt, MergesBacked, Init, Types
<1>6. OneActive
  <2>1. \A n \in Pulls : IsActive(n) => n \in scope.made
    BY DEF Init, IsActive, NoPull
  <2> QED  BY <1>1, <1>2, <1>4, <2>1 DEF OneActive, Types
<1>7. \A p \in Workers : CallInv(p, w[p])
  BY DEF Init, CallInv, Idle
<1> QED  BY <1>2, <1>3, <1>5, <1>6, <1>7 DEF IInv, GitInv

LEMMA UpsertKeeps ==
  ASSUME IInv, ScopesAssumption, NEW p \in Workers, Upsert(p)
  PROVE  IInv'
<1>1. Types /\ CallInv(p, w[p])
  BY DEF IInv, GitInv
<1> QED  BY <1>1, UpsertReads, ReadsKeep, PostKeeps, EditKeeps DEF Upsert

LEMMA StudentKeeps ==
  ASSUME IInv, ScopesAssumption, Student
  PROVE  IInv'
<1>1. Types /\ CallInv("student", w["student"]) /\ "student" \in Workers
  BY DEF IInv, GitInv, Workers
<1>2. CASE Submit("student")
  BY <1>1, <1>2, SubmitReads, ReadsKeep, PushKeeps DEF Submit
<1>3. CASE ReconcileRouting("student")
  BY <1>1, <1>3, ReconcileReads, ReadsKeep
<1> QED  BY <1>1, <1>2, <1>3, UpsertKeeps, SetRoutingKeeps DEF Student

LEMMA AdvisorKeeps ==
  ASSUME IInv, ScopesAssumption, Advisor
  PROVE  IInv'
<1>1. GitInv /\ Types /\ CallInv("advisor", w["advisor"]) /\ "advisor" \in Workers
  BY DEF IInv, GitInv, Workers
<1>2. CASE ReconcileRouting("advisor")
  BY <1>1, <1>2, ReconcileReads, ReadsKeep
<1>3. CASE Revise("advisor")
  BY <1>1, <1>3, ReviseReads, ReadsKeep, PatchKeeps DEF Revise
<1>4. CASE Accept("advisor")
  BY <1>1, <1>4, AcceptedResultReads, MergeReads, ReadsKeep DEF Accept
<1>5. CASE Merge("advisor")
  BY <1>1, <1>5, MergeResultReads, MergeReads, ReadsKeep, PutKeeps DEF Merge
<1>6. CASE Close("advisor")
  BY <1>1, <1>6, OtherReads, ReadsKeep, CloseKeeps DEF Close
<1>7. CASE CreateOrRepair("advisor")
  BY <1>1, <1>7, OtherReads, ReadsKeep, CreatePullKeeps DEF CreateOrRepair
<1> QED  BY <1>1, <1>2, <1>3, <1>4, <1>5, <1>6, <1>7, UpsertKeeps, SetRoutingKeeps DEF Advisor

LEMMA CallsKeep ==
  ASSUME IInv, NEW n \in Pulls, StudentCalls(n) \/ AdvisorCalls(n)
  PROVE  IInv'
<1>1. Types /\ "student" \in Workers /\ "advisor" \in Workers
  BY DEF IInv, GitInv, Workers
<1>2. CASE StudentCalls(n)
  BY <1>1, <1>2, StudentStarts, ReadsKeep
<1>3. CASE AdvisorCalls(n)
  <2>1. CASE CreateAssignment(n)
    BY <2>1, CreateKeeps
  <2>2. CASE CloseExperiment(n)
    BY <1>1, <2>2, CloseStarts, ReadsKeep
  <2>3. CASE RequestRevisionAgain(n) \/ \E base \in 1..live : RequestRevision(n, base)
    BY <1>1, <2>3, RevisionStarts, ReadsKeep
  <2>4. CASE \E base \in 1..live : AcceptResult(n, base) \/ MergeExperiment(n, base)
    BY <1>1, <2>4, DecisionStarts, ReadsKeep
  <2>5. CASE \E status \in Active, blockers \in SUBSET {"hold"} :
               RepairRouting(n, {status} \cup blockers)
    BY <1>1, <2>5, RepairStarts, ReadsKeep
  <2>6. CASE \E id \in 1..scope.heads, text \in 1..scope.texts :
               SendAssignmentFeedback(n, id, text)
    BY <1>1, <2>6, MessageStarts, ReadsKeep
  <2> QED  BY <1>3, <2>1, <2>2, <2>3, <2>4, <2>5, <2>6 DEF AdvisorCalls
<1> QED  BY <1>2, <1>3

LEMMA StutterKeeps ==
  ASSUME IInv, UNCHANGED vars
  PROVE  IInv'
<1>1. /\ UNCHANGED <<scope, given, commits, pulls, comments, branch, live, merges, w>> /\ Types
  BY DEF vars, IInv, GitInv
<1>2. \A call : NoneJoins(call)
  BY <1>1 DEF NoneJoins, IsActive
<1>3. SteadyStep
  BY <1>1, <1>2 DEF SteadyStep
<1>4. Types'
  BY <1>1 DEF Types, Pulls, PullShape, CommentShape, Workers
<1>5. BranchFirst'
  BY <1>1 DEF IInv, GitInv, BranchFirst, Pulls
<1>6. OneActive'
  BY <1>1 DEF IInv, GitInv, OneActive, Pulls, IsActive, Apart
<1>7. Steady
  BY <1>1 DEF Steady, Alike, Extended, Types
<1> QED  BY <1>1, <1>3, <1>4, <1>5, <1>6, <1>7, SteadyKeeps

LEMMA NextIInv ==
  ASSUME ScopesAssumption, IInv, [Next]_vars
  PROVE  IInv'
<1>1. CASE UNCHANGED vars
  BY <1>1, StutterKeeps
<1>2. CASE Student
  BY <1>2, StudentKeeps
<1>3. CASE Advisor
  BY <1>3, AdvisorKeeps
<1>4. CASE BaseMoves
  BY <1>4, BaseKeeps
<1>5. ASSUME NEW p \in Workers, Fails(p) PROVE IInv'
  BY <1>5, FailsKeep
<1>6. ASSUME NEW n \in Pulls,
             StudentCalls(n) \/ AdvisorCalls(n) \/ Take(n) \/ Commit(n) \/ PullFollowsBranch(n)
      PROVE  IInv'
  BY <1>6, CallsKeep, TakeKeeps, CommitKeeps, FollowsKeeps
<1>7. ASSUME NEW p \in Workers, NEW n \in scope.issues, NEW id, NEW text, RespondToIssue(p, n, id, text)
      PROVE  IInv'
  BY <1>7, AnswerStarts, ReadsKeep DEF IInv, GitInv
<1> QED  BY <1>1, <1>2, <1>3, <1>4, <1>5, <1>6, <1>7 DEF Next

\* The invariant of the assignment workflow: on GitHub and in the two workers'
\* calls, whatever requests and operations interleave, get lost or are cut off
\* (github/workflow).
THEOREM WorkflowInvariant == Spec => []IInv
<1>1. Init => IInv
  BY InitIInv, ScopesAssumption
<1>2. IInv /\ [Next]_vars => IInv'
  BY NextIInv, ScopesAssumption
<1> QED  BY <1>1, <1>2, PTL DEF Spec

\* A result, a decision, a message and an answer is on GitHub once, however
\* often its post was repeated, lost or cut off (comments.py, issues.py).
THEOREM CommentsPostedOnce == Spec => []OneCommentPerMark
<1>1. IInv => OneCommentPerMark
  BY DEF IInv, GitInv
<1> QED  BY <1>1, WorkflowInvariant, PTL

\* A merge is of the one result of its revision and head, on the base this
\* requires, named by the call or accepted (merge.py, results.py).
THEOREM MergesAreBacked == Spec => []MergeIsBacked
<1>1. IInv => MergeIsBacked
  <2> SUFFICES ASSUME IInv, NEW n \in Pulls, merges[n] # NotMerged
               PROVE  LET m == merges[n]
                      IN  /\ Cardinality(Results(n, m.rev, m.head)) = 1
                          /\ commits[n][m.head] >= m.required
                          /\ \/ m.required = m.named
                             \/ \E c \in comments[n], text \in Results(n, m.rev, m.head) :
                                  c.mark = AcceptanceMark([rev |-> m.rev, head |-> m.head,
                                             evaluated |-> m.required, base |-> m.named], text)
    BY DEF MergeIsBacked
  <2>1. Backed(n, merges[n])
    BY DEF IInv, GitInv, MergesBacked
  <2>2. \A text : Cardinality({text}) = 1
    BY FS_Singleton
  <2> QED  BY <2>1, <2>2 DEF Backed
<1> QED  BY <1>1, WorkflowInvariant, PTL

\* A student has at most one active assignment, as long as no submission
\* races a creation and no routing is repaired (assignments.py, revisions.py).
THEOREM OneAssignmentActive == Spec => []OneActiveAssignment
<1>1. IInv => OneActiveAssignment
  <2> SUFFICES ASSUME IInv, scope.ops \cap {"submit", "repair"} = {}
               PROVE  Cardinality({n \in Pulls : IsActive(n)}) <= 1
    BY DEF OneActiveAssignment
  <2>1. \A n, m \in Pulls : IsActive(n) /\ IsActive(m) => n = m
    BY DEF IInv, GitInv, OneActive, Apart
  <2>2. CASE {n \in Pulls : IsActive(n)} = {}
    BY <2>2, FS_EmptySet
  <2>3. CASE {n \in Pulls : IsActive(n)} # {}
    <3>1. PICK n \in Pulls : IsActive(n)
      BY <2>3
    <3>2. {m \in Pulls : IsActive(m)} = {n}
      BY <2>1, <3>1
    <3>3. Cardinality({n}) = 1
      BY FS_Singleton
    <3> QED  BY <3>2, <3>3
  <2> QED  BY <2>2, <2>3
<1> QED  BY <1>1, WorkflowInvariant, PTL

-----------------------------------------------------------------------------
(* Routing follows evidence.                                               *)

Has(n, rev, head) == Results(n, rev, head) # {}
IsOpened(n) == pulls[n].state = "open"

\* Draft state and labels of a pull request in review, or in progress.
Shows(pull, has) ==
  IF has THEN pull.draft = FALSE /\ "review" \in pull.labels /\ "wip" \notin pull.labels
         ELSE pull.draft = TRUE /\ "wip" \in pull.labels /\ "review" \notin pull.labels
Fits(n) == Shows(pulls[n], HasResult(n, pulls[n]))

\* The same, when the requests that a call has still to send are done.
Turns(call) == call.at \in RoutingSteps /\ call.turn
Adds(call) == IF call.at \in RoutingSteps THEN call.add ELSE {}
Removes(call) == IF call.at \in RoutingSteps THEN call.remove ELSE {}
DraftOf(call) == IF Turns(call) THEN call.draft ELSE pulls[call.n].draft
LabelsOf(call) == (pulls[call.n].labels \cup Adds(call)) \ Removes(call)
Reaches(call, has) == Shows([draft |-> DraftOf(call), labels |-> LabelsOf(call)], has)

\* All that a call writes is in favour of review, or of work in progress.
Toward(call, has) ==
  /\ call.remove \subseteq DOMAIN LabelOrder /\ (call.at = "remove" => call.remove # {})
  /\ IF has THEN call.draft = FALSE /\ "wip" \notin call.add /\ "review" \notin call.remove
            ELSE call.draft = TRUE /\ "review" \notin call.add /\ "wip" \notin call.remove

\* Steps before an operation wrote anything that routing depends on.
Unwritten == {"idle", "push", "requiredBase", "appliedResult", "reviseConflicts", "patch",
              "repairResult", "createConflicts", "createPull"}
Owes(call, n) == call.at \notin Unwritten /\ call.op \in Routing /\ call.n = n

\* A pull request shows the head of its branch, or its student waits until it does.
Heads(s) ==
  \A n \in Pulls :
    /\ pulls[n].head \in Nat /\ pulls[n].draft \in BOOLEAN
    /\ n \in given => pulls[n].state # "none"
    /\ pulls[n].state # "none" =>
         /\ pulls[n].head <= branch[n]
         /\ pulls[n].head # branch[n] => s.at = "submitBefore" /\ s.n = n
    /\ \A c \in comments[n] : c.mark.kind = "result" => c.mark.head <= pulls[n].head

\* What a submission knows.
Early == {"submitBefore", "find", "stillCurrent", "post", "verifyPost", "submitCurrent"}
Reviewing(s) ==
  s.at \in {"submitCurrent", "submitAfter"} \/ (s.at \in RoutingSteps /\ s.then = "submitAfter")
Restoring(s) == s.at \in ReconcileSteps \/ (s.at \in RoutingSteps /\ s.then \in {"recheck", "settle"})
Drafted(s) == s.at \in {"recheck", "recheckResult"} \/ (s.at \in RoutingSteps /\ s.then = "recheck")
Labelled(s) == s.at \in {"settle", "settleResult"} \/ (s.at \in RoutingSteps /\ s.then = "settle")
Stale(s) == s.rev < pulls[s.n].rev
Overtaken(s) == Restoring(s) /\ s.at # "reconcile" /\ s.seen.rev # pulls[s.n].rev

\* A submission that lost its revision restores the newer one's work in progress:
\* no result of it can be there, since submissions come one after the other.
SinceSeen(s) ==
  /\ s.seen.draft = TRUE => pulls[s.n].draft = TRUE
  /\ "wip" \in s.seen.labels => "wip" \in pulls[s.n].labels
  /\ "review" \in pulls[s.n].labels => "review" \in s.seen.labels
Restored(s) ==
  /\ Stale(s)
  /\ s.at # "reconcile" =>
       /\ Fields(s, {"seen"}) /\ s.seen.rev \in Nat
       /\ s.rev < s.seen.rev /\ s.seen.rev <= pulls[s.n].rev
       /\ s.seen.head = s.head /\ s.seen.draft \in BOOLEAN
       /\ s.seen.rev = pulls[s.n].rev => s.seen.base = pulls[s.n].base
  /\ Drafted(s) \/ Labelled(s) => Fields(s, {"has"}) /\ s.has = FALSE
  /\ IsOpened(s.n) /\ s.at \in {"reconcileResult", "recheckResult"} => SinceSeen(s)
  /\ IsOpened(s.n) /\ Drafted(s) => DraftOf(s) = TRUE
  /\ IsOpened(s.n) /\ Labelled(s) => Reaches(s, FALSE)
  /\ s.at = "settleResult" => Shows(s.seen, FALSE)

Known(s) ==
  s.at # "idle" /\ s.op = "submit" =>
    /\ s.n \in given
    /\ \A c \in comments[s.n] : c.mark.kind = "result" => c.mark.rev <= s.rev
    /\ s.at # "push" => branch[s.n] = s.head
    /\ s.at \notin {"push", "submitBefore"} => pulls[s.n].head = s.head
    /\ s.at = "verifyPost" => \E c \in comments[s.n] : c.mark = s.mark /\ c.text = s.text
    /\ Reviewing(s) => Has(s.n, s.rev, s.head)
    /\ s.at \in RoutingSteps => s.draft \in BOOLEAN /\ Toward(s, s.then = "submitAfter")
    /\ Restoring(s) => Restored(s)

\* What the advisor writes is in favour of review only when there is a result.
Plans(a) ==
  /\ a.at \in RoutingSteps => a.draft \in BOOLEAN /\ Toward(a, ~ a.draft)
  /\ a.at \in RoutingSteps \cup {"routed"} /\ a.draft = FALSE => Has(a.n, pulls[a.n].rev, a.head)
  /\ a.at # "idle" /\ a.op = "repair" => a.rev = pulls[a.n].rev
  /\ a.at = "repairResult" => "wip" \notin a.wanted /\ "review" \in a.wanted
  /\ a.at # "idle" /\ a.op = "create" =>
       /\ a.head = 1
       /\ a.at \in {"createConflicts", "createPull"} /\ pulls[a.n].state = "none" => branch[a.n] = 1
  /\ a.at # "idle" /\ a.op = "revise" => a.head \in Nat /\ a.head <= pulls[a.n].head
  /\ a.at # "idle" /\ a.op = "revise" /\ a.at \in ReconcileSteps \cup RoutingSteps =>
       /\ a.at # "reconcile" =>
            /\ Fields(a, {"seen"}) /\ a.seen.rev = pulls[a.n].rev /\ a.seen.base = pulls[a.n].base
            /\ a.seen.head = a.head
       /\ a.at \notin {"reconcile", "reconcileResult"} =>
            Fields(a, {"has"}) /\ a.has \in BOOLEAN /\ (a.has => Has(a.n, pulls[a.n].rev, a.head))

\* A revision request has read a settled routing and is about to return.
Matched(a) ==
  /\ a.at = "settleResult" /\ a.op = "revise" /\ IsOpened(a.n)
  /\ HasResult(a.n, a.seen) = a.has /\ Shows(a.seen, a.has)

\* Until it returns, routing stays what it read, or the student has still to return.
Between(s, a) ==
  Matched(a) =>
    /\ ~ Owes(s, a.n) => Fits(a.n)
    /\ Owes(s, a.n) =>
         /\ Stale(s) /\ (s.at \in Early \/ Overtaken(s)) => Shows(pulls[a.n], FALSE)
         /\ ~ Stale(s) /\ pulls[a.n].head = a.head => Shows(pulls[a.n], a.has)
         /\ ~ Stale(s) /\ pulls[a.n].head # a.head =>
              /\ s.at \in {"submitBefore", "find"} /\ HasResult(a.n, pulls[a.n]) =>
                   Shows(pulls[a.n], TRUE)
              /\ s.at \in RoutingSteps \cup {"submitAfter"} => Reaches(s, TRUE)

\* Workers that are done with a pull request leave it as its results say.
Rested(s, a, out) ==
  \A n \in Pulls \ out : IsOpened(n) /\ ~ Owes(s, n) /\ ~ Owes(a, n) => Fits(n)

Std == w["student"]
Adv == w["advisor"]
RoutingParts ==
  /\ Heads(Std) /\ Known(Std) /\ Plans(Adv) /\ Between(Std, Adv) /\ Rested(Std, Adv, halfway \cup parked)
RInv == faults \in Nat /\ (faults = 0 => RoutingParts)

-----------------------------------------------------------------------------
(* Steps that write nothing on GitHub.                                     *)

\* What a step leaves that changes neither pull requests, comments nor branches.
LEMMA ViewsStay ==
  ASSUME UNCHANGED <<scope, pulls, comments, branch>>, NEW s, NEW a, NEW out,
         given \subseteq given', \A n \in given' \ given : pulls[n].state # "none"
  PROVE  /\ Heads(s) => Heads(s)'
         /\ Known(s) => Known(s)'
         /\ Plans(a)' <=> Plans(a)
         /\ Between(s, a)' <=> Between(s, a)
         /\ Rested(s, a, out)' <=> Rested(s, a, out)
<1>0. Pulls' = Pulls
  BY DEF Pulls
<1>1. Heads(s) => Heads(s)'
  BY <1>0 DEF Heads
<1>2. \A n, rev, head : (Results(n, rev, head)' = Results(n, rev, head))
  BY DEF Results
<1>3. \A n, rev, head : (Has(n, rev, head)' <=> Has(n, rev, head))
  BY <1>2 DEF Has
<1>4. \A n, pull : (HasResult(n, pull)' <=> HasResult(n, pull))
  BY <1>2 DEF HasResult
<1>5. \A pull, has : Shows(pull, has)' <=> Shows(pull, has)
  BY DEF Shows
<1>6. \A n : (IsOpened(n)' <=> IsOpened(n)) /\ (Fits(n)' <=> Fits(n))
  BY <1>4 DEF IsOpened, Fits, Shows
<1>7. \A call : DraftOf(call)' = DraftOf(call) /\ LabelsOf(call)' = LabelsOf(call)
  BY DEF DraftOf, LabelsOf, Turns, Adds, Removes
<1>8. \A call, has : Reaches(call, has)' <=> Reaches(call, has)
  BY <1>7 DEF Reaches, Shows
<1>9. (Stale(s)' <=> Stale(s)) /\ (Restored(s)' <=> Restored(s)) /\ (Overtaken(s)' <=> Overtaken(s))
  BY <1>6, <1>7, <1>8 DEF Stale, Restored, SinceSeen, Overtaken, Restoring, Drafted, Labelled, Shows
<1>10. Known(s) => Known(s)'
  BY <1>3, <1>9 DEF Known, Reviewing, Restoring, Toward
<1>11. Plans(a)' <=> Plans(a)
  BY <1>3 DEF Plans, Toward
<1>12. Between(s, a)' <=> Between(s, a)
  BY <1>4, <1>5, <1>6, <1>8, <1>9 DEF Between, Matched, Owes, Shows
<1>13. Rested(s, a, out)' <=> Rested(s, a, out)
  BY <1>0, <1>6 DEF Rested, Owes
<1> QED  BY <1>1, <1>10, <1>11, <1>12, <1>13

\* A read of the student: what its next call knows has to hold already.
LEMMA StudentReads ==
  ASSUME Types, RoutingParts, UNCHANGED <<gitHub, local>>, NEW s, w' = [w EXCEPT !["student"] = s],
         Heads(s), Known(s), Between(s, Adv), Rested(s, Adv, halfway' \cup parked')
  PROVE  RoutingParts'
<1>1. w'["student"] = s /\ w'["advisor"] = w["advisor"]
  BY DEF Types, Workers
<1>2. PICK a, out : a = Adv /\ out = halfway' \cup parked'
  OBVIOUS
<1>3. /\ UNCHANGED <<scope, given, pulls, comments, branch>>
      /\ Heads(s) /\ Known(s) /\ Plans(a) /\ Between(s, a) /\ Rested(s, a, out)
  BY <1>2 DEF gitHub, local, RoutingParts
<1>4. Heads(s)' /\ Known(s)' /\ Plans(a)' /\ Between(s, a)' /\ Rested(s, a, out)'
  BY <1>3, ViewsStay
<1>5. a = w'["advisor"] /\ s = w'["student"] /\ out = (halfway \cup parked)'
  BY <1>1, <1>2 DEF Adv
<1> QED  BY <1>4, <1>5 DEF RoutingParts, Std, Adv

\* A read of the advisor: what its next call plans has to hold already.
LEMMA AdvisorReads ==
  ASSUME Types, RoutingParts, UNCHANGED <<gitHub, local>>, NEW a, w' = [w EXCEPT !["advisor"] = a],
         Plans(a), Between(Std, a), Rested(Std, a, halfway' \cup parked')
  PROVE  RoutingParts'
<1>1. w'["advisor"] = a /\ w'["student"] = w["student"]
  BY DEF Types, Workers
<1>2. PICK s, out : s = Std /\ out = halfway' \cup parked'
  OBVIOUS
<1>3. /\ UNCHANGED <<scope, given, pulls, comments, branch>>
      /\ Heads(s) /\ Known(s) /\ Plans(a) /\ Between(s, a) /\ Rested(s, a, out)
  BY <1>2 DEF gitHub, local, RoutingParts
<1>4. Heads(s)' /\ Known(s)' /\ Plans(a)' /\ Between(s, a)' /\ Rested(s, a, out)'
  BY <1>3, ViewsStay
<1>5. a = w'["advisor"] /\ s = w'["student"] /\ out = (halfway \cup parked)'
  BY <1>1, <1>2 DEF Std
<1> QED  BY <1>4, <1>5 DEF RoutingParts, Std, Adv

-----------------------------------------------------------------------------
(* The reads of a submission.                                              *)

\* The student's call is a submission of a result it was given the pull request for.
LEMMA SubmitFacts ==
  ASSUME IInv, RoutingParts, Std.at # "idle", Std.op = "submit"
  PROVE  /\ "student" \in Workers /\ Types /\ DOMAIN w = Workers
         /\ Std.n \in Pulls /\ Fields(Std, {"at", "op", "n", "rev", "head", "text", "mark"})
         /\ Std.mark = [kind |-> "result", rev |-> Std.rev, head |-> Std.head]
         /\ Std.rev \in Nat /\ pulls[Std.n].rev \in Nat /\ Std.rev <= pulls[Std.n].rev
         /\ Std.at \in StepsOf("submit") /\ RoutingShape(Std)
         /\ Known(Std) /\ pulls[Std.n].state # "none"
         /\ Std.at \notin {"idle", "push"} => Owes(Std, Std.n)
<1>1. "student" \in Workers /\ Types /\ CallInv("student", Std)
  BY DEF IInv, GitInv, Workers, Std
<1>2. ShapeOf("student", Std) /\ RoutingShape(Std) /\ Building(Std) /\ "at" \in DOMAIN Std
  BY <1>1 DEF CallInv
<1>3. Std.n \in Pulls /\ Fields(Std, {"at", "op", "n", "rev", "head", "text", "mark"})
      /\ Std.mark = [kind |-> "result", rev |-> Std.rev, head |-> Std.head]
      /\ Std.at \in StepsOf("submit")
  BY <1>2 DEF ShapeOf, Fields
<1>4. Std.rev \in Nat /\ pulls[Std.n].rev \in Nat /\ Std.rev <= pulls[Std.n].rev
      /\ pulls[Std.n].state # "none"
  BY <1>1, <1>2, <1>3 DEF Building, ContainsRequired, Types, PullShape
<1>5. Std.at \notin {"idle", "push"} => Owes(Std, Std.n)
  BY <1>3 DEF Owes, Unwritten, Routing, StepsOf, UpsertSteps, RoutingSteps, ReconcileSteps
<1> QED  BY <1>1, <1>2, <1>3, <1>4, <1>5 DEF RoutingParts, Types

\* There is no result of a revision newer than the submission's.
LEMMA NoneNewer ==
  ASSUME NEW s, Known(s), s.at # "idle", s.op = "submit", s.rev \in Nat,
         NEW rev \in Nat, s.rev < rev, NEW head
  PROVE  ~ Has(s.n, rev, head)
<1> SUFFICES ASSUME Has(s.n, rev, head) PROVE FALSE
  OBVIOUS
<1>1. PICK c \in comments[s.n] : c.mark = [kind |-> "result", rev |-> rev, head |-> head]
  BY DEF Has, Results
<1>2. c.mark.rev <= s.rev /\ c.mark.rev = rev
  BY <1>1 DEF Known
<1> QED  BY <1>2

\* A call of the student ends, and its pull request fits or counts as left halfway.
LEMMA StudentStops ==
  ASSUME Types, RoutingParts, UNCHANGED <<gitHub, local>>, w' = [w EXCEPT !["student"] = Idle],
         NEW n \in Pulls, Owes(Std, n), pulls[n].head = branch[n],
         (halfway \cup parked) \ {n} \subseteq halfway' \cup parked',
         IsOpened(n) => \/ Fits(n)
                        \/ n \in halfway' \cup parked' /\ ~ (Matched(Adv) /\ Adv.n = n)
  PROVE  RoutingParts'
<1>1. Heads(Idle)
  BY DEF RoutingParts, Heads, Owes
<1>2. Known(Idle)
  BY DEF Known, Idle
<1>3. \A m : ~ Owes(Idle, m)
  BY DEF Owes, Unwritten, Idle
<1>4. \A m : m # n => ~ Owes(Std, m)
  BY DEF Owes
<1>5. Between(Idle, Adv)
  <2>1. Matched(Adv) => Fits(Adv.n)
    <3>1. CASE Adv.n = n
      BY <3>1 DEF Matched
    <3>2. CASE Adv.n # n
      BY <1>4, <3>2 DEF RoutingParts, Between
    <3> QED  BY <3>1, <3>2
  <2> QED  BY <1>3, <2>1 DEF Between
<1>6. Rested(Idle, Adv, halfway' \cup parked')
  BY <1>3, <1>4 DEF RoutingParts, Rested
<1> QED  BY <1>1, <1>2, <1>5, <1>6, StudentReads

\* A call of the student goes on and still owes its pull request the routing.
LEMMA StudentGoesOn ==
  ASSUME Types, RoutingParts, UNCHANGED <<gitHub, local, history>>, NEW s,
         w' = [w EXCEPT !["student"] = s],
         NEW n \in Pulls, Owes(Std, n), Owes(s, n), pulls[n].head = branch[n],
         Known(s), Adv.n = n => Between(s, Adv)
  PROVE  RoutingParts'
<1>1. Heads(s)
  BY DEF RoutingParts, Heads, Owes
<1>2. \A m : m # n => ~ Owes(Std, m) /\ ~ Owes(s, m)
  BY DEF Owes
<1>3. Between(s, Adv)
  BY <1>2 DEF RoutingParts, Between
<1>4. Rested(s, Adv, halfway' \cup parked')
  BY <1>2 DEF RoutingParts, Rested, history
<1> QED  BY <1>1, <1>3, <1>4, StudentReads

\* What a call named by its step alone keeps.
LEMMA StepFields ==
  ASSUME NEW call, NEW step, Fields(call, {"at"})
  PROVE  LET s == [call EXCEPT !.at = step]
         IN  s.at = step /\ DOMAIN s = DOMAIN call /\ \A f \in DOMAIN call : f # "at" => s[f] = call[f]
BY DEF Fields

-----------------------------------------------------------------------------
\* What a routing change that has begun will have done to draft state and labels.
LEMMA OnwardReaches ==
  ASSUME NEW call, {"at", "n"} \cup RoutingFields \subseteq DOMAIN call, call.then \notin RoutingSteps
  PROVE  LET later == Onward(call)
         IN  /\ DOMAIN later = DOMAIN call
             /\ \A f \in DOMAIN call : f # "at" => later[f] = call[f]
             /\ later.at \in RoutingSteps \cup {call.then}
             /\ later.at = "remove" => later.remove # {}
             /\ DraftOf(later) = IF call.turn THEN call.draft ELSE pulls[call.n].draft
             /\ LabelsOf(later) = (pulls[call.n].labels \cup call.add) \ call.remove
<1> DEFINE later == Onward(call)
<1>1. /\ DOMAIN later = DOMAIN call
      /\ \A f \in DOMAIN call : f # "at" => later[f] = call[f]
      /\ later.at \in RoutingSteps \cup {call.then}
  BY OnwardCarries
<1>2. later.at = CASE call.turn -> "draft"
                   [] ~ call.turn /\ call.add # {} -> "add"
                   [] ~ call.turn /\ call.add = {} /\ call.remove # {} -> "remove"
                   [] OTHER -> call.then
  BY DEF Onward
<1> HIDE DEF later
<1>3. /\ later.n = call.n /\ later.turn = call.turn /\ later.draft = call.draft
      /\ later.add = call.add /\ later.remove = call.remove
  BY <1>1 DEF RoutingFields
<1>4. DraftOf(later) = IF call.turn THEN call.draft ELSE pulls[call.n].draft
  BY <1>2, <1>3 DEF DraftOf, Turns, RoutingSteps
<1>5. LabelsOf(later) = (pulls[call.n].labels \cup call.add) \ call.remove
  BY <1>2, <1>3 DEF LabelsOf, Adds, Removes, RoutingSteps
<1>6. later.at = "remove" => later.remove # {}
  BY <1>2, <1>3 DEF RoutingSteps
<1> QED  BY <1>1, <1>4, <1>5, <1>6 DEF later

\* The call that begins a routing change.
RoutedTo(call, seen, draft, add, remove, then, later) ==
  /\ DOMAIN later = DOMAIN call \cup RoutingFields
  /\ \A f \in DOMAIN call \ RoutingFields : f # "at" => later[f] = call[f]
  /\ later.at \in RoutingSteps \cup {then}
  /\ later.at = "remove" => later.remove # {}
  /\ later.draft = draft /\ later.add = add \ seen.labels
  /\ later.remove = remove \cap seen.labels /\ later.then = then
  /\ DraftOf(later) = IF seen.draft # draft THEN draft ELSE pulls[call.n].draft
  /\ LabelsOf(later) = (pulls[call.n].labels \cup (add \ seen.labels)) \ (remove \cap seen.labels)

\* A routing change that begins reaches what it was asked for.
LEMMA RouteReaches ==
  ASSUME NEW call, {"at", "n"} \subseteq DOMAIN call,
         NEW seen, NEW draft, NEW add, NEW remove, NEW then, then \notin RoutingSteps
  PROVE  RoutedTo(call, seen, draft, add, remove, then, Route(call, seen, draft, add, remove, then))
<1> DEFINE fields == [turn |-> seen.draft # draft, draft |-> draft, add |-> add \ seen.labels,
                      remove |-> remove \cap seen.labels, then |-> then]
           routed == With(call, fields)
<1>1. /\ DOMAIN fields = RoutingFields
      /\ fields.turn = (seen.draft # draft) /\ fields.draft = draft /\ fields.add = add \ seen.labels
      /\ fields.remove = remove \cap seen.labels /\ fields.then = then
  BY DEF RoutingFields
<1> HIDE DEF fields
<1>0. /\ DOMAIN routed = DOMAIN call \cup DOMAIN fields
      /\ \A f \in DOMAIN fields : routed[f] = fields[f]
      /\ \A f \in DOMAIN call \ DOMAIN fields : routed[f] = call[f]
  BY WithFields
<1>4. Onward(routed) = Route(call, seen, draft, add, remove, then)
  BY DEF Route, fields
<1> HIDE DEF routed
<1>2. /\ DOMAIN routed = DOMAIN call \cup RoutingFields
      /\ \A f \in DOMAIN call \ RoutingFields : routed[f] = call[f]
      /\ routed.turn = (seen.draft # draft) /\ routed.draft = draft /\ routed.add = add \ seen.labels
      /\ routed.remove = remove \cap seen.labels /\ routed.then = then /\ routed.n = call.n
  BY <1>0, <1>1 DEF RoutingFields
<1>3. LET later == Onward(routed)
      IN  /\ DOMAIN later = DOMAIN routed
          /\ \A f \in DOMAIN routed : f # "at" => later[f] = routed[f]
          /\ later.at \in RoutingSteps \cup {routed.then}
          /\ later.at = "remove" => later.remove # {}
          /\ DraftOf(later) = IF routed.turn THEN routed.draft ELSE pulls[routed.n].draft
          /\ LabelsOf(later) = (pulls[routed.n].labels \cup routed.add) \ routed.remove
  BY <1>2, OnwardReaches
<1> HIDE DEF Route
<1> DEFINE later == Route(call, seen, draft, add, remove, then)
<1>5. /\ DOMAIN later = DOMAIN routed
      /\ \A f \in DOMAIN routed : f # "at" => later[f] = routed[f]
      /\ later.at \in RoutingSteps \cup {routed.then}
      /\ later.at = "remove" => later.remove # {}
      /\ DraftOf(later) = IF routed.turn THEN routed.draft ELSE pulls[routed.n].draft
      /\ LabelsOf(later) = (pulls[routed.n].labels \cup routed.add) \ routed.remove
  BY <1>3, <1>4
<1> HIDE DEF later
<1>6. RoutedTo(call, seen, draft, add, remove, then, later)
  BY <1>2, <1>5 DEF RoutedTo, RoutingFields
<1> QED  BY <1>6 DEF later

\* Routing that a revision request has read, or its student has restored, is right.
LEMMA MatchedFits ==
  ASSUME IInv, RoutingParts, NEW n, n = Std.n, Owes(Std, n), Std.op = "submit",
         Matched(Adv), Adv.n = n,
         \/ Stale(Std) /\ (Std.at \in Early \/ Overtaken(Std))
         \/ ~ Stale(Std) /\ pulls[n].head = Adv.head
         \/ ~ Stale(Std) /\ Std.at \in {"submitBefore", "find"} /\ HasResult(n, pulls[n])
  PROVE  Fits(n)
<1>0. Std.at # "idle"
  BY DEF Owes, Unwritten
<1>1. Known(Std) /\ Std.rev \in Nat /\ pulls[n].rev \in Nat /\ Between(Std, Adv) /\ Plans(Adv)
  BY <1>0, SubmitFacts DEF RoutingParts
<1>2. Adv.seen.rev = pulls[n].rev /\ Adv.seen.head = Adv.head /\ HasResult(n, Adv.seen) = Adv.has
  BY <1>1 DEF Matched, Plans, ReconcileSteps
<1>3. CASE Stale(Std) /\ (Std.at \in Early \/ Overtaken(Std))
  <2>1. ~ HasResult(n, pulls[n])
    BY <1>0, <1>1, <1>3, NoneNewer DEF Stale, HasResult, Has
  <2> QED  BY <1>1, <1>3, <2>1 DEF Between, Fits, Shows
<1>4. CASE ~ Stale(Std) /\ pulls[n].head = Adv.head
  <2>1. HasResult(n, pulls[n]) = Adv.has
    BY <1>2, <1>4 DEF HasResult
  <2> QED  BY <1>1, <1>4, <2>1 DEF Between, Fits, Shows
<1>5. CASE ~ Stale(Std) /\ pulls[n].head # Adv.head
           /\ Std.at \in {"submitBefore", "find"} /\ HasResult(n, pulls[n])
  BY <1>1, <1>5 DEF Between, Fits, Shows
<1> QED  BY <1>3, <1>4, <1>5

\* A submission ends in an error.
LEMMA SubmitRaises ==
  ASSUME IInv, RoutingParts, NEW n, n = Std.n, Owes(Std, n), Std.op = "submit",
         pulls[n].head = branch[n], Raises("student"), UNCHANGED <<gitHub, local>>,
         IsOpened(n) /\ Matched(Adv) /\ Adv.n = n => Fits(n)
  PROVE  RoutingParts'
<1>0. Std.at # "idle"
  BY DEF Owes, Unwritten
<1>1. n \in Pulls /\ Types
  BY <1>0, SubmitFacts
<1>2. halfway' = halfway \cup {n} /\ parked' = parked /\ w' = [w EXCEPT !["student"] = Idle]
  BY DEF Raises, Becomes, Std, Routing
<1> QED  BY <1>1, <1>2, StudentStops

\* A submission returns: its pull request has to be as its results say.
LEMMA SubmitReturns ==
  ASSUME IInv, RoutingParts, NEW n, n = Std.n, Owes(Std, n), Std.op = "submit",
         pulls[n].head = branch[n], Returns("student"), UNCHANGED <<gitHub, local>>,
         IsOpened(n) => Fits(n)
  PROVE  RoutingParts'
<1>0. Std.at # "idle"
  BY DEF Owes, Unwritten
<1>1. n \in Pulls /\ Types
  BY <1>0, SubmitFacts
<1>2. halfway' = halfway \ {n} /\ parked' = parked \ {n} /\ w' = [w EXCEPT !["student"] = Idle]
  BY DEF Returns, Becomes, Std, Routing
<1> QED  BY <1>1, <1>2, StudentStops

-----------------------------------------------------------------------------
\* The submission goes on with another step.
LEMMA SubmitGoes ==
  ASSUME IInv, RoutingParts, NEW n, n = Std.n, Owes(Std, n), Std.op = "submit",
         pulls[n].head = branch[n], UNCHANGED <<gitHub, local, history>>,
         NEW s, w' = [w EXCEPT !["student"] = s], s.n = n, s.op = "submit", s.at \notin Unwritten,
         Known(s), Adv.n = n => Between(s, Adv)
  PROVE  RoutingParts'
<1>0. Std.at # "idle"
  BY DEF Owes, Unwritten
<1>1. n \in Pulls /\ Types
  BY <1>0, SubmitFacts
<1>2. Owes(s, n)
  BY DEF Owes, Routing
<1> QED  BY <1>1, <1>2, StudentGoesOn

\* A submission goes on to its next read or to the post of the result.
LEMMA SubmitSteps ==
  ASSUME IInv, RoutingParts, NEW n, n = Std.n, Owes(Std, n), Std.op = "submit",
         pulls[n].head = branch[n], pulls[n].head = Std.head, UNCHANGED <<gitHub, local, history>>,
         NEW step \in {"find", "stillCurrent", "post", "submitCurrent", "reconcile"},
         To("student", step),
         step = "submitCurrent" => Has(n, Std.rev, Std.head),
         step = "reconcile" => Stale(Std),
         step \in {"find", "stillCurrent", "post", "submitCurrent"} => Std.at \in Early,
         step = "find" => Std.at = "submitBefore" /\ ~ Stale(Std)
  PROVE  RoutingParts'
<1>0. Std.at # "idle"
  BY DEF Owes, Unwritten
<1> DEFINE s == [Std EXCEPT !.at = step]
<1>1. /\ n \in Pulls /\ Types /\ Known(Std) /\ Fields(Std, {"at", "op", "n", "rev", "head", "text", "mark"})
      /\ Std.at \in StepsOf("submit")
  BY <1>0, SubmitFacts
<1>2. w' = [w EXCEPT !["student"] = s]
  BY <1>1 DEF To, Types, Std
<1>3. /\ s.at = step /\ s.n = n /\ s.op = "submit" /\ s.rev = Std.rev /\ s.head = Std.head
      /\ DOMAIN s = DOMAIN Std
  BY <1>1 DEF Fields
<1> HIDE DEF s
<1>4. Known(s)
  BY <1>0, <1>1, <1>3 DEF Known, Reviewing, Restoring, Restored, RoutingSteps, ReconcileSteps,
     Drafted, Labelled, Stale, Owes, Unwritten
<1>5. Stale(s) = Stale(Std)
  BY <1>3 DEF Stale
<1>6. ~ Overtaken(s) \/ FALSE
  BY <1>3 DEF Overtaken, Restoring, ReconcileSteps, RoutingSteps
<1>7. Owes(s, n)
  BY <1>3 DEF Owes, Unwritten, Routing
<1>8. Between(s, Adv) \/ Adv.n # n
  BY <1>1, <1>3, <1>5, <1>6, <1>7 DEF Between, RoutingParts, Early, RoutingSteps
<1> QED  BY <1>1, <1>2, <1>3, <1>4, <1>8, SubmitGoes DEF Unwritten

\* The read after the push.
LEMMA SubmitBeforeRoutes ==
  ASSUME IInv, RoutingParts, SubmitBefore("student")
  PROVE  RoutingParts'
<1> DEFINE n == Std.n
<1>0. Std.at = "submitBefore" /\ Std.at # "idle" /\ pulls[n].head = Std.head /\ UNCHANGED <<gitHub, local>>
  BY DEF SubmitBefore, At, Std, AtHead, Pull
<1>1. Std.op = "submit"
  <2>1. CallInv("student", Std)
    BY DEF IInv, Workers, Std
  <2> QED  BY <1>0, <2>1, StepOps DEF CallInv, ShapeOf
<1>2. Known(Std) /\ Owes(Std, n) /\ n \in Pulls /\ Std.rev \in Nat /\ pulls[n].rev \in Nat /\ Std.rev <= pulls[n].rev
  BY <1>0, <1>1, SubmitFacts
<1>3. branch[n] = Std.head
  BY <1>0, <1>1, <1>2 DEF Known
<1>4. CASE IsAssigned("student")
  <2>1. ~ Stale(Std)
    BY <1>2, <1>4 DEF Stale, IsAssigned, AtRevision, Std, Pull
  <2>2. To("student", "find") /\ UNCHANGED history
    BY <1>4 DEF SubmitBefore
  <2> QED  BY <1>0, <1>1, <1>2, <1>3, <2>1, <2>2, SubmitSteps DEF Early
<1>5. CASE ~ IsAssigned("student")
  <2>1. IsOpened(n) => Stale(Std)
    BY <1>0, <1>2, <1>5 DEF Stale, IsAssigned, AtRevision, SamePull, AtHead, IsOpen, IsOpened, Std, Pull
  <2>2. IsOpened(n) /\ Matched(Adv) /\ Adv.n = n => Fits(n)
    BY <1>0, <1>1, <1>2, <2>1, MatchedFits DEF Early
  <2> QED  BY <1>0, <1>1, <1>2, <1>3, <1>5, <2>2, SubmitRaises DEF SubmitBefore
<1> QED  BY <1>4, <1>5

\* The read right before a result is posted.
LEMMA StillCurrentRoutes ==
  ASSUME IInv, RoutingParts, StillCurrent("student")
  PROVE  RoutingParts'
<1> DEFINE n == Std.n
<1>0. Std.at = "stillCurrent" /\ Std.at # "idle" /\ UNCHANGED <<gitHub, local>>
  BY DEF StillCurrent, At, Std
<1>1. Std.op = "submit"
  <2>1. CallInv("student", Std)
    BY DEF IInv, Workers, Std
  <2> QED  BY <1>0, <2>1, StepOps DEF CallInv, ShapeOf
<1>2. Known(Std) /\ Owes(Std, n) /\ n \in Pulls /\ Std.rev \in Nat /\ pulls[n].rev \in Nat /\ Std.rev <= pulls[n].rev
  BY <1>0, <1>1, SubmitFacts
<1>3. branch[n] = Std.head /\ pulls[n].head = Std.head
  BY <1>0, <1>1, <1>2 DEF Known
<1>4. CASE IsAssigned("student")
  BY <1>0, <1>1, <1>2, <1>3, <1>4, SubmitSteps DEF Early, StillCurrent
<1>5. CASE ~ IsAssigned("student")
  <2>1. IsOpened(n) => Stale(Std)
    BY <1>3, <1>2, <1>5 DEF Stale, IsAssigned, AtRevision, SamePull, AtHead, IsOpen, IsOpened, Std, Pull
  <2>2. IsOpened(n) /\ Matched(Adv) /\ Adv.n = n => Fits(n)
    BY <1>0, <1>1, <1>2, <2>1, MatchedFits DEF Early
  <2> QED  BY <1>0, <1>1, <1>2, <1>3, <1>5, <2>2, SubmitRaises DEF StillCurrent
<1> QED  BY <1>4, <1>5

\* The result is there and says what was submitted, or there was another one.
LEMMA SubmitFindRoutes ==
  ASSUME IInv, RoutingParts, Std.op = "submit", FindComment("student")
  PROVE  RoutingParts'
<1> DEFINE n == Std.n
<1>0. Std.at = "find" /\ Std.at # "idle" /\ UNCHANGED <<gitHub, local>>
  BY DEF FindComment, At, Std
<1>2. /\ Known(Std) /\ Owes(Std, n) /\ n \in Pulls /\ Std.rev \in Nat /\ pulls[n].rev \in Nat
      /\ Std.rev <= pulls[n].rev /\ Std.mark = [kind |-> "result", rev |-> Std.rev, head |-> Std.head]
      /\ Types
  BY <1>0, SubmitFacts
<1>3. branch[n] = Std.head /\ pulls[n].head = Std.head
  BY <1>0, <1>2 DEF Known
<1>4. Texts("student") = Results(n, Std.rev, Std.head)
  BY <1>2 DEF Texts, Marked, Results, Std
<1>5. CASE Unambiguous("student") /\ Texts("student") = {}
  <2>1. To("student", "stillCurrent") /\ UNCHANGED history
    BY <1>5 DEF FindComment, Std
  <2> QED  BY <1>0, <1>2, <1>3, <2>1, SubmitSteps DEF Early
<1>6. CASE Unambiguous("student") /\ Texts("student") = {w["student"].text}
  <2>1. Texts("student") # {}
    BY <1>6
  <2>2. To("student", "submitCurrent") /\ UNCHANGED history
    BY <1>6, <2>1 DEF FindComment, Std, Upserted
  <2> QED  BY <1>0, <1>2, <1>3, <1>4, <2>1, <2>2, SubmitSteps DEF Early, Has
<1>7. CASE ~ Unambiguous("student")
           \/ (Texts("student") # {} /\ Texts("student") # {w["student"].text})
  <2>1. Raises("student")
    BY <1>7 DEF FindComment, Std
  <2>2. Texts("student") # {}
    <3>1. ASSUME Texts("student") = {} PROVE Unambiguous("student")
      <4>1. Cardinality(Texts("student")) <= 1
        BY <3>1, FS_EmptySet
      <4> QED  BY <4>1 DEF Unambiguous, Std
    <3> QED  BY <1>7, <3>1
  <2>3. ~ Stale(Std) => HasResult(n, pulls[n])
    BY <1>2, <1>3, <1>4, <2>2 DEF Stale, HasResult
  <2>4. Matched(Adv) /\ Adv.n = n => Fits(n)
    BY <1>0, <1>2, <2>3, MatchedFits DEF Early
  <2> QED  BY <1>0, <1>2, <1>3, <2>1, <2>4, SubmitRaises
<1> QED  BY <1>5, <1>6, <1>7

\* The result that was posted is the only one under its mark.
LEMMA SubmitVerifyRoutes ==
  ASSUME IInv, RoutingParts, Std.op = "submit", VerifyPost("student")
  PROVE  RoutingParts'
<1> DEFINE n == Std.n
<1>0. Std.at = "verifyPost" /\ Std.at # "idle" /\ UNCHANGED <<gitHub, local>>
  BY DEF VerifyPost, At, Std
<1>2. /\ Known(Std) /\ Owes(Std, n) /\ n \in Pulls
      /\ Std.mark = [kind |-> "result", rev |-> Std.rev, head |-> Std.head]
      /\ Types
  BY <1>0, SubmitFacts
<1>3. branch[n] = Std.head /\ pulls[n].head = Std.head
  BY <1>0, <1>2 DEF Known
<1>4. PICK c \in comments[n] : c.mark = Std.mark /\ c.text = Std.text
  BY <1>0, <1>2 DEF Known
<1>5. Marked("student") = {c}
  <2>1. n \in DOMAIN comments /\ OneCommentPerMark
    BY <1>2 DEF Types, IInv, GitInv
  <2> QED  BY <1>4, <2>1 DEF Marked, OneCommentPerMark, Std
<1>6. Texts("student") = {Std.text}
  BY <1>4, <1>5 DEF Texts
<1>7. Unambiguous("student")
  <2>1. Cardinality(Texts("student")) = 1
    BY <1>6, FS_Singleton
  <2> QED  BY <2>1 DEF Unambiguous, Std
<1>8. To("student", "submitCurrent") /\ UNCHANGED history
  BY <1>6, <1>7 DEF VerifyPost, Upserted, Std
<1>9. Has(n, Std.rev, Std.head)
  BY <1>2, <1>4 DEF Has, Results
<1> QED  BY <1>0, <1>2, <1>3, <1>8, <1>9, SubmitSteps DEF Early

-----------------------------------------------------------------------------
\* The read after the result is posted: on to review, or to the newer revision.
LEMMA SubmitCurrentRoutes ==
  ASSUME IInv, RoutingParts, SubmitCurrent("student")
  PROVE  RoutingParts'
<1> DEFINE n == Std.n
<1>0. Std.at = "submitCurrent" /\ Std.at # "idle" /\ UNCHANGED <<gitHub, local>>
  BY DEF SubmitCurrent, At, Std
<1>1. Std.op = "submit"
  <2>1. CallInv("student", Std)
    BY DEF IInv, Workers, Std
  <2> QED  BY <1>0, <2>1, StepOps DEF CallInv, ShapeOf
<1>2. /\ Known(Std) /\ Owes(Std, n) /\ n \in Pulls /\ Std.rev \in Nat /\ pulls[n].rev \in Nat
      /\ Std.rev <= pulls[n].rev /\ Types
      /\ Fields(Std, {"at", "op", "n", "rev", "head", "text", "mark"})
  BY <1>0, <1>1, SubmitFacts
<1>3. branch[n] = Std.head /\ pulls[n].head = Std.head /\ Has(n, Std.rev, Std.head)
  BY <1>0, <1>1, <1>2 DEF Known, Reviewing
<1>4. CASE ~ SamePull("student")
  <2>1. ~ IsOpened(n)
    BY <1>3, <1>4 DEF SamePull, AtHead, IsOpen, IsOpened, Std, Pull
  <2> QED  BY <1>0, <1>1, <1>2, <1>3, <1>4, <2>1, SubmitRaises DEF SubmitCurrent
<1>5. CASE SamePull("student") /\ ~ AtRevision("student")
  <2>1. Stale(Std)
    BY <1>2, <1>5 DEF Stale, AtRevision, Pull, Std
  <2> QED  BY <1>0, <1>1, <1>2, <1>3, <1>5, <2>1, SubmitSteps DEF SubmitCurrent
<1>6. CASE SamePull("student") /\ AtRevision("student")
  <2> DEFINE s == Route(Std, pulls[n], FALSE, {"review"}, {"wip"}, "submitAfter")
  <2>1. w' = [w EXCEPT !["student"] = s] /\ UNCHANGED history
    BY <1>6 DEF SubmitCurrent, Becomes, Std, Pull
  <2>2. /\ DOMAIN s = DOMAIN Std \cup RoutingFields
        /\ \A f \in DOMAIN Std \ RoutingFields : f # "at" => s[f] = Std[f]
        /\ s.at \in RoutingSteps \cup {"submitAfter"}
        /\ s.at = "remove" => s.remove # {}
        /\ s.draft = FALSE /\ s.add = {"review"} \ pulls[n].labels
        /\ s.remove = {"wip"} \cap pulls[n].labels /\ s.then = "submitAfter"
        /\ DraftOf(s) = IF pulls[n].draft # FALSE THEN FALSE ELSE pulls[n].draft
        /\ LabelsOf(s) = (pulls[n].labels \cup ({"review"} \ pulls[n].labels))
                         \ ({"wip"} \cap pulls[n].labels)
    <3>1. {"at", "n"} \subseteq DOMAIN Std /\ "submitAfter" \notin RoutingSteps
      BY <1>2 DEF Fields, RoutingSteps
    <3>2. PICK no : no = FALSE
      OBVIOUS
    <3>3. RoutedTo(Std, pulls[n], no, {"review"}, {"wip"}, "submitAfter",
                   Route(Std, pulls[n], no, {"review"}, {"wip"}, "submitAfter"))
      BY <3>1, RouteReaches
    <3>4. Route(Std, pulls[n], no, {"review"}, {"wip"}, "submitAfter") = s
      BY <3>2
    <3>5. RoutedTo(Std, pulls[n], no, {"review"}, {"wip"}, "submitAfter", s)
      BY <3>3, <3>4
    <3> HIDE DEF s
    <3> QED  BY <3>2, <3>5 DEF RoutedTo
  <2> HIDE DEF s
  <2>3. s.n = n /\ s.op = "submit" /\ s.rev = Std.rev /\ s.head = Std.head
    BY <1>1, <1>2, <2>2 DEF Fields, RoutingFields
  <2>4. Reaches(s, TRUE)
    BY <2>2 DEF Reaches, Shows
  <2>5. Known(s)
    <3>1. Toward(s, TRUE) /\ Reviewing(s) /\ ~ Restoring(s)
      BY <2>2 DEF Toward, LabelOrder, Reviewing, Restoring, RoutingSteps, ReconcileSteps
    <3> QED  BY <1>0, <1>1, <1>2, <1>3, <2>2, <2>3, <3>1 DEF Known, RoutingSteps
  <2>6. s.at \notin Unwritten /\ ~ Stale(s) /\ ~ Stale(Std)
    BY <1>2, <1>6, <2>2, <2>3 DEF Unwritten, Stale, AtRevision, Pull, Std, RoutingSteps
  <2>7. Adv.n = n => Between(s, Adv)
    <3>1. s.at \notin {"submitBefore", "find"} /\ Owes(s, n)
      BY <2>2, <2>3, <2>6 DEF RoutingSteps, Owes, Routing
    <3> QED  BY <1>2, <2>3, <2>4, <2>6, <3>1 DEF Between, RoutingParts
  <2> QED  BY <1>1, <1>2, <1>3, <1>0, <2>1, <2>3, <2>5, <2>6, <2>7, SubmitGoes
<1> QED  BY <1>4, <1>5, <1>6

\* The last read of a submission whose requests for review are done.
LEMMA SubmitAfterRoutes ==
  ASSUME IInv, RoutingParts, SubmitAfter("student")
  PROVE  RoutingParts'
<1> DEFINE n == Std.n
<1>0. Std.at = "submitAfter" /\ Std.at # "idle" /\ UNCHANGED <<gitHub, local>>
  BY DEF SubmitAfter, At, Std
<1>1. Std.op = "submit"
  <2>1. CallInv("student", Std)
    BY DEF IInv, Workers, Std
  <2> QED  BY <1>0, <2>1, StepOps DEF CallInv, ShapeOf
<1>2. /\ Known(Std) /\ Owes(Std, n) /\ n \in Pulls /\ Std.rev \in Nat /\ pulls[n].rev \in Nat
      /\ Std.rev <= pulls[n].rev /\ Types
  BY <1>0, <1>1, SubmitFacts
<1>3. branch[n] = Std.head /\ pulls[n].head = Std.head /\ Has(n, Std.rev, Std.head)
  BY <1>0, <1>1, <1>2 DEF Known, Reviewing
<1>4. CASE ~ SamePull("student")
  <2>1. ~ IsOpened(n)
    BY <1>3, <1>4 DEF SamePull, AtHead, IsOpen, IsOpened, Std, Pull
  <2> QED  BY <1>0, <1>1, <1>2, <1>3, <1>4, <2>1, SubmitRaises DEF SubmitAfter
<1>5. CASE SamePull("student") /\ ~ AtRevision("student")
  <2>1. Stale(Std)
    BY <1>2, <1>5 DEF Stale, AtRevision, Pull, Std
  <2> QED  BY <1>0, <1>1, <1>2, <1>3, <1>5, <2>1, SubmitSteps DEF SubmitAfter
<1>6. CASE SamePull("student") /\ AtRevision("student")
  <2>1. pulls[n].rev = Std.rev /\ ~ Stale(Std)
    BY <1>2, <1>6 DEF Stale, AtRevision, Pull, Std
  <2>2. HasResult(n, pulls[n])
    BY <1>3, <2>1 DEF HasResult, Has
  <2>3. pulls[n].draft \in BOOLEAN
    BY <1>2 DEF RoutingParts, Heads
  <2>4. Shows(pulls[n], TRUE) <=>
          (~ pulls[n].draft /\ "review" \in pulls[n].labels /\ "wip" \notin pulls[n].labels)
    BY <2>3 DEF Shows
  <2>5. CASE Shows(pulls[n], TRUE)
    <3>1. Returns("student")
      BY <1>6, <2>4, <2>5 DEF SubmitAfter, Pull, Std
    <3>2. Fits(n)
      BY <2>2, <2>5 DEF Fits, Shows
    <3> QED  BY <1>0, <1>1, <1>2, <1>3, <3>1, <3>2, SubmitReturns
  <2>6. CASE ~ Shows(pulls[n], TRUE)
    <3>1. Raises("student")
      BY <1>6, <2>4, <2>6 DEF SubmitAfter, Pull, Std
    <3>2. Matched(Adv) /\ Adv.n = n => Fits(n)
      <4> SUFFICES ASSUME Matched(Adv), Adv.n = n PROVE Fits(n)
        OBVIOUS
      <4>1. CASE pulls[n].head = Adv.head
        BY <1>1, <1>2, <2>1, <4>1, MatchedFits
      <4>2. CASE pulls[n].head # Adv.head
        <5>1. Reaches(Std, TRUE)
          BY <1>0, <1>2, <2>1, <4>2 DEF RoutingParts, Between
        <5>2. Shows(pulls[n], TRUE)
          BY <1>0, <5>1 DEF Reaches, DraftOf, LabelsOf, Turns, Adds, Removes, RoutingSteps, Shows
        <5> QED  BY <2>6, <5>2
      <4> QED  BY <4>1, <4>2
    <3> QED  BY <1>0, <1>1, <1>2, <1>3, <3>1, <3>2, SubmitRaises
  <2> QED  BY <2>5, <2>6
<1> QED  BY <1>4, <1>5, <1>6

-----------------------------------------------------------------------------
(* A submission that restores the routing of a newer revision.             *)

\* A submission that restores has lost its revision to a newer one.
LEMMA RestoringFacts ==
  ASSUME IInv, RoutingParts, NEW n, n = Std.n, Std.at \in ReconcileSteps, Std.op = "submit"
  PROVE  /\ Std.at # "idle" /\ Known(Std) /\ Owes(Std, n) /\ n \in Pulls /\ Types
         /\ Std.rev \in Nat /\ pulls[n].rev \in Nat /\ Std.rev < pulls[n].rev
         /\ Fields(Std, {"at", "op", "n", "rev", "head", "text", "mark"})
         /\ branch[n] = Std.head /\ pulls[n].head = Std.head /\ Stale(Std) /\ Restored(Std)
         /\ pulls[n].draft \in BOOLEAN /\ pulls[n].base \in Nat
         /\ Matched(Adv) /\ Adv.n = n /\ Overtaken(Std) => Fits(n)
<1>1. Std.at \notin {"idle", "push", "submitBefore"} /\ Restoring(Std)
  BY DEF ReconcileSteps, Restoring
<1>2. /\ Known(Std) /\ Owes(Std, n) /\ n \in Pulls /\ Types
      /\ Std.rev \in Nat /\ pulls[n].rev \in Nat
      /\ Fields(Std, {"at", "op", "n", "rev", "head", "text", "mark"})
  BY <1>1, SubmitFacts
<1>3. branch[n] = Std.head /\ pulls[n].head = Std.head /\ Restored(Std) /\ Stale(Std)
  BY <1>1, <1>2 DEF Known, Restored
<1>4. Std.rev < pulls[n].rev
  BY <1>3 DEF Stale
<1>5. pulls[n].draft \in BOOLEAN /\ pulls[n].base \in Nat
  BY <1>2 DEF RoutingParts, Heads, Types, PullShape
<1>6. Matched(Adv) /\ Adv.n = n /\ Overtaken(Std) => Fits(n)
  BY <1>2, <1>3, MatchedFits
<1> QED  BY <1>1, <1>2, <1>3, <1>4, <1>5, <1>6

\* A call that goes on restoring.
LEMMA RestoringGoes ==
  ASSUME IInv, RoutingParts, NEW n, n = Std.n, Std.at \in ReconcileSteps, Std.op = "submit",
         UNCHANGED <<gitHub, local, history>>, NEW s, w' = [w EXCEPT !["student"] = s],
         s.n = n, s.op = "submit", s.rev = Std.rev, s.head = Std.head,
         Restoring(s), Restored(s), s.at \in RoutingSteps => s.draft \in BOOLEAN /\ Toward(s, FALSE),
         s.at \in RoutingSteps \cup ReconcileSteps,
         Overtaken(s) => Overtaken(Std)
  PROVE  RoutingParts'
<1>1. /\ Std.at # "idle" /\ Known(Std) /\ Owes(Std, n) /\ n \in Pulls /\ Types
      /\ branch[n] = Std.head /\ pulls[n].head = Std.head /\ Stale(Std)
  BY RestoringFacts
<1>2. ~ Reviewing(s)
  BY DEF Restoring, Reviewing, ReconcileSteps, RoutingSteps
<1>3. Known(s)
  <2>1. s.at \in RoutingSteps => Toward(s, s.then = "submitAfter")
    BY <1>2 DEF Reviewing, Toward
  <2> QED  BY <1>1, <1>2, <2>1 DEF Known, RoutingSteps, ReconcileSteps
<1>4. Stale(s) /\ s.at \notin Unwritten /\ s.at \notin Early
  BY DEF Restored, Unwritten, Early, RoutingSteps, ReconcileSteps
<1>5. Owes(s, n)
  BY <1>4 DEF Owes, Routing
<1>6. Adv.n = n => Between(s, Adv)
  BY <1>1, <1>4, <1>5 DEF Between, RoutingParts
<1> QED  BY <1>1, <1>3, <1>4, <1>6, SubmitGoes

\* Another attempt, since the revision or its results changed.
LEMMA AgainRestores ==
  ASSUME IInv, RoutingParts, NEW n, n = Std.n, Std.at \in ReconcileSteps, Std.op = "submit",
         UNCHANGED <<gitHub, local>>, Again("student"), Overtaken(Std)
  PROVE  RoutingParts'
<1>1. /\ Std.at # "idle" /\ Known(Std) /\ Owes(Std, n) /\ n \in Pulls /\ Types
      /\ branch[n] = Std.head /\ pulls[n].head = Std.head /\ Stale(Std)
      /\ Fields(Std, {"at", "op", "n", "rev", "head", "text", "mark"})
      /\ Matched(Adv) /\ Adv.n = n => Fits(n)
  BY RestoringFacts
<1>2. CASE Raises("student")
  BY <1>1, <1>2, SubmitRaises
<1>3. CASE ~ Raises("student")
  <2>1. PICK tries : /\ w' = [w EXCEPT !["student"] = With(Std, [at |-> "reconcile", tries |-> tries])]
                     /\ UNCHANGED history
    BY <1>3 DEF Again, Becomes, Std
  <2> DEFINE fields == [at |-> "reconcile", tries |-> tries]
             s == With(Std, fields)
  <2>2. /\ DOMAIN s = DOMAIN Std \cup DOMAIN fields
        /\ \A f \in DOMAIN fields : s[f] = fields[f]
        /\ \A f \in DOMAIN Std \ DOMAIN fields : s[f] = Std[f]
    BY WithFields
  <2>3. w' = [w EXCEPT !["student"] = s]
    BY <2>1
  <2> HIDE DEF s
  <2>4. s.at = "reconcile" /\ s.n = n /\ s.op = "submit" /\ s.rev = Std.rev /\ s.head = Std.head
    BY <1>1, <2>2 DEF Fields
  <2>5. Restoring(s) /\ ~ Overtaken(s) /\ s.at \notin RoutingSteps /\ s.at \in ReconcileSteps
    BY <2>4 DEF Restoring, Overtaken, RoutingSteps, ReconcileSteps
  <2>6. Restored(s)
    BY <1>1, <2>4 DEF Restored, Stale, Drafted, Labelled, RoutingSteps
  <2> QED  BY <2>1, <2>3, <2>4, <2>5, <2>6, RestoringGoes
<1> QED  BY <1>2, <1>3

\* The pull request as it is read between two attempts or requests.
LEMMA SeenRestores ==
  ASSUME IInv, RoutingParts, NEW n, n = Std.n, Std.at \in ReconcileSteps, Std.op = "submit",
         UNCHANGED <<gitHub, local, history>>,
         NEW step \in {"reconcileResult", "recheckResult", "settleResult"},
         Becomes("student", With(w["student"], [at |-> step, seen |-> Pull("student")])),
         IsOpened(n),
         step = "recheckResult" => Std.at = "recheck",
         step = "settleResult" => Std.at = "settle"
  PROVE  RoutingParts'
<1>1. /\ Std.at # "idle" /\ Known(Std) /\ Owes(Std, n) /\ n \in Pulls /\ Types
      /\ Std.rev \in Nat /\ pulls[n].rev \in Nat /\ Std.rev < pulls[n].rev
      /\ branch[n] = Std.head /\ pulls[n].head = Std.head /\ Stale(Std) /\ Restored(Std)
      /\ Fields(Std, {"at", "op", "n", "rev", "head", "text", "mark"})
      /\ pulls[n].draft \in BOOLEAN
  BY RestoringFacts
<1> DEFINE fields == [at |-> step, seen |-> pulls[n]]
           s == With(Std, fields)
<1>2. /\ DOMAIN s = DOMAIN Std \cup DOMAIN fields
      /\ \A f \in DOMAIN fields : s[f] = fields[f]
      /\ \A f \in DOMAIN Std \ DOMAIN fields : s[f] = Std[f]
  BY WithFields
<1>3. w' = [w EXCEPT !["student"] = s]
  BY DEF Becomes, Std, Pull
<1> HIDE DEF s
<1>4. s.at = step /\ s.seen = pulls[n] /\ s.n = n /\ s.op = "submit" /\ s.rev = Std.rev /\ s.head = Std.head
  BY <1>1, <1>2 DEF Fields
<1>5. Restoring(s) /\ ~ Overtaken(s) /\ s.at \notin RoutingSteps /\ s.at \in ReconcileSteps
  BY <1>4 DEF Restoring, Overtaken, RoutingSteps, ReconcileSteps
<1>6. Restored(s)
  <2>1. step \in {"recheckResult", "settleResult"} => Std.has = FALSE /\ s.has = Std.has
    <3> SUFFICES ASSUME step \in {"recheckResult", "settleResult"}
                 PROVE  Std.has = FALSE /\ s.has = Std.has
      OBVIOUS
    <3>1. Drafted(Std) \/ Labelled(Std)
      BY DEF Drafted, Labelled
    <3>2. Std.has = FALSE /\ "has" \in DOMAIN Std \ DOMAIN fields
      BY <1>1, <3>1 DEF Restored, Fields
    <3>3. s.has = Std.has
      BY <1>2, <3>2
    <3> QED  BY <3>2, <3>3
  <2>2. Stale(s)
    BY <1>1, <1>4 DEF Stale
  <2>3. s.at = step /\ SinceSeen(s)
    BY <1>4 DEF SinceSeen
  <2>4. Drafted(s) => step = "recheckResult"
    BY <1>4 DEF Drafted, RoutingSteps
  <2>5. Labelled(s) => step = "settleResult"
    BY <1>4 DEF Labelled, RoutingSteps
  <2>6. step = "recheckResult" => DraftOf(s) = TRUE
    <3>1. step = "recheckResult" => DraftOf(Std) = TRUE
      BY <1>1 DEF Restored, Drafted
    <3> QED  BY <1>1, <1>4, <3>1 DEF DraftOf, Turns, RoutingSteps
  <2>7. step = "settleResult" => Shows(pulls[n], FALSE)
    <3>1. step = "settleResult" => Reaches(Std, FALSE)
      BY <1>1 DEF Restored, Labelled
    <3> QED  BY <3>1 DEF Reaches, Shows, DraftOf, LabelsOf, Turns, Adds, Removes, RoutingSteps
  <2>8. step = "settleResult" => Reaches(s, FALSE)
    BY <1>4, <2>7 DEF Reaches, Shows, DraftOf, LabelsOf, Turns, Adds, Removes, RoutingSteps
  <2>9. Drafted(s) \/ Labelled(s) => Fields(s, {"has"}) /\ s.has = FALSE
    <3>1. Drafted(s) \/ Labelled(s) => Fields(Std, {"has"})
      BY <1>1, <2>4, <2>5 DEF Restored, Drafted, Labelled
    <3> QED  BY <1>2, <2>1, <2>4, <2>5, <3>1 DEF Fields
  <2>10. /\ Fields(s, {"seen"}) /\ s.seen.rev \in Nat
         /\ s.rev < s.seen.rev /\ s.seen.rev <= pulls[s.n].rev
         /\ s.seen.head = s.head /\ s.seen.draft \in BOOLEAN
         /\ s.seen.rev = pulls[s.n].rev => s.seen.base = pulls[s.n].base
    BY <1>1, <1>2, <1>4 DEF Fields
  <2>11. s.at = "settleResult" => Shows(s.seen, FALSE)
    BY <1>4, <2>7
  <2> QED  BY <1>4, <2>2, <2>3, <2>4, <2>5, <2>6, <2>8, <2>9, <2>10, <2>11 DEF Restored
<1> QED  BY <1>3, <1>4, <1>5, <1>6, RestoringGoes

-----------------------------------------------------------------------------
\* Draft state first, then labels.
LEMMA DraftRestores ==
  ASSUME IInv, RoutingParts, Std.op = "submit", ReconcileResult("student")
  PROVE  RoutingParts'
<1> DEFINE n == Std.n
<1>0. Std.at = "reconcileResult" /\ Std.at \in ReconcileSteps /\ UNCHANGED <<gitHub, local, history>>
  BY DEF ReconcileResult, At, Std, ReconcileSteps
<1>1. /\ Std.at # "idle" /\ Known(Std) /\ n \in Pulls /\ Types
      /\ Std.rev \in Nat /\ Stale(Std) /\ Restored(Std)
      /\ Fields(Std, {"at", "op", "n", "rev", "head", "text", "mark"})
      /\ pulls[n].draft \in BOOLEAN
  BY <1>0, RestoringFacts
<1>2. /\ Fields(Std, {"seen"}) /\ Std.seen.rev \in Nat /\ Std.rev < Std.seen.rev
      /\ Std.seen.draft \in BOOLEAN
      /\ IsOpened(n) => SinceSeen(Std)
  BY <1>0, <1>1 DEF Restored
<1>3. ~ HasResult(n, Std.seen)
  BY <1>0, <1>1, <1>2, NoneNewer DEF HasResult, Has
<1>4. PICK has, yes, no : has = FALSE /\ no = FALSE /\ yes = TRUE
  OBVIOUS
<1> DEFINE call == With(Std, [has |-> has])
           s == Route(call, Std.seen, yes, {}, {}, "recheck")
<1>5. w' = [w EXCEPT !["student"] = s]
  <2>1. HasResult(w["student"].n, w["student"].seen) = has /\ (~ HasResult(w["student"].n, w["student"].seen)) = yes
    BY <1>3, <1>4 DEF Std, HasResult
  <2> QED  BY <1>4, <2>1 DEF ReconcileResult, Becomes, Std
<1>6. DOMAIN call = DOMAIN Std \cup {"has"} /\ call.has = has /\ \A f \in DOMAIN Std \ {"has"} : call[f] = Std[f]
  <2>1. DOMAIN [has |-> has] = {"has"} /\ [has |-> has].has = has
    OBVIOUS
  <2> DEFINE fields == [has |-> has]
  <2> HIDE DEF fields
  <2>2. /\ DOMAIN With(Std, fields) = DOMAIN Std \cup DOMAIN fields
        /\ \A f \in DOMAIN fields : With(Std, fields)[f] = fields[f]
        /\ \A f \in DOMAIN Std \ DOMAIN fields : With(Std, fields)[f] = Std[f]
    BY WithFields
  <2> QED  BY <2>1, <2>2 DEF fields
<1> HIDE DEF call
<1>7. /\ DOMAIN s = DOMAIN call \cup RoutingFields
      /\ \A f \in DOMAIN call \ RoutingFields : f # "at" => s[f] = call[f]
      /\ s.at \in RoutingSteps \cup {"recheck"}
      /\ s.at = "remove" => s.remove # {}
      /\ s.draft = yes /\ s.add = {} \ Std.seen.labels
      /\ s.remove = {} \cap Std.seen.labels /\ s.then = "recheck"
      /\ DraftOf(s) = IF Std.seen.draft # yes THEN yes ELSE pulls[call.n].draft
      /\ LabelsOf(s) = (pulls[call.n].labels \cup ({} \ Std.seen.labels))
                       \ ({} \cap Std.seen.labels)
  <2>1. {"at", "n"} \subseteq DOMAIN call /\ "recheck" \notin RoutingSteps
    BY <1>1, <1>6 DEF Fields, RoutingSteps
  <2>2. RoutedTo(call, Std.seen, yes, {}, {}, "recheck", s)
    BY <2>1, RouteReaches
  <2> HIDE DEF s
  <2> QED  BY <2>2 DEF RoutedTo
<1> HIDE DEF s
<1>8. /\ s.n = n /\ s.op = "submit" /\ s.rev = Std.rev /\ s.head = Std.head /\ s.seen = Std.seen
      /\ s.has = FALSE /\ Fields(s, {"seen", "has"}) /\ call.n = n
  BY <1>1, <1>2, <1>4, <1>6, <1>7 DEF Fields, RoutingFields
<1>9. Restoring(s) /\ s.at \in RoutingSteps \cup ReconcileSteps
      /\ s.at \notin {"reconcile", "reconcileResult", "recheckResult", "settle", "settleResult"}
      /\ ~ Labelled(s)
  BY <1>7 DEF Restoring, RoutingSteps, ReconcileSteps, Labelled
<1>10. IsOpened(n) => DraftOf(s) = TRUE
  BY <1>2, <1>4, <1>7, <1>8, <1>1 DEF SinceSeen
<1>11. Restored(s)
  BY <1>0, <1>1, <1>8, <1>9, <1>10 DEF Restored, Stale, Fields
<1>12. s.at \in RoutingSteps => s.draft \in BOOLEAN /\ Toward(s, FALSE)
  BY <1>4, <1>7 DEF Toward, LabelOrder
<1>13. Overtaken(s) => Overtaken(Std)
  BY <1>0, <1>8, <1>9 DEF Overtaken, Restoring
<1> QED  BY <1>0, <1>5, <1>8, <1>9, <1>11, <1>12, <1>13, <1>1, RestoringGoes

\* The labels for work in progress are the next that is requested.
LEMMA LabelsRestore ==
  ASSUME IInv, RoutingParts, Std.op = "submit", RecheckResult("student")
  PROVE  RoutingParts'
<1> DEFINE n == Std.n
<1>0. Std.at = "recheckResult" /\ Std.at \in ReconcileSteps /\ UNCHANGED <<gitHub, local>>
  BY DEF RecheckResult, At, Std, ReconcileSteps
<1>1. /\ Std.at # "idle" /\ Known(Std) /\ n \in Pulls /\ Types
      /\ Std.rev \in Nat /\ Stale(Std) /\ Restored(Std)
      /\ Fields(Std, {"at", "op", "n", "rev", "head", "text", "mark"})
      /\ pulls[n].draft \in BOOLEAN
  BY <1>0, RestoringFacts
<1>2. /\ Fields(Std, {"seen", "has"}) /\ Std.seen.rev \in Nat /\ Std.rev < Std.seen.rev
      /\ Std.seen.draft \in BOOLEAN /\ Std.has = FALSE
      /\ IsOpened(n) => SinceSeen(Std)
      /\ IsOpened(n) => pulls[n].draft = TRUE
  <2>1. Drafted(Std) /\ DraftOf(Std) = pulls[n].draft
    BY <1>0 DEF Drafted, DraftOf, Turns, RoutingSteps
  <2> QED  BY <1>0, <1>1, <2>1 DEF Restored, Fields
<1>3. ~ HasResult(n, Std.seen)
  BY <1>0, <1>1, <1>2, NoneNewer DEF HasResult, Has
<1>4. PICK yes : yes = TRUE
  OBVIOUS
<1>5. PICK seen : seen = [Std.seen EXCEPT !.draft = yes]
  OBVIOUS
<1> DEFINE s == Route(Std, [Std.seen EXCEPT !.draft = yes], yes, {"wip"}, {"review"}, "settle")
<1>6. w' = [w EXCEPT !["student"] = s] /\ UNCHANGED history
  <2>1. (~ w["student"].has) = yes /\ Status(w["student"].has) = "wip" /\ Status(~ w["student"].has) = "review"
        /\ HasResult(w["student"].n, w["student"].seen) = w["student"].has
    BY <1>2, <1>3, <1>4 DEF Status, Std, HasResult
  <2>2. /\ Becomes("student", Route(w["student"], [w["student"].seen EXCEPT !.draft = ~ w["student"].has],
                                    ~ w["student"].has, {Status(w["student"].has)},
                                    {Status(~ w["student"].has)}, "settle"))
        /\ UNCHANGED history
    BY <2>1 DEF RecheckResult
  <2>3. Becomes("student", s)
    BY <2>1, <2>2 DEF Std
  <2> QED  BY <2>2, <2>3 DEF Becomes
<1>7. /\ DOMAIN s = DOMAIN Std \cup RoutingFields
      /\ \A f \in DOMAIN Std \ RoutingFields : f # "at" => s[f] = Std[f]
      /\ s.at \in RoutingSteps \cup {"settle"}
      /\ s.at = "remove" => s.remove # {}
      /\ s.draft = yes /\ s.add = {"wip"} \ seen.labels
      /\ s.remove = {"review"} \cap seen.labels /\ s.then = "settle"
      /\ DraftOf(s) = IF seen.draft # yes THEN yes ELSE pulls[Std.n].draft
      /\ LabelsOf(s) = (pulls[Std.n].labels \cup ({"wip"} \ seen.labels))
                       \ ({"review"} \cap seen.labels)
  <2>1. {"at", "n"} \subseteq DOMAIN Std /\ "settle" \notin RoutingSteps
    BY <1>1 DEF Fields, RoutingSteps
  <2>2. RoutedTo(Std, seen, yes, {"wip"}, {"review"}, "settle",
                 Route(Std, seen, yes, {"wip"}, {"review"}, "settle"))
    BY <2>1, RouteReaches
  <2>3. RoutedTo(Std, seen, yes, {"wip"}, {"review"}, "settle", s)
    BY <1>5, <2>2
  <2> HIDE DEF s
  <2> QED  BY <2>3 DEF RoutedTo
<1> HIDE DEF s
<1>8. /\ s.n = n /\ s.op = "submit" /\ s.rev = Std.rev /\ s.head = Std.head /\ s.seen = Std.seen
      /\ s.has = FALSE /\ Fields(s, {"seen", "has"})
  BY <1>1, <1>2, <1>7 DEF Fields, RoutingFields
<1>9. Restoring(s) /\ s.at \in RoutingSteps \cup ReconcileSteps
      /\ s.at \notin {"reconcile", "reconcileResult", "recheck", "recheckResult", "settleResult"}
      /\ ~ Drafted(s)
  BY <1>7 DEF Restoring, RoutingSteps, ReconcileSteps, Drafted
<1>10. IsOpened(n) => Reaches(s, FALSE)
  <2>1. seen.labels = Std.seen.labels
    BY <1>5
  <2>2. IsOpened(n) => DraftOf(s) = TRUE
    BY <1>2, <1>4, <1>7
  <2>3. IsOpened(n) => "wip" \in LabelsOf(s) /\ "review" \notin LabelsOf(s)
    BY <1>2, <1>7, <2>1 DEF SinceSeen
  <2> QED  BY <2>2, <2>3 DEF Reaches, Shows
<1>11. Restored(s)
  BY <1>0, <1>1, <1>8, <1>9, <1>10 DEF Restored, Stale, Fields
<1>12. s.at \in RoutingSteps => s.draft \in BOOLEAN /\ Toward(s, FALSE)
  BY <1>4, <1>7 DEF Toward, LabelOrder
<1>13. Overtaken(s) => Overtaken(Std)
  BY <1>0, <1>8, <1>9 DEF Overtaken, Restoring
<1> QED  BY <1>0, <1>6, <1>8, <1>9, <1>11, <1>12, <1>13, <1>1, RestoringGoes

\* A restored routing is right when it is read for the last time.
LEMMA SettledRestores ==
  ASSUME IInv, RoutingParts, Std.op = "submit", SettleResult("student")
  PROVE  RoutingParts'
<1> DEFINE n == Std.n
<1>0. Std.at = "settleResult" /\ Std.at \in ReconcileSteps /\ UNCHANGED <<gitHub, local>>
  BY DEF SettleResult, At, Std, ReconcileSteps
<1>1. /\ Std.at # "idle" /\ Known(Std) /\ Owes(Std, n) /\ n \in Pulls /\ Types
      /\ Std.rev \in Nat /\ pulls[n].rev \in Nat /\ Std.rev < pulls[n].rev
      /\ Stale(Std) /\ Restored(Std) /\ pulls[n].head = branch[n]
  BY <1>0, RestoringFacts
<1>2. Labelled(Std)
  BY <1>0 DEF Labelled
<1>3. /\ Std.seen.rev \in Nat /\ Std.rev < Std.seen.rev
      /\ Std.has = FALSE /\ Shows(Std.seen, FALSE)
      /\ IsOpened(n) => Reaches(Std, FALSE)
  BY <1>0, <1>1, <1>2 DEF Restored
<1>4. ~ HasResult(n, Std.seen)
  BY <1>0, <1>1, <1>3, NoneNewer DEF HasResult, Has
<1>5. Std.seen.draft = TRUE /\ Std.seen.labels \cap Active = {"wip"}
  BY <1>3 DEF Shows, Active
<1>6. Returns("student")
  <2>1. w["student"].seen.draft = ~ w["student"].has
    BY <1>3, <1>5 DEF Std
  <2>2. Status(w["student"].has) = "wip"
    BY <1>3 DEF Status, Std
  <2>3. HasResult(w["student"].n, w["student"].seen) = w["student"].has
    BY <1>3, <1>4 DEF Std, HasResult
  <2> QED  BY <1>5, <2>1, <2>2, <2>3 DEF SettleResult, Std
<1>7. ~ HasResult(n, pulls[n])
  BY <1>0, <1>1, NoneNewer DEF HasResult, Has
<1>8. IsOpened(n) => Fits(n)
  BY <1>0, <1>3, <1>7 DEF Fits, Reaches, Shows, DraftOf, LabelsOf, Turns, Adds, Removes, RoutingSteps
<1> QED  BY <1>0, <1>1, <1>6, <1>8, SubmitReturns

\* All steps with which a submission restores.
LEMMA SubmitRestores ==
  ASSUME IInv, RoutingParts, Std.op = "submit", ReconcileRouting("student")
  PROVE  RoutingParts'
<1> DEFINE n == Std.n
<1>0. CASE ReconcileResult("student") \/ RecheckResult("student") \/ SettleResult("student")
  BY <1>0, DraftRestores, LabelsRestore, SettledRestores
<1>1. CASE Reconcile("student") \/ Recheck("student") \/ Settle("student")
  <2>0. Std.at \in ReconcileSteps /\ Std.at \in {"reconcile", "recheck", "settle"} /\ UNCHANGED <<gitHub, local>>
    BY <1>1 DEF Reconcile, Recheck, Settle, At, Std, ReconcileSteps
  <2>1. /\ Std.at # "idle" /\ Known(Std) /\ Owes(Std, n) /\ n \in Pulls /\ Types
        /\ branch[n] = Std.head /\ pulls[n].head = Std.head /\ Restored(Std)
    BY <2>0, RestoringFacts
  <2>2. CASE ~ SamePull("student")
    <3>1. ~ IsOpened(n)
      BY <2>1, <2>2 DEF SamePull, AtHead, IsOpen, IsOpened, Std, Pull
    <3>2. Raises("student")
      BY <1>1, <2>2 DEF Reconcile, Recheck, Settle
    <3> QED  BY <2>0, <2>1, <3>1, <3>2, SubmitRaises
  <2>3. CASE SamePull("student") /\ Std.at # "reconcile" /\ ~ SameAssignment("student")
    <3>1. Again("student")
      BY <1>1, <2>3 DEF Reconcile, Recheck, Settle, At, Std
    <3>2. Overtaken(Std)
      BY <2>0, <2>1, <2>3 DEF Overtaken, Restoring, Restored, SameAssignment, Pull, Std
    <3> QED  BY <2>0, <2>1, <3>1, <3>2, AgainRestores
  <2>4. CASE SamePull("student") /\ (Std.at = "reconcile" \/ SameAssignment("student"))
    <3>1. IsOpened(n)
      BY <2>4 DEF SamePull, IsOpen, IsOpened, Pull, Std
    <3>2. CASE Std.at = "reconcile"
      <4>1. Becomes("student", With(w["student"], [at |-> "reconcileResult", seen |-> Pull("student")]))
            /\ UNCHANGED history
        BY <1>1, <2>4, <3>2 DEF Reconcile, Recheck, Settle, At, Std
      <4> QED  BY <2>0, <3>1, <4>1, SeenRestores
    <3>3. CASE Std.at = "recheck"
      <4>1. Becomes("student", With(w["student"], [at |-> "recheckResult", seen |-> Pull("student")]))
            /\ UNCHANGED history
        BY <1>1, <2>4, <3>3 DEF Reconcile, Recheck, Settle, At, Std
      <4> QED  BY <2>0, <3>1, <3>3, <4>1, SeenRestores
    <3>4. CASE Std.at = "settle"
      <4>1. Becomes("student", With(w["student"], [at |-> "settleResult", seen |-> Pull("student")]))
            /\ UNCHANGED history
        BY <1>1, <2>4, <3>4 DEF Reconcile, Recheck, Settle, At, Std
      <4> QED  BY <2>0, <3>1, <3>4, <4>1, SeenRestores
    <3> QED  BY <2>0, <3>2, <3>3, <3>4
  <2> QED  BY <2>2, <2>3, <2>4
<1> QED  BY <1>0, <1>1 DEF ReconcileRouting

-----------------------------------------------------------------------------
(* Writes, and what the other worker's call keeps.                         *)

\* What the student and the surroundings do leaves the advisor's plans alone.
LEMMA PlansStay ==
  ASSUME NEW a, Plans(a), Heads(Std),
         a.at # "idle" => a.n \in Pulls \/ a.op \notin Routing,
         \A rev, head : Has(a.n, rev, head) => Has(a.n, rev, head)',
         a.n \in Pulls => /\ pulls'[a.n].rev = pulls[a.n].rev /\ pulls'[a.n].base = pulls[a.n].base
                          /\ pulls'[a.n].state = pulls[a.n].state
                          /\ pulls'[a.n].head \in Nat /\ pulls[a.n].head <= pulls'[a.n].head
                          /\ pulls[a.n].state = "none" => branch'[a.n] = branch[a.n],
         a.at \in RoutingSteps \cup {"routed"} => a.op \in Routing
  PROVE  Plans(a)'
<1> DEFINE n == a.n
<1>1. CASE a.at = "idle" \/ a.op \notin Routing
  BY <1>1 DEF Plans, Routing, RoutingSteps, Toward
<1>2. CASE a.at # "idle" /\ a.op \in Routing
  <2>1. /\ a.n \in Pulls /\ pulls'[a.n].rev = pulls[a.n].rev /\ pulls'[a.n].base = pulls[a.n].base
        /\ pulls'[a.n].state = pulls[a.n].state
        /\ pulls'[a.n].head \in Nat /\ pulls[a.n].head <= pulls'[a.n].head
        /\ pulls[a.n].state = "none" => branch'[a.n] = branch[a.n]
    BY <1>2
  <2>2. pulls[a.n].head \in Nat
    BY <2>1 DEF Heads
  <2>3. a.op = "revise" => a.head \in Nat /\ a.head <= pulls'[a.n].head
    BY <1>2, <2>1, <2>2 DEF Plans
  <2>4. a.at \in RoutingSteps => a.draft \in BOOLEAN /\ Toward(a, ~ a.draft)'
    BY DEF Plans, Toward
  <2>5. a.at \in RoutingSteps \cup {"routed"} /\ a.draft = FALSE => Has(a.n, pulls[a.n].rev, a.head)'
    <3>1. a.at \in RoutingSteps \cup {"routed"} /\ a.draft = FALSE => Has(a.n, pulls[a.n].rev, a.head)
      BY DEF Plans
    <3>2. PICK rev : rev = pulls[a.n].rev /\ rev = pulls'[a.n].rev
      BY <2>1
    <3>3. Has(a.n, rev, a.head) => Has(a.n, rev, a.head)'
      OBVIOUS
    <3> QED  BY <3>1, <3>2, <3>3
  <2>6. ASSUME a.op = "revise", a.at \in ReconcileSteps \cup RoutingSteps
        PROVE  /\ a.at # "reconcile" =>
                    /\ Fields(a, {"seen"}) /\ a.seen.rev = pulls'[a.n].rev /\ a.seen.base = pulls'[a.n].base
                    /\ a.seen.head = a.head
               /\ a.at \notin {"reconcile", "reconcileResult"} =>
                    Fields(a, {"has"}) /\ a.has \in BOOLEAN /\ (a.has => Has(a.n, pulls[a.n].rev, a.head)')
    <3>1. PICK rev : rev = pulls[a.n].rev /\ rev = pulls'[a.n].rev
      BY <2>1
    <3>2. Has(a.n, rev, a.head) => Has(a.n, rev, a.head)'
      OBVIOUS
    <3>3. /\ a.at # "reconcile" =>
                    /\ Fields(a, {"seen"}) /\ a.seen.rev = pulls[a.n].rev /\ a.seen.base = pulls[a.n].base
                    /\ a.seen.head = a.head
          /\ a.at \notin {"reconcile", "reconcileResult"} =>
                    Fields(a, {"has"}) /\ a.has \in BOOLEAN /\ (a.has => Has(a.n, pulls[a.n].rev, a.head))
      BY <1>2, <2>6 DEF Plans
    <3> QED  BY <2>1, <3>1, <3>2, <3>3
  <2>7. a.op = "repair" => a.rev = pulls'[a.n].rev
    BY <1>2, <2>1 DEF Plans
  <2>8. /\ a.at = "repairResult" => "wip" \notin a.wanted /\ "review" \in a.wanted
        /\ a.op = "create" =>
             /\ a.head = 1
             /\ a.at \in {"createConflicts", "createPull"} /\ pulls'[a.n].state = "none" => branch'[a.n] = 1
    BY <1>2, <2>1 DEF Plans
  <2> QED  BY <2>3, <2>4, <2>5, <2>6, <2>7, <2>8 DEF Plans
<1> QED  BY <1>1, <1>2

-----------------------------------------------------------------------------
\* The shape of the advisor's call.
LEMMA AdvisorFacts ==
  ASSUME IInv
  PROVE  /\ Adv.at # "idle" => Adv.n \in Pulls \/ Adv.op \notin Routing
         /\ Adv.at # "idle" => ShapeOf("advisor", Adv) /\ RoutingShape(Adv)
         /\ Adv.at \in RoutingSteps \cup {"routed"} => Adv.op \in Routing
         /\ Matched(Adv) => Adv.n \in Pulls
         /\ CallInv("advisor", Adv) /\ Types
<1>1. CallInv("advisor", Adv) /\ Types
  BY DEF IInv, GitInv, Workers, Adv
<1>2. Adv.at # "idle" => ShapeOf("advisor", Adv) /\ RoutingShape(Adv)
  BY <1>1 DEF CallInv
<1>3. Adv.at # "idle" => Adv.n \in Pulls \/ Adv.op \notin Routing
  BY <1>2 DEF ShapeOf, Routing
<1>4. Adv.at \in RoutingSteps \cup {"routed"} => Adv.op \in Routing
  <2> SUFFICES ASSUME Adv.at \in RoutingSteps \cup {"routed"} PROVE Adv.op \in Routing
    OBVIOUS
  <2>1. Adv.at \in StepsOf(Adv.op)
    BY <1>2 DEF ShapeOf, RoutingSteps
  <2> QED  BY <2>1, StepOps DEF Routing
<1>5. Matched(Adv) => Adv.n \in Pulls
  BY <1>2 DEF Matched, ShapeOf
<1> QED  BY <1>1, <1>2, <1>3, <1>4, <1>5

\* A student's step that writes: what has to be shown of it.
LEMMA StudentWrites ==
  ASSUME IInv, RoutingParts, NEW s, w'["student"] = s, w'["advisor"] = w["advisor"],
         UNCHANGED <<scope, given>>,
         Heads(s)', Known(s)',
         \A a : Plans(a) /\ a = Adv => Plans(a)',
         \A a : Plans(a) /\ a = Adv /\ Matched(a)' => Between(s, a)',
         \A a, out : Plans(a) /\ a = Adv /\ out = (halfway \cup parked)' => Rested(s, a, out)'
  PROVE  RoutingParts'
<1>1. w'["student"] = s /\ w'["advisor"] = w["advisor"]
  OBVIOUS
<1>2. PICK a, out : a = Adv /\ out = (halfway \cup parked)'
  OBVIOUS
<1>3. Plans(a) /\ Plans(a)' /\ Rested(s, a, out)'
  BY <1>2 DEF RoutingParts
<1>4. Between(s, a)'
  BY <1>2, <1>3 DEF Between
<1>5. a = w'["advisor"] /\ s = w'["student"]
  BY <1>1, <1>2 DEF Adv
<1> QED  BY <1>2, <1>3, <1>4, <1>5 DEF RoutingParts, Std, Adv

\* The student's worker answers, writes, or has not started yet.
LEMMA StudentElsewhere ==
  ASSUME Types, RoutingParts, UNCHANGED <<gitHub, local, history>>, NEW s,
         w' = [w EXCEPT !["student"] = s],
         \A n : ~ Owes(Std, n), \A n : ~ Owes(s, n), Std.at # "submitBefore", Known(s)
  PROVE  RoutingParts'
<1>1. Heads(s)
  BY DEF RoutingParts, Heads
<1>2. Between(s, Adv)
  BY DEF RoutingParts, Between
<1>3. Rested(s, Adv, halfway' \cup parked')
  BY DEF RoutingParts, Rested, history
<1> QED  BY <1>1, <1>2, <1>3, StudentReads

\* A submission begins with a preflight that writes nothing.
LEMMA PreflightRoutes ==
  ASSUME IInv, RoutingParts, NEW n \in Pulls, NEW head, NEW text, PreflightSubmit(n, head, text)
  PROVE  RoutingParts'
<1> DEFINE s == [at |-> "push", op |-> "submit", n |-> n, rev |-> pulls[n].rev, head |-> head,
                 before |-> pulls[n].head, text |-> text,
                 mark |-> [kind |-> "result", rev |-> pulls[n].rev, head |-> head]]
<1>1. /\ Std.at = "idle" /\ w' = [w EXCEPT !["student"] = s] /\ UNCHANGED <<gitHub, local, history>>
      /\ n \in given
  BY DEF PreflightSubmit, Calls, At, Std, Becomes
<1>2. \A m : ~ Owes(Std, m) /\ ~ Owes(s, m)
  BY <1>1 DEF Owes, Unwritten
<1>3. Known(s)
  <2>1. \A c \in comments[n] : c.mark.kind = "result" => c.mark.rev <= pulls[n].rev
    BY DEF IInv, GitInv, ResultsBuilt, ContainsRequired
  <2>2. s.at = "push" /\ s.n = n /\ s.rev = pulls[n].rev
    OBVIOUS
  <2> HIDE DEF s
  <2> QED  BY <1>1, <2>1, <2>2 DEF Known, Reviewing, Restoring, RoutingSteps, ReconcileSteps
<1>4. Types
  BY DEF IInv, GitInv
<1> QED  BY <1>1, <1>2, <1>3, <1>4, StudentElsewhere

\* Messages and answers leave the routing to others.
LEMMA StudentTells ==
  ASSUME IInv, RoutingParts, UNCHANGED <<gitHub, local, history>>, NEW s,
         w' = [w EXCEPT !["student"] = s], Std.at = "idle" \/ Std.op \notin Routing,
         s.at = "idle" \/ s.op \notin Routing
  PROVE  RoutingParts'
<1>1. Std.at # "submitBefore"
  <2>1. CallInv("student", Std)
    BY DEF IInv, Workers, Std
  <2> QED  BY <2>1, StepOps DEF CallInv, ShapeOf, Routing
<1>2. \A n : ~ Owes(Std, n) /\ ~ Owes(s, n)
  BY DEF Owes, Unwritten
<1>3. Known(s)
  BY DEF Known, Routing
<1>4. Types
  BY DEF IInv, GitInv
<1> QED  BY <1>1, <1>2, <1>3, <1>4, StudentElsewhere

-----------------------------------------------------------------------------
\* A new head has no results yet, and its submission answers for its routing.
LEMMA PushRoutes ==
  ASSUME IInv, RoutingParts, PushBranch("student"), NEW n, n = Std.n
  PROVE  RoutingParts'
<1>0. Std.at = "push" /\ Std.at # "idle" /\ UNCHANGED <<comments, local>>
  BY DEF PushBranch, At, Std
<1>1. Std.op = "submit"
  <2>1. CallInv("student", Std)
    BY DEF IInv, Workers, Std
  <2> QED  BY <1>0, <2>1, StepOps DEF CallInv, ShapeOf
<1>2. /\ Known(Std) /\ n \in Pulls /\ Types /\ pulls[n].state # "none"
      /\ Std.rev \in Nat /\ pulls[n].rev \in Nat /\ Std.rev <= pulls[n].rev
      /\ Fields(Std, {"at", "op", "n", "rev", "head", "text", "mark"})
  BY <1>0, <1>1, SubmitFacts
<1>3. \A m : ~ Owes(Std, m)
  BY <1>0 DEF Owes, Unwritten
<1>4. Std.head \in Nat
  <2>1. CallInv("student", Std) /\ commits[n] \in Seq(Nat)
    BY <1>2 DEF IInv, Workers, Std, Types
  <2>2. Std.head \in 1..Len(commits[n])
    BY <1>0, <1>1, <2>1 DEF CallInv, Building, ContainsRequired
  <2> QED  BY <2>1, <2>2
<1>5. CASE Refuses("student") /\ UNCHANGED <<branch, pulls>>
  <2>1. Known(Idle) /\ \A m : ~ Owes(Idle, m)
    BY DEF Known, Owes, Idle, Unwritten
  <2>2. UNCHANGED gitHub
    BY <1>5 DEF PushBranch, gitHub
  <2> QED  BY <1>0, <1>2, <1>3, <1>5, <2>1, <2>2, StudentElsewhere DEF Refuses, Becomes
<1>6. CASE ~ (Refuses("student") /\ UNCHANGED <<branch, pulls>>)
  <2>0. PICK s : s = [Std EXCEPT !.at = "submitBefore"]
    OBVIOUS
  <2>1. /\ branch[n] <= Std.head /\ branch' = [branch EXCEPT ![n] = Std.head]
        /\ \/ pulls' = pulls
           \/ pulls' = [pulls EXCEPT ![n].head = Std.head]
        /\ To("student", "submitBefore") /\ UNCHANGED history
    <3>1. /\ branch[n] = Std.head \/ (branch[n] = Std.before /\ branch[n] < Std.head)
          /\ branch' = [branch EXCEPT ![n] = Std.head]
          /\ pulls' = IF scope.lags THEN pulls ELSE [pulls EXCEPT ![n].head = Std.head]
          /\ To("student", "submitBefore") /\ UNCHANGED history
      BY <1>6 DEF PushBranch, Std
    <3>2. branch[n] <= Std.head
      BY <1>2, <1>4, <3>1 DEF Types
    <3> QED  BY <3>1, <3>2
  <2>2. w'["student"] = s /\ w'["advisor"] = w["advisor"]
    BY <1>2, <2>0, <2>1 DEF To, Types, Std, Workers
  <2>3. s.at = "submitBefore" /\ s.n = n /\ s.op = "submit" /\ s.rev = Std.rev /\ s.head = Std.head
    BY <1>1, <1>2, <2>0 DEF Fields
  <2>4. /\ Pulls' = Pulls /\ UNCHANGED <<scope, given>>
        /\ \A m \in Pulls : branch'[m] = IF m = n THEN Std.head ELSE branch[m]
        /\ \A m \in Pulls : m # n => pulls'[m] = pulls[m]
    BY <1>0, <1>2, <2>1 DEF local, Pulls, Types
  <2>5. /\ pulls'[n].state = pulls[n].state /\ pulls'[n].rev = pulls[n].rev
        /\ pulls'[n].base = pulls[n].base /\ pulls'[n].draft = pulls[n].draft
        /\ pulls'[n].labels = pulls[n].labels
        /\ pulls'[n].head \in {pulls[n].head, Std.head}
    <3>1. pulls[n] = [state |-> pulls[n].state, rev |-> pulls[n].rev, base |-> pulls[n].base,
                      head |-> pulls[n].head, draft |-> pulls[n].draft, labels |-> pulls[n].labels]
      BY <1>2 DEF Types, PullShape
    <3>2. CASE pulls' = pulls
      BY <3>2
    <3>3. CASE pulls' = [pulls EXCEPT ![n].head = Std.head]
      <4>1. pulls'[n] = [pulls[n] EXCEPT !.head = Std.head]
        BY <1>2, <3>3 DEF Types
      <4> QED  BY <3>1, <4>1
    <3> QED  BY <2>1, <3>2, <3>3
  <2>6. /\ \A m \in Pulls : /\ pulls[m].head \in Nat /\ pulls[m].draft \in BOOLEAN
                            /\ m \in given => pulls[m].state # "none"
                            /\ pulls[m].state # "none" => pulls[m].head <= branch[m] /\ pulls[m].head = branch[m]
                            /\ \A c \in comments[m] : c.mark.kind = "result" => c.mark.head <= pulls[m].head
    BY <1>0 DEF RoutingParts, Heads
  <2>7. pulls[n].head = branch[n] /\ pulls[n].head <= pulls'[n].head /\ pulls'[n].head \in Nat
        /\ pulls'[n].head <= Std.head
    BY <1>2, <1>4, <2>1, <2>5, <2>6
  <2>8. Heads(s)'
    <3> SUFFICES ASSUME NEW m \in Pulls
                 PROVE  /\ pulls'[m].head \in Nat /\ pulls'[m].draft \in BOOLEAN
                        /\ m \in given => pulls'[m].state # "none"
                        /\ pulls'[m].state # "none" =>
                             /\ pulls'[m].head <= branch'[m]
                             /\ pulls'[m].head # branch'[m] => s.at = "submitBefore" /\ s.n = m
                        /\ \A c \in comments[m] : c.mark.kind = "result" => c.mark.head <= pulls'[m].head
      BY <1>0, <2>4 DEF Heads
    <3>1. CASE m # n
      BY <2>4, <2>6, <3>1
    <3>2. CASE m = n
      <4>1. \A c \in comments[n] : c.mark.kind = "result" => c.mark.head \in Nat
        <5>1. commits[n] \in Seq(Nat)
          BY <1>2 DEF Types
        <5>2. \A c \in comments[n] : c.mark.kind = "result" => c.mark.head \in 1..Len(commits[n])
          BY <1>2 DEF IInv, GitInv, ResultsBuilt, ContainsRequired
        <5> QED  BY <5>1, <5>2
      <4> QED  BY <1>2, <2>3, <2>4, <2>5, <2>6, <2>7, <3>2, <4>1
    <3> QED  BY <3>1, <3>2
  <2>9. Known(s)'
    <3>1. n \in given /\ \A c \in comments[n] : c.mark.kind = "result" => c.mark.rev <= s.rev
      BY <1>0, <1>1, <1>2, <2>3 DEF Known
    <3>2. branch'[n] = s.head
      BY <1>2, <2>3, <2>4
    <3> QED  BY <1>0, <2>3, <2>4, <3>1, <3>2 DEF Known, Reviewing, Restoring, RoutingSteps, ReconcileSteps
  <2>10. \A m, rev, head : Has(m, rev, head)' <=> Has(m, rev, head)
    BY <1>0 DEF Has, Results
  <2>11. ASSUME NEW a, Plans(a), a = Adv PROVE Plans(a)'
    <3>1. /\ a.at # "idle" => a.n \in Pulls \/ a.op \notin Routing
          /\ a.at \in RoutingSteps \cup {"routed"} => a.op \in Routing
      BY <2>11, AdvisorFacts
    <3>2. a.n \in Pulls => /\ pulls'[a.n].rev = pulls[a.n].rev /\ pulls'[a.n].base = pulls[a.n].base
                           /\ pulls'[a.n].state = pulls[a.n].state
                           /\ pulls'[a.n].head \in Nat /\ pulls[a.n].head <= pulls'[a.n].head
                           /\ pulls[a.n].state = "none" => branch'[a.n] = branch[a.n]
      BY <1>2, <2>4, <2>5, <2>6, <2>7
    <3> QED  BY <2>10, <2>11, <3>1, <3>2, PlansStay DEF RoutingParts
  <2>12. ASSUME NEW a, Plans(a), a = Adv, Matched(a)' PROVE Between(s, a)'
    <3>1. a.at = "settleResult" /\ a.op = "revise" /\ IsOpened(a.n)' /\ HasResult(a.n, a.seen)' = a.has
          /\ Shows(a.seen, a.has)
      BY <2>12 DEF Matched, Shows
    <3>2. a.n \in Pulls
      BY <2>12, <3>1, AdvisorFacts DEF ShapeOf
    <3>3. IsOpened(a.n)
      BY <3>1, <3>2, <2>4, <2>5 DEF IsOpened
    <3>4. HasResult(a.n, a.seen) = a.has
      BY <1>0, <3>1 DEF HasResult, Results
    <3>5. Matched(a)
      BY <3>1, <3>3, <3>4 DEF Matched
    <3>6. Fits(a.n)
      BY <1>3, <2>12, <3>5 DEF RoutingParts, Between
    <3>7. CASE a.n # n
      <4>1. ~ Owes(s, a.n)
        BY <2>3, <3>7 DEF Owes
      <4>2. Fits(a.n)'
        BY <1>0, <2>4, <3>2, <3>6, <3>7 DEF Fits, HasResult, Results, Shows
      <4> QED  BY <4>1, <4>2 DEF Between, Owes
    <3>8. CASE a.n = n
      <4>1. s.at # "idle" /\ Owes(s, n) /\ ~ Overtaken(s) /\ s.at \notin RoutingSteps \cup {"submitAfter"}
        BY <2>3 DEF Owes, Unwritten, Routing, RoutingSteps, Overtaken, Restoring, ReconcileSteps
      <4>2. Stale(s)' => Stale(Std)
        BY <2>3, <2>5 DEF Stale
      <4>3. Stale(Std) => ~ HasResult(n, pulls[n])
        BY <1>0, <1>1, <1>2, NoneNewer DEF Stale, HasResult, Has
      <4>4. Stale(s)' => Shows(pulls[n], FALSE)'
        BY <2>5, <3>6, <3>8, <4>2, <4>3 DEF Fits, Shows
      <4>5. a.seen.rev = pulls[n].rev /\ a.seen.head = a.head /\ a.head \in Nat /\ a.head <= pulls[n].head
        BY <2>12, <3>1, <3>8 DEF Plans, ReconcileSteps
      <4>6. pulls'[n].head # pulls[n].head => ~ HasResult(n, pulls[n])'
        <5> SUFFICES ASSUME pulls'[n].head # pulls[n].head, HasResult(n, pulls[n])' PROVE FALSE
          OBVIOUS
        <5>1. PICK c \in comments[n] : c.mark = [kind |-> "result", rev |-> pulls'[n].rev, head |-> pulls'[n].head]
          BY <1>0 DEF HasResult, Results
        <5>2. c.mark.head <= pulls[n].head /\ c.mark.head = pulls'[n].head
          BY <1>2, <2>6, <5>1
        <5> QED  BY <1>2, <2>6, <2>7, <5>2
      <4>7. pulls'[n].head = pulls[n].head => Fits(n)'
        BY <1>0, <2>5, <3>6, <3>8 DEF Fits, HasResult, Results, Shows
      <4>8. ~ Stale(s)' /\ pulls'[n].head = a.head => Shows(pulls[n], a.has)'
        <5> SUFFICES ASSUME pulls'[n].head = a.head PROVE Shows(pulls[n], a.has)'
          OBVIOUS
        <5>1. pulls'[n].head = pulls[n].head
          BY <1>2, <2>6, <2>7, <4>5
        <5>2. HasResult(n, pulls[n]) = a.has
          BY <3>4, <3>8, <4>5, <5>1 DEF HasResult
        <5> QED  BY <2>5, <3>6, <3>8, <5>2 DEF Fits, Shows
      <4>9. ~ Stale(s)' /\ HasResult(n, pulls[n])' => Shows(pulls[n], TRUE)'
        BY <4>6, <4>7 DEF Fits, Shows
      <4> QED  BY <3>8, <4>1, <4>4, <4>8, <4>9 DEF Between, Owes, Overtaken, Restoring
    <3> QED  BY <3>7, <3>8
  <2>13. ASSUME NEW a, NEW out, Plans(a), a = Adv, out = (halfway \cup parked)' PROVE Rested(s, a, out)'
    <3>1. out = halfway \cup parked
      BY <2>1, <2>13 DEF history
    <3>2. \A m \in Pulls \ out : IsOpened(m) /\ ~ Owes(Std, m) /\ ~ Owes(a, m) => Fits(m)
      BY <2>13, <3>1 DEF RoutingParts, Rested
    <3>3. ASSUME NEW m \in Pulls \ out, IsOpened(m)', ~ Owes(s, m), ~ Owes(a, m) PROVE Fits(m)'
      <4>1. m # n
        BY <2>3, <3>3 DEF Owes, Unwritten, Routing
      <4>2. IsOpened(m) /\ Fits(m)
        BY <1>3, <2>4, <3>2, <3>3, <4>1 DEF IsOpened
      <4> QED  BY <1>0, <2>4, <4>1, <4>2 DEF Fits, HasResult, Results, Shows
    <3> QED  BY <2>4, <3>3 DEF Rested, Owes
  <2> QED  BY <2>2, <2>4, <2>8, <2>9, <2>11, <2>12, <2>13, StudentWrites
<1> QED  BY <1>5, <1>6

-----------------------------------------------------------------------------
\* A pull request follows its branch: its revision has no result for the new head.
LEMMA FollowsRoutes ==
  ASSUME IInv, RoutingParts, NEW n \in Pulls, PullFollowsBranch(n)
  PROVE  RoutingParts'
<1>0. /\ pulls[n].state = "open" /\ pulls[n].head # branch[n] /\ Types
      /\ pulls' = [pulls EXCEPT ![n].head = branch[n]]
      /\ UNCHANGED <<comments, branch, scope, given, w, halfway, parked>>
  BY DEF PullFollowsBranch, local, history, IInv, GitInv
<1>1. Heads(Std) /\ Std.at = "submitBefore" /\ Std.n = n /\ pulls[n].head <= branch[n]
  BY <1>0 DEF RoutingParts, Heads
<1>2. Std.at # "idle" /\ Std.op = "submit"
  <2>1. CallInv("student", Std)
    BY DEF IInv, Workers, Std
  <2> QED  BY <1>1, <2>1, StepOps DEF CallInv, ShapeOf
<1>3. /\ Known(Std) /\ Std.rev \in Nat /\ pulls[n].rev \in Nat /\ Std.rev <= pulls[n].rev
  BY <1>1, <1>2, SubmitFacts
<1>4. branch[n] = Std.head /\ branch[n] \in Nat /\ pulls[n].head \in Nat /\ pulls[n].head < branch[n]
  BY <1>0, <1>1, <1>2, <1>3 DEF Known, Heads, Types
<1>5. /\ Pulls' = Pulls /\ \A m \in Pulls : m # n => pulls'[m] = pulls[m]
  BY <1>0 DEF Pulls, Types
<1>6. /\ pulls'[n].state = pulls[n].state /\ pulls'[n].rev = pulls[n].rev
      /\ pulls'[n].base = pulls[n].base /\ pulls'[n].draft = pulls[n].draft
      /\ pulls'[n].labels = pulls[n].labels /\ pulls'[n].head = branch[n]
  <2>1. pulls[n] = [state |-> pulls[n].state, rev |-> pulls[n].rev, base |-> pulls[n].base,
                    head |-> pulls[n].head, draft |-> pulls[n].draft, labels |-> pulls[n].labels]
    BY <1>0 DEF Types, PullShape
  <2>2. pulls'[n] = [pulls[n] EXCEPT !.head = branch[n]]
    BY <1>0 DEF Types
  <2> QED  BY <2>1, <2>2
<1>7. PICK s : s = Std /\ s = w'["student"]
  BY <1>0 DEF Std
<1>8. w'["student"] = s /\ w'["advisor"] = w["advisor"]
  BY <1>0, <1>7
<1>9. Heads(s)'
  <2> SUFFICES ASSUME NEW m \in Pulls
               PROVE  /\ pulls'[m].head \in Nat /\ pulls'[m].draft \in BOOLEAN
                      /\ m \in given => pulls'[m].state # "none"
                      /\ pulls'[m].state # "none" =>
                           /\ pulls'[m].head <= branch[m]
                           /\ pulls'[m].head # branch[m] => s.at = "submitBefore" /\ s.n = m
                      /\ \A c \in comments[m] : c.mark.kind = "result" => c.mark.head <= pulls'[m].head
    BY <1>0, <1>5 DEF Heads
  <2>1. CASE m # n
    BY <1>1, <1>5, <1>7, <2>1 DEF Heads
  <2>2. CASE m = n
    <3>1. \A c \in comments[n] : c.mark.kind = "result" => c.mark.head <= branch[n]
      <4> SUFFICES ASSUME NEW c \in comments[n], c.mark.kind = "result" PROVE c.mark.head <= branch[n]
        OBVIOUS
      <4>1. commits[n] \in Seq(Nat) /\ c.mark.head \in 1..Len(commits[n])
        BY <1>0 DEF Types, IInv, GitInv, ResultsBuilt, ContainsRequired
      <4>2. c.mark.head \in Nat /\ c.mark.head <= pulls[n].head
        BY <1>1, <4>1 DEF Heads
      <4> QED  BY <1>4, <4>2
    <3> QED  BY <1>0, <1>1, <1>4, <1>6, <2>2, <3>1 DEF Heads
  <2> QED  BY <2>1, <2>2
<1>10. Known(s)'
  BY <1>0, <1>1, <1>2, <1>3, <1>7 DEF Known, Reviewing, Restoring, RoutingSteps, ReconcileSteps
<1>11. \A m, rev, head : Has(m, rev, head)' <=> Has(m, rev, head)
  BY <1>0 DEF Has, Results
<1>12. ASSUME NEW a, Plans(a), a = Adv PROVE Plans(a)'
  <2>1. /\ a.at # "idle" => a.n \in Pulls \/ a.op \notin Routing
        /\ a.at \in RoutingSteps \cup {"routed"} => a.op \in Routing
    BY <1>12, AdvisorFacts
  <2>2. a.n \in Pulls => /\ pulls'[a.n].rev = pulls[a.n].rev /\ pulls'[a.n].base = pulls[a.n].base
                         /\ pulls'[a.n].state = pulls[a.n].state
                         /\ pulls'[a.n].head \in Nat /\ pulls[a.n].head <= pulls'[a.n].head
                         /\ pulls[a.n].state = "none" => branch'[a.n] = branch[a.n]
    BY <1>0, <1>1, <1>4, <1>5, <1>6 DEF Heads
  <2> QED  BY <1>11, <1>12, <2>1, <2>2, PlansStay DEF RoutingParts
<1>13. ASSUME NEW a, Plans(a), a = Adv, Matched(a)' PROVE Between(s, a)'
  <2>1. a.at = "settleResult" /\ a.op = "revise" /\ IsOpened(a.n)' /\ HasResult(a.n, a.seen)' = a.has
        /\ Shows(a.seen, a.has)
    BY <1>13 DEF Matched, Shows
  <2>2. a.n \in Pulls
    BY <1>13, <2>1, AdvisorFacts DEF ShapeOf
  <2>3. IsOpened(a.n)
    BY <2>1, <2>2, <1>5, <1>6 DEF IsOpened
  <2>4. HasResult(a.n, a.seen) = a.has
    BY <1>0, <2>1 DEF HasResult, Results
  <2>5. Matched(a)
    BY <2>1, <2>3, <2>4 DEF Matched
  <2>6. CASE a.n # n
    <3>1. ~ Owes(s, a.n) /\ ~ Owes(Std, a.n)
      BY <1>1, <1>7, <2>6 DEF Owes
    <3>2. Fits(a.n)
      BY <1>13, <2>5, <3>1 DEF RoutingParts, Between
    <3>3. Fits(a.n)'
      BY <1>0, <1>5, <2>2, <2>6, <3>2 DEF Fits, HasResult, Results, Shows
    <3> QED  BY <3>1, <3>3 DEF Between, Owes
  <2>7. CASE a.n = n
    <3>1. Owes(s, n) /\ Owes(Std, n) /\ s.at \in Early
      BY <1>1, <1>2, <1>7 DEF Owes, Unwritten, Routing, Early
    <3>2. Stale(s)' => Stale(Std)
      BY <1>1, <1>6, <1>7 DEF Stale
    <3>3. Stale(s)' => Shows(pulls[n], FALSE)'
      <4>1. Stale(Std) => Shows(pulls[n], FALSE)
        BY <1>7, <1>13, <2>5, <2>7, <3>1 DEF RoutingParts, Between
      <4> QED  BY <1>6, <3>2, <4>1 DEF Shows
    <3>4. a.head \in Nat /\ a.head <= pulls[n].head
      BY <1>13, <2>1, <2>7 DEF Plans
    <3>5. pulls'[n].head # a.head
      BY <1>4, <1>6, <3>4
    <3>6. ~ HasResult(n, pulls[n])'
      <4> SUFFICES ASSUME HasResult(n, pulls[n])' PROVE FALSE
        OBVIOUS
      <4>1. PICK c \in comments[n] : c.mark = [kind |-> "result", rev |-> pulls'[n].rev, head |-> pulls'[n].head]
        BY <1>0 DEF HasResult, Results
      <4>2. c.mark.head <= pulls[n].head /\ c.mark.head = branch[n]
        BY <1>1, <1>6, <4>1 DEF Heads
      <4> QED  BY <1>4, <4>2
    <3> QED  BY <1>1, <1>7, <2>7, <3>1, <3>3, <3>5, <3>6 DEF Between, Owes, RoutingSteps
  <2> QED  BY <2>6, <2>7
<1>14. ASSUME NEW a, NEW out, Plans(a), a = Adv, out = (halfway \cup parked)' PROVE Rested(s, a, out)'
  <2>1. out = halfway \cup parked
    BY <1>0, <1>14
  <2>2. \A m \in Pulls \ out : IsOpened(m) /\ ~ Owes(Std, m) /\ ~ Owes(a, m) => Fits(m)
    BY <1>14, <2>1 DEF RoutingParts, Rested
  <2>3. ASSUME NEW m \in Pulls \ out, IsOpened(m)', ~ Owes(s, m), ~ Owes(a, m) PROVE Fits(m)'
    <3>1. m # n
      BY <1>1, <1>2, <1>7, <2>3 DEF Owes, Unwritten, Routing
    <3>2. IsOpened(m) /\ Fits(m)
      BY <1>5, <1>7, <2>2, <2>3, <3>1 DEF IsOpened
    <3> QED  BY <1>0, <1>5, <3>1, <3>2 DEF Fits, HasResult, Results, Shows
  <2> QED  BY <1>5, <2>3 DEF Rested, Owes
<1> QED  BY <1>0, <1>8, <1>9, <1>10, <1>12, <1>13, <1>14, StudentWrites

\* Comments that are not results say nothing about routing.
LEMMA TellingStays ==
  ASSUME IInv, UNCHANGED <<scope, given, pulls, branch>>, NEW s, NEW a, NEW out,
         \A m \in Pulls : /\ comments[m] \subseteq comments'[m]
                          /\ \A c \in comments'[m] \ comments[m] : c.mark.kind # "result",
         a.at # "idle" => a.n \in Pulls \/ a.op \notin Routing,
         a.at \in RoutingSteps \cup {"routed"} => a.op \in Routing
  PROVE  /\ Heads(s) => Heads(s)'
         /\ Known(s) => Known(s)'
         /\ Heads(Std) /\ Plans(a) => Plans(a)'
         /\ Between(s, a) => Between(s, a)'
         /\ Rested(s, a, out) => Rested(s, a, out)'
<1>0. Pulls' = Pulls /\ given \subseteq Pulls /\ Types
  BY DEF Pulls, IInv, GitInv, Types
<1>1. ASSUME NEW m \in Pulls, NEW rev, NEW head PROVE Results(m, rev, head)' = Results(m, rev, head)
  <2>1. {d \in comments'[m] : d.mark = [kind |-> "result", rev |-> rev, head |-> head]}
          = {d \in comments[m] : d.mark = [kind |-> "result", rev |-> rev, head |-> head]}
    OBVIOUS
  <2> QED  BY <2>1 DEF Results
<1>2. \A m \in Pulls : \A rev, head : (Has(m, rev, head)' <=> Has(m, rev, head))
  BY <1>1 DEF Has
<1>3. \A m \in Pulls : \A pull : (HasResult(m, pull)' <=> HasResult(m, pull))
  BY <1>1 DEF HasResult
<1>4. \A m \in Pulls : (IsOpened(m)' <=> IsOpened(m)) /\ (Fits(m)' <=> Fits(m))
  BY <1>3 DEF IsOpened, Fits, Shows
<1>5. \A call : DraftOf(call)' = DraftOf(call) /\ LabelsOf(call)' = LabelsOf(call)
  BY DEF DraftOf, LabelsOf, Turns, Adds, Removes
<1>6. \A call, has : Reaches(call, has)' <=> Reaches(call, has)
  BY <1>5 DEF Reaches, Shows
<1>7. (Stale(s)' <=> Stale(s)) /\ (Restored(s)' <=> Restored(s)) /\ (Overtaken(s)' <=> Overtaken(s))
  BY <1>5, <1>6 DEF Stale, Restored, SinceSeen, Overtaken, Restoring, Drafted, Labelled, Shows, IsOpened
<1>8. Heads(s) => Heads(s)'
  BY <1>0 DEF Heads
<1>9. Known(s) => Known(s)'
  BY <1>0, <1>2, <1>7 DEF Known, Reviewing, Restoring, Toward
<1>10. Heads(Std) /\ Plans(a) => Plans(a)'
  <2> SUFFICES ASSUME Heads(Std), Plans(a) PROVE Plans(a)'
    OBVIOUS
  <2>0. CASE a.n \notin Pulls
    <3>1. a.at = "idle" \/ a.op \notin Routing
      BY <2>0
    <3> QED  BY <3>1 DEF Plans, Routing, RoutingSteps, Toward
  <2>1. CASE a.n \in Pulls
    <3>1. pulls'[a.n].head \in Nat /\ pulls[a.n].head <= pulls'[a.n].head
      BY <2>1 DEF Heads
    <3> QED  BY <1>2, <2>1, <3>1, PlansStay
  <2> QED  BY <2>0, <2>1
<1>11. Between(s, a) => Between(s, a)'
  <2> SUFFICES ASSUME Between(s, a), Matched(a)' PROVE Between(s, a)'
    BY DEF Between
  <2>1. a.n \in Pulls
    BY DEF Matched, Routing
  <2>2. HasResult(a.n, a.seen)' = HasResult(a.n, a.seen) /\ (HasResult(a.n, pulls[a.n])' <=> HasResult(a.n, pulls[a.n]))
    BY <1>1, <2>1 DEF HasResult
  <2>3. Matched(a)
    BY <1>4, <2>1, <2>2 DEF Matched, Shows
  <2> QED  BY <1>4, <1>6, <1>7, <2>1, <2>2, <2>3 DEF Between, Owes, Shows
<1>12. Rested(s, a, out) => Rested(s, a, out)'
  BY <1>0, <1>4 DEF Rested, Owes
<1> QED  BY <1>8, <1>9, <1>10, <1>11, <1>12

-----------------------------------------------------------------------------
\* A request that is not lost.
LEMMA Applied ==
  ASSUME faults = 0, faults' = 0, NEW p, PostComment(p) \/ EditComment(p)
  PROVE  /\ UNCHANGED <<pulls, branch, scope, given, halfway, parked>> /\ To(p, "verifyPost")
         /\ PostComment(p) =>
              comments' = [comments EXCEPT ![w[p].n] =
                @ \cup {[mark |-> w[p].mark, text |-> w[p].text, copy |-> Copies(p)]}]
         /\ EditComment(p) =>
              comments' = [comments EXCEPT ![w[p].n] =
                (@ \ Marked(p)) \cup {[c EXCEPT !.text = w[p].text] : c \in Marked(p)}]
BY DEF PostComment, EditComment, Sent, local, history

\* A result appears under the revision and head of its submission.
LEMMA ResultPosts ==
  ASSUME IInv, RoutingParts, faults = 0, faults' = 0, Std.op = "submit", PostComment("student"),
         NEW n, n = Std.n
  PROVE  RoutingParts'
<1>0. Std.at = "post" /\ Std.at # "idle"
  BY DEF PostComment, At, Std
<1>1. /\ Known(Std) /\ n \in Pulls /\ Types /\ Owes(Std, n)
      /\ Std.rev \in Nat /\ pulls[n].rev \in Nat /\ Std.rev <= pulls[n].rev
      /\ Std.mark = [kind |-> "result", rev |-> Std.rev, head |-> Std.head]
      /\ Fields(Std, {"at", "op", "n", "rev", "head", "text", "mark"})
  BY <1>0, SubmitFacts
<1>2. branch[n] = Std.head /\ pulls[n].head = Std.head
  BY <1>0, <1>1 DEF Known
<1>3. PICK c : c = [mark |-> Std.mark, text |-> Std.text, copy |-> Copies("student")]
  OBVIOUS
<1>4. /\ UNCHANGED <<pulls, branch, scope, given, halfway, parked>> /\ To("student", "verifyPost")
      /\ comments' = [comments EXCEPT ![n] = @ \cup {c}]
  BY <1>3, Applied DEF Std
<1>5. PICK s : s = [Std EXCEPT !.at = "verifyPost"]
  OBVIOUS
<1>6. w'["student"] = s /\ w'["advisor"] = w["advisor"]
  BY <1>1, <1>4, <1>5 DEF To, Types, Std, Workers
<1>7. s.at = "verifyPost" /\ s.n = n /\ s.op = "submit" /\ s.rev = Std.rev /\ s.head = Std.head
      /\ s.mark = Std.mark /\ s.text = Std.text
  BY <1>1, <1>5 DEF Fields
<1>8. /\ Pulls' = Pulls /\ \A m \in Pulls : comments'[m] = IF m = n THEN comments[n] \cup {c} ELSE comments[m]
  BY <1>1, <1>4 DEF Pulls, Types
<1>9. c.mark = [kind |-> "result", rev |-> s.rev, head |-> s.head] /\ c.text = s.text /\ c.mark = s.mark
      /\ c.mark.rev = s.rev /\ c.mark.head = pulls[n].head
  BY <1>1, <1>2, <1>3, <1>7
<1>10. Heads(s)'
  <2>1. Heads(Std)
    BY DEF RoutingParts
  <2>2. \A m \in Pulls : \A d \in comments'[m] : d.mark.kind = "result" => d.mark.head <= pulls[m].head
    <3>1. pulls[n].head \in Nat
      BY <1>1, <2>1 DEF Heads
    <3> QED  BY <1>8, <1>9, <2>1, <3>1 DEF Heads
  <2>3. \A m \in Pulls : pulls[m].state # "none" => pulls[m].head = branch[m]
    BY <1>0, <2>1 DEF Heads
  <2> QED  BY <1>4, <1>8, <2>1, <2>2, <2>3 DEF Heads
<1>11. Known(s)'
  <2>1. n \in given /\ \A d \in comments'[n] : d.mark.kind = "result" => d.mark.rev <= s.rev
    BY <1>0, <1>1, <1>7, <1>8, <1>9 DEF Known
  <2>2. \E d \in comments'[n] : d.mark = s.mark /\ d.text = s.text
    BY <1>1, <1>8, <1>9
  <2> QED  BY <1>2, <1>4, <1>7, <2>1, <2>2 DEF Known, Reviewing, Restoring, RoutingSteps, ReconcileSteps
<1>12. \A m \in Pulls : \A rev, head : Results(m, rev, head) \subseteq Results(m, rev, head)'
  BY <1>8 DEF Results
<1>13. \A m \in Pulls : \A rev, head : Has(m, rev, head) => Has(m, rev, head)'
  BY <1>12 DEF Has
<1>14. \A m \in Pulls : m # n => \A pull : (HasResult(m, pull)' <=> HasResult(m, pull))
  BY <1>8 DEF HasResult, Results
<1>15. ASSUME NEW a, Plans(a), a = Adv PROVE Plans(a)'
  <2>1. /\ a.at # "idle" => a.n \in Pulls \/ a.op \notin Routing
        /\ a.at \in RoutingSteps \cup {"routed"} => a.op \in Routing
    BY <1>15, AdvisorFacts
  <2>2. CASE a.n \in Pulls
    <3>1. pulls'[a.n].head \in Nat /\ pulls[a.n].head <= pulls'[a.n].head
      BY <1>4, <2>2 DEF RoutingParts, Heads
    <3> QED  BY <1>4, <1>13, <1>15, <2>1, <2>2, <3>1, PlansStay DEF RoutingParts
  <2>3. CASE a.n \notin Pulls
    <3>1. a.at = "idle" \/ a.op \notin Routing
      BY <2>1, <2>3
    <3> QED  BY <1>15, <2>1, <3>1 DEF Plans, Routing, RoutingSteps, Toward
  <2> QED  BY <2>2, <2>3
<1>16. ASSUME NEW a, Plans(a), a = Adv, Matched(a)' PROVE Between(s, a)'
  <2>1. a.at = "settleResult" /\ a.op = "revise" /\ IsOpened(a.n) /\ HasResult(a.n, a.seen)' = a.has
        /\ Shows(a.seen, a.has)
    BY <1>4, <1>16 DEF Matched, Shows, IsOpened
  <2>2. a.n \in Pulls
    BY <1>16, <2>1, AdvisorFacts DEF ShapeOf
  <2>3. /\ a.has \in BOOLEAN /\ (a.has => Has(a.n, pulls[a.n].rev, a.head))
        /\ a.seen.rev = pulls[a.n].rev /\ a.seen.head = a.head
    BY <1>16, <2>1 DEF Plans, ReconcileSteps
  <2>4. HasResult(a.n, a.seen) => HasResult(a.n, a.seen)'
    BY <1>12, <2>2 DEF HasResult
  <2>5. HasResult(a.n, a.seen) = a.has
    BY <2>1, <2>3, <2>4 DEF HasResult, Has
  <2>6. Matched(a)
    BY <2>1, <2>5 DEF Matched
  <2>7. CASE a.n # n
    <3>1. ~ Owes(s, a.n) /\ ~ Owes(Std, a.n)
      BY <1>7, <2>7 DEF Owes
    <3>2. Fits(a.n)
      BY <1>16, <2>6, <3>1 DEF RoutingParts, Between
    <3>3. Fits(a.n)'
      BY <1>4, <1>14, <2>2, <2>7, <3>2 DEF Fits, Shows
    <3> QED  BY <3>1, <3>3 DEF Between, Owes
  <2>8. CASE a.n = n
    <3>1. Owes(s, n) /\ s.at \in Early /\ s.at \notin {"submitBefore", "find", "submitAfter"} \cup RoutingSteps
      BY <1>7 DEF Owes, Unwritten, Routing, Early, RoutingSteps
    <3>2. Stale(s)' = Stale(Std)
      BY <1>4, <1>7 DEF Stale
    <3>3. /\ Stale(Std) => Shows(pulls[n], FALSE)
          /\ ~ Stale(Std) /\ pulls[n].head = a.head => Shows(pulls[n], a.has)
      BY <1>0, <1>1, <1>16, <2>6, <2>8 DEF RoutingParts, Between, Early
    <3> QED  BY <1>4, <2>8, <3>1, <3>2, <3>3 DEF Between, Owes, Shows
  <2> QED  BY <2>7, <2>8
<1>17. ASSUME NEW a, NEW out, Plans(a), a = Adv, out = (halfway \cup parked)' PROVE Rested(s, a, out)'
  <2>1. out = halfway \cup parked
    BY <1>4, <1>17
  <2>2. \A m \in Pulls \ out : IsOpened(m) /\ ~ Owes(Std, m) /\ ~ Owes(a, m) => Fits(m)
    BY <1>17, <2>1 DEF RoutingParts, Rested
  <2>3. ASSUME NEW m \in Pulls \ out, IsOpened(m)', ~ Owes(s, m), ~ Owes(a, m) PROVE Fits(m)'
    <3>1. m # n
      BY <1>7, <2>3 DEF Owes, Unwritten, Routing
    <3>2. IsOpened(m) /\ Fits(m)
      BY <1>1, <1>4, <2>2, <2>3, <3>1 DEF IsOpened, Owes
    <3> QED  BY <1>4, <1>14, <3>1, <3>2 DEF Fits, Shows
  <2> QED  BY <1>8, <2>3 DEF Rested, Owes
<1> QED  BY <1>4, <1>6, <1>10, <1>11, <1>15, <1>16, <1>17, StudentWrites

-----------------------------------------------------------------------------
\* All comments but results leave routing alone.
LEMMA PostTells ==
  ASSUME IInv, ScopesAssumption, faults = 0, faults' = 0, NEW p \in Workers,
         (PostComment(p) /\ w[p].op # "submit") \/ EditComment(p)
  PROVE  /\ UNCHANGED <<pulls, branch, scope, given, halfway, parked>> /\ To(p, "verifyPost")
         /\ \A m \in Pulls : /\ comments[m] \subseteq comments'[m]
                             /\ \A c \in comments'[m] \ comments[m] : c.mark.kind # "result"
<1>0. UNCHANGED <<pulls, branch, scope, given, halfway, parked>> /\ To(p, "verifyPost")
  BY Applied
<1>1. CallInv(p, w[p]) /\ Types
  BY DEF IInv, GitInv
<1>2. w[p].at \in {"post", "edit"} /\ ShapeOf(p, w[p])
  BY <1>1 DEF PostComment, EditComment, At, CallInv
<1>3. CASE PostComment(p) /\ w[p].op # "submit"
  <2>1. w[p].at = "post"
    BY <1>3 DEF PostComment, At
  <2>2. w[p].op \in {"revise", "accept", "close", "message", "answer"}
    BY <1>2, <1>3, <2>1, StepOps DEF ShapeOf, UpsertSteps
  <2>3. w[p].mark.kind # "result"
    BY <1>2, <2>1, <2>2 DEF ShapeOf, Workers
  <2>4. PICK c : /\ comments' = [comments EXCEPT ![w[p].n] = @ \cup {c}]
                 /\ c.mark = w[p].mark
    <3>1. PICK c : c = [mark |-> w[p].mark, text |-> w[p].text, copy |-> Copies(p)]
      OBVIOUS
    <3>2. comments' = [comments EXCEPT ![w[p].n] = @ \cup {c}]
      BY <1>3, <3>1, Applied
    <3>3. c.mark = w[p].mark
      BY <3>1
    <3> QED  BY <3>2, <3>3
  <2>5. \A m \in Pulls : comments'[m] = IF m = w[p].n THEN comments[m] \cup {c} ELSE comments[m]
    BY <1>1, <2>4 DEF Types
  <2> QED  BY <1>0, <2>3, <2>4, <2>5
<1>4. CASE EditComment(p)
  <2>1. w[p].op = "answer"
    BY <1>2, <1>4, StepOps DEF ShapeOf, EditComment, At
  <2>2. w[p].n \in scope.issues /\ scope \in Scopes
    BY <1>1, <1>2, <2>1 DEF ShapeOf, Types
  <2>3. w[p].n \notin Pulls
    BY <2>2 DEF ScopesAssumption, Pulls
  <2>4. \A m \in Pulls : comments'[m] = comments[m]
    BY <1>1, <1>4, <2>3, Applied DEF Types
  <2> QED  BY <1>0, <2>4
<1> QED  BY <1>3, <1>4

\* What is sent for another operation than a submission.
LEMMA StudentTellsMore ==
  ASSUME IInv, ScopesAssumption, RoutingParts, faults = 0, faults' = 0,
         (PostComment("student") /\ Std.op # "submit") \/ EditComment("student")
  PROVE  RoutingParts'
<1>1. /\ UNCHANGED <<pulls, branch, scope, given, halfway, parked>> /\ To("student", "verifyPost")
      /\ \A m \in Pulls : /\ comments[m] \subseteq comments'[m]
                          /\ \A c \in comments'[m] \ comments[m] : c.mark.kind # "result"
  BY PostTells DEF Workers, Std
<1>2. CallInv("student", Std) /\ Std.at # "idle" /\ Types
  BY DEF IInv, GitInv, Workers, Std, PostComment, EditComment, At
<1>3. Fields(Std, {"at", "op", "n"}) /\ Std.op \notin Routing /\ Std.at # "submitBefore"
  <2>1. Std.op # "submit"
    <3>1. CASE EditComment("student")
      <4>1. Std.at = "edit"
        BY <3>1 DEF EditComment, At, Std
      <4> QED  BY <1>2, <4>1, StepOps DEF CallInv, ShapeOf
    <3> QED  BY <3>1
  <2> QED  BY <1>2, <2>1, StepOps DEF CallInv, ShapeOf, Fields, Routing
<1>4. PICK s : s = [Std EXCEPT !.at = "verifyPost"]
  OBVIOUS
<1>5. s.op = Std.op /\ w'["student"] = s /\ w'["advisor"] = w["advisor"]
  BY <1>1, <1>2, <1>3, <1>4 DEF Fields, To, Types, Std, Workers
<1>6. \A n : ~ Owes(Std, n) /\ ~ Owes(s, n)
  BY <1>3, <1>5 DEF Owes
<1>7. Heads(s) /\ Known(s)
  BY <1>3, <1>5 DEF RoutingParts, Heads, Known, Routing
<1>8. Between(s, Adv) /\ Rested(s, Adv, halfway \cup parked)
  BY <1>6 DEF RoutingParts, Between, Rested
<1>9. PICK a, out : a = Adv /\ out = halfway \cup parked
  OBVIOUS
<1>10. /\ a.at # "idle" => a.n \in Pulls \/ a.op \notin Routing
       /\ a.at \in RoutingSteps \cup {"routed"} => a.op \in Routing
  BY <1>9, AdvisorFacts
<1>11. Heads(s)' /\ Known(s)' /\ Plans(a)' /\ Between(s, a)' /\ Rested(s, a, out)'
  BY <1>1, <1>7, <1>8, <1>9, <1>10, TellingStays DEF RoutingParts
<1>12. a = w'["advisor"] /\ out = (halfway \cup parked)'
  BY <1>1, <1>5, <1>9 DEF Adv
<1> QED  BY <1>5, <1>11, <1>12 DEF RoutingParts, Std, Adv

\* All steps with which the student looks for, posts and verifies a comment.
LEMMA StudentUpserts ==
  ASSUME IInv, ScopesAssumption, RoutingParts, faults = 0, faults' = 0, Upsert("student")
  PROVE  RoutingParts'
<1>1. CASE StillCurrent("student")
  BY <1>1, StillCurrentRoutes
<1>2. CASE PostComment("student") \/ EditComment("student")
  <2>1. CASE Std.op = "submit" /\ PostComment("student")
    <3>1. PICK n : n = Std.n
      OBVIOUS
    <3> QED  BY <2>1, <3>1, ResultPosts
  <2> QED  BY <1>2, <2>1, StudentTellsMore
<1>3. CASE FindComment("student") \/ VerifyPost("student")
  <2>0. Types /\ CallInv("student", Std) /\ Std.at \in UpsertSteps /\ Std.at # "idle" /\ UNCHANGED <<gitHub, local>>
    BY <1>3 DEF IInv, GitInv, Workers, Std, FindComment, VerifyPost, At, UpsertSteps
  <2>1. CASE Std.op = "submit"
    BY <1>3, <2>1, SubmitFindRoutes, SubmitVerifyRoutes
  <2>2. CASE Std.op # "submit"
    <3>1. Std.op \notin Routing /\ Fields(Std, {"at", "op", "n"})
      BY <2>0, <2>2 DEF CallInv, ShapeOf, Routing, Fields
    <3>2. ASSUME NEW step, To("student", step), UNCHANGED history PROVE RoutingParts'
      <4>1. PICK s : s = [Std EXCEPT !.at = step]
        OBVIOUS
      <4>2. w' = [w EXCEPT !["student"] = s] /\ s.op = Std.op
        BY <2>0, <3>1, <3>2, <4>1 DEF To, Types, Std, Fields
      <4> QED  BY <2>0, <3>1, <3>2, <4>2, StudentTells
    <3>3. ASSUME Raises("student") \/ Returns("student") PROVE RoutingParts'
      <4>1. w' = [w EXCEPT !["student"] = Idle] /\ UNCHANGED history /\ Idle.at = "idle"
        BY <3>1, <3>3 DEF Raises, Returns, Becomes, history, Std, Idle, Routing
      <4> QED  BY <2>0, <3>1, <4>1, StudentTells
    <3>4. ASSUME Upserted("student") PROVE Returns("student")
      BY <3>1, <3>4 DEF Upserted, Routing, Std
    <3> QED  BY <1>3, <3>2, <3>3, <3>4 DEF FindComment, VerifyPost
  <2> QED  BY <2>1, <2>2
<1> QED  BY <1>1, <1>2, <1>3 DEF Upsert

-----------------------------------------------------------------------------
(* The requests of a routing change.                                       *)

\* What is left to do after a request, whatever GitHub shows by then.
LEMMA OnwardTurns ==
  ASSUME NEW call, {"at", "n"} \cup RoutingFields \subseteq DOMAIN call, call.then \notin RoutingSteps,
         NEW draft, NEW labels
  PROVE  LET later == Onward(call)
         IN  /\ DOMAIN later = DOMAIN call
             /\ \A f \in DOMAIN call : f # "at" => later[f] = call[f]
             /\ later.at \in RoutingSteps \cup {call.then}
             /\ later.at = "remove" => later.remove # {}
             /\ (IF Turns(later) THEN later.draft ELSE draft) = IF call.turn THEN call.draft ELSE draft
             /\ (labels \cup Adds(later)) \ Removes(later) = (labels \cup call.add) \ call.remove
<1> DEFINE later == Onward(call)
<1>1. /\ DOMAIN later = DOMAIN call
      /\ \A f \in DOMAIN call : f # "at" => later[f] = call[f]
      /\ later.at \in RoutingSteps \cup {call.then}
  BY OnwardCarries
<1>2. later.at = CASE call.turn -> "draft"
                   [] ~ call.turn /\ call.add # {} -> "add"
                   [] ~ call.turn /\ call.add = {} /\ call.remove # {} -> "remove"
                   [] OTHER -> call.then
  BY DEF Onward
<1> HIDE DEF later
<1>3. /\ later.turn = call.turn /\ later.draft = call.draft
      /\ later.add = call.add /\ later.remove = call.remove
  BY <1>1 DEF RoutingFields
<1>4. (IF Turns(later) THEN later.draft ELSE draft) = IF call.turn THEN call.draft ELSE draft
  BY <1>2, <1>3 DEF Turns, RoutingSteps
<1>5. (labels \cup Adds(later)) \ Removes(later) = (labels \cup call.add) \ call.remove
  BY <1>2, <1>3 DEF Adds, Removes, RoutingSteps
<1>6. later.at = "remove" => later.remove # {}
  BY <1>2, <1>3 DEF RoutingSteps
<1> QED  BY <1>1, <1>4, <1>5, <1>6 DEF later

\* A request takes the pull request from one state to the next, and the call on.
Requested(c, pull, later, was) ==
  /\ pull.state = was.state /\ pull.rev = was.rev /\ pull.base = was.base /\ pull.head = was.head
  /\ pull.draft \in {was.draft, c.draft}
  /\ was.labels \ c.remove \subseteq pull.labels /\ pull.labels \subseteq was.labels \cup c.add
  /\ DOMAIN later = DOMAIN c /\ \A f \in DOMAIN c \ {"at", "turn", "add", "remove"} : later[f] = c[f]
  /\ later.at \in RoutingSteps \cup {c.then}
  /\ later.add \subseteq c.add /\ later.remove \subseteq c.remove
  /\ later.at = "remove" => later.remove # {}
  /\ \A has \in BOOLEAN :
       Toward(c, has) => /\ Reaches(c, has) =>
                              Shows([draft |-> IF Turns(later) THEN later.draft ELSE pull.draft,
                                     labels |-> (pull.labels \cup Adds(later)) \ Removes(later)], has)
                         /\ DraftOf(c) = ~ has =>
                              (IF Turns(later) THEN later.draft ELSE pull.draft) = ~ has

\* The label that a request removes is one of those to remove.
LEMMA LabelChosen ==
  ASSUME NEW remove, remove \subseteq DOMAIN LabelOrder, remove # {}
  PROVE  (CHOOSE l \in remove : \A m \in remove : LabelOrder[l] <= LabelOrder[m]) \in remove
<1>1. /\ DOMAIN LabelOrder = {"hold", "review", "wip"}
      /\ LabelOrder["hold"] = 1 /\ LabelOrder["review"] = 2 /\ LabelOrder["wip"] = 3
  BY DEF LabelOrder
<1>2. \E l \in remove : \A m \in remove : LabelOrder[l] <= LabelOrder[m]
  <2>1. CASE "hold" \in remove
    BY <1>1, <2>1
  <2>2. CASE "hold" \notin remove /\ "review" \in remove
    BY <1>1, <2>2
  <2>3. CASE "hold" \notin remove /\ "review" \notin remove
    BY <1>1, <2>3
  <2> QED  BY <2>1, <2>2, <2>3
<1> QED  BY <1>2

\* A request of either worker: refused on a closed pull request, or done.
LEMMA RequestGoes ==
  ASSUME IInv, NEW p \in Workers, faults = 0, faults' = 0, SetRouting(p),
         NEW c, c = w[p], NEW n, n = c.n, c.remove \subseteq DOMAIN LabelOrder,
         c.at = "remove" => c.remove # {}, c.draft \in BOOLEAN, pulls[n].draft \in BOOLEAN
  PROVE  \/ ~ IsOpened(n) /\ Raises(p) /\ UNCHANGED <<gitHub, local>>
         \/ /\ UNCHANGED <<scope, given, comments, branch, halfway, parked>>
            /\ \E pull, later : /\ Requested(c, pull, later, pulls[n])
                                /\ w' = [w EXCEPT ![p] = later]
                                /\ \A m \in Pulls : pulls'[m] = IF m = n THEN pull ELSE pulls[m]
<1>0. c.at \in RoutingSteps /\ c.at # "idle" /\ CallInv(p, c) /\ Types
  BY DEF SetRouting, SetDraft, AddLabels, RemoveLabel, At, RoutingSteps, IInv, GitInv
<1>1. /\ ShapeOf(p, c) /\ RoutingShape(c) /\ "at" \in DOMAIN c
  BY <1>0 DEF CallInv
<1>2. /\ {"at", "n"} \cup RoutingFields \subseteq DOMAIN c /\ c.then \notin RoutingSteps
  BY <1>0, <1>1 DEF ShapeOf, RoutingShape, Fields, RoutingFields, RoutingSteps
<1>3. n \in Pulls
  <2>1. c.op # "answer"
    BY <1>0, <1>1, StepOps DEF ShapeOf
  <2> QED  BY <1>1, <2>1 DEF ShapeOf
<1>4. PICK was : was = pulls[n]
  OBVIOUS
<1>5. was = [state |-> was.state, rev |-> was.rev, base |-> was.base,
             head |-> was.head, draft |-> was.draft, labels |-> was.labels]
  BY <1>0, <1>3, <1>4 DEF Types, PullShape
<1>6. DraftOf(c) = (IF Turns(c) THEN c.draft ELSE was.draft) /\ LabelsOf(c) = (was.labels \cup c.add) \ c.remove
  BY <1>0, <1>4 DEF DraftOf, LabelsOf, Adds, Removes
<1>7. ASSUME NEW pull, PullChanges(n, pull) PROVE
        /\ UNCHANGED <<comments, branch>>
        /\ \A m \in Pulls : pulls'[m] = IF m = n THEN pull ELSE pulls[m]
  BY <1>0, <1>7 DEF PullChanges, Types
<1>8. ASSUME SetDraft(p) PROVE
        \/ ~ IsOpened(n) /\ Raises(p) /\ UNCHANGED <<gitHub, local>>
        \/ /\ UNCHANGED <<scope, given, comments, branch, halfway, parked>>
           /\ \E pull, later : /\ Requested(c, pull, later, pulls[n])
                               /\ w' = [w EXCEPT ![p] = later]
                               /\ \A m \in Pulls : pulls'[m] = IF m = n THEN pull ELSE pulls[m]
  <2>1. CASE ~ IsOpen(p)
    BY <1>8, <2>1 DEF SetDraft, IsOpen, IsOpened, Pull
  <2>2. CASE IsOpen(p)
    <3>1. PICK pull, call, no : /\ pull = [was EXCEPT !.draft = c.draft] /\ call = [c EXCEPT !.turn = no]
                                /\ no = FALSE
      OBVIOUS
    <3>2. PICK later : later = Onward(call)
      OBVIOUS
    <3>3. w' = [w EXCEPT ![p] = later] /\ PullChanges(n, pull) /\ UNCHANGED <<scope, given, halfway, parked>>
      <4>1. /\ Sent(PullChanges(w[p].n, [Pull(p) EXCEPT !.draft = w[p].draft]))
            /\ Becomes(p, Onward([w[p] EXCEPT !.turn = FALSE]))
            /\ UNCHANGED <<history, local>>
        BY <1>8, <2>2 DEF SetDraft
      <4>2. PullChanges(n, [was EXCEPT !.draft = c.draft])
        BY <1>4, <4>1 DEF Sent, Pull
      <4>3. PullChanges(n, pull)
        BY <3>1, <4>2
      <4>4. [w[p] EXCEPT !.turn = FALSE] = [c EXCEPT !.turn = no]
        BY <3>1
      <4>5. Becomes(p, later)
        BY <3>1, <3>2, <4>1, <4>4
      <4> QED  BY <4>1, <4>3, <4>5 DEF Becomes, history, local
    <3>4. /\ DOMAIN call = DOMAIN c /\ call.turn = FALSE
          /\ \A f \in DOMAIN c : f # "turn" => call[f] = c[f]
      BY <1>2, <3>1 DEF RoutingFields
    <3>5. /\ call.n = c.n /\ call.draft = c.draft /\ call.add = c.add /\ call.remove = c.remove /\ call.then = c.then
      BY <1>2, <3>4 DEF RoutingFields
    <3>6. /\ DOMAIN later = DOMAIN call
          /\ \A f \in DOMAIN call : f # "at" => later[f] = call[f]
          /\ later.at \in RoutingSteps \cup {call.then}
          /\ later.at = "remove" => later.remove # {}
          /\ (IF Turns(later) THEN later.draft ELSE pull.draft) = IF call.turn THEN call.draft ELSE pull.draft
          /\ (pull.labels \cup Adds(later)) \ Removes(later) = (pull.labels \cup call.add) \ call.remove
      BY <1>2, <3>2, <3>4, <3>5, OnwardTurns
    <3>7. /\ pull.state = was.state /\ pull.rev = was.rev /\ pull.base = was.base /\ pull.head = was.head
          /\ pull.draft = c.draft /\ pull.labels = was.labels
      BY <1>5, <3>1
    <3>8. /\ (IF Turns(later) THEN later.draft ELSE pull.draft) = c.draft
          /\ (pull.labels \cup Adds(later)) \ Removes(later) = LabelsOf(c)
      BY <1>6, <3>4, <3>5, <3>6, <3>7
    <3>9. /\ later.add = c.add /\ later.remove = c.remove
          /\ \A f \in DOMAIN c \ {"at", "turn", "add", "remove"} : later[f] = c[f]
      BY <1>2, <3>4, <3>5, <3>6 DEF RoutingFields
    <3>10. ASSUME NEW has \in BOOLEAN, Toward(c, has)
           PROVE  /\ Reaches(c, has) => Shows([draft |-> IF Turns(later) THEN later.draft ELSE pull.draft,
                                  labels |-> (pull.labels \cup Adds(later)) \ Removes(later)], has)
                  /\ (IF Turns(later) THEN later.draft ELSE pull.draft) = ~ has
      <4>1. c.draft = ~ has
        BY <3>10 DEF Toward
      <4> QED  BY <3>8, <4>1 DEF Reaches, Shows
    <3>11. Requested(c, pull, later, was)
      BY <3>4, <3>5, <3>6, <3>7, <3>9, <3>10 DEF Requested
    <3> QED  BY <1>4, <1>7, <3>3, <3>11
  <2> QED  BY <2>1, <2>2
<1>9. ASSUME AddLabels(p) PROVE
        /\ UNCHANGED <<scope, given, comments, branch, halfway, parked>>
        /\ \E pull, later : /\ Requested(c, pull, later, pulls[n])
                            /\ w' = [w EXCEPT ![p] = later]
                            /\ \A m \in Pulls : pulls'[m] = IF m = n THEN pull ELSE pulls[m]
  <2>1. PICK pull, call : /\ pull = [was EXCEPT !.labels = was.labels \cup c.add] /\ call = [c EXCEPT !.add = {}]
    OBVIOUS
  <2>2. PICK later : later = Onward(call)
    OBVIOUS
  <2>3. w' = [w EXCEPT ![p] = later] /\ PullChanges(n, pull) /\ UNCHANGED <<scope, given, halfway, parked>>
    BY <1>4, <1>9, <2>1, <2>2 DEF AddLabels, Sent, Becomes, Pull, history, local
  <2>4. /\ DOMAIN call = DOMAIN c /\ call.add = {}
        /\ \A f \in DOMAIN c : f # "add" => call[f] = c[f]
    BY <1>2, <2>1 DEF RoutingFields
  <2>5. /\ call.n = c.n /\ call.draft = c.draft /\ call.turn = c.turn /\ call.remove = c.remove /\ call.then = c.then
    BY <1>2, <2>4 DEF RoutingFields
  <2>6. /\ DOMAIN later = DOMAIN call
        /\ \A f \in DOMAIN call : f # "at" => later[f] = call[f]
        /\ later.at \in RoutingSteps \cup {call.then}
        /\ later.at = "remove" => later.remove # {}
        /\ (IF Turns(later) THEN later.draft ELSE pull.draft) = IF call.turn THEN call.draft ELSE pull.draft
        /\ (pull.labels \cup Adds(later)) \ Removes(later) = (pull.labels \cup call.add) \ call.remove
    BY <1>2, <2>2, <2>4, <2>5, OnwardTurns
  <2>7. /\ pull.state = was.state /\ pull.rev = was.rev /\ pull.base = was.base /\ pull.head = was.head
        /\ pull.draft = was.draft /\ pull.labels = was.labels \cup c.add
    BY <1>5, <2>1
  <2>8. /\ (IF Turns(later) THEN later.draft ELSE pull.draft) = DraftOf(c)
        /\ (pull.labels \cup Adds(later)) \ Removes(later) = LabelsOf(c)
    BY <1>0, <1>6, <2>4, <2>5, <2>6, <2>7 DEF Turns
  <2>9. /\ later.add \subseteq c.add /\ later.remove = c.remove
        /\ \A f \in DOMAIN c \ {"at", "turn", "add", "remove"} : later[f] = c[f]
    BY <1>2, <2>4, <2>5, <2>6 DEF RoutingFields
  <2>10. \A has : Reaches(c, has) => Shows([draft |-> IF Turns(later) THEN later.draft ELSE pull.draft,
                                    labels |-> (pull.labels \cup Adds(later)) \ Removes(later)], has)
    BY <2>8 DEF Reaches
  <2>11. Requested(c, pull, later, was)
    BY <2>4, <2>5, <2>6, <2>7, <2>8, <2>9, <2>10 DEF Requested
  <2> QED  BY <1>4, <1>7, <2>3, <2>11
<1>10. ASSUME RemoveLabel(p) PROVE
        /\ UNCHANGED <<scope, given, comments, branch, halfway, parked>>
        /\ \E pull, later : /\ Requested(c, pull, later, pulls[n])
                            /\ w' = [w EXCEPT ![p] = later]
                            /\ \A m \in Pulls : pulls'[m] = IF m = n THEN pull ELSE pulls[m]
  <2>0. PICK label : label = CHOOSE l \in c.remove : \A m \in c.remove : LabelOrder[l] <= LabelOrder[m]
    OBVIOUS
  <2>01. label \in c.remove
    BY <1>10, <2>0, LabelChosen DEF RemoveLabel, At
  <2>1. PICK pull, call : /\ pull = [was EXCEPT !.labels = was.labels \ {label}]
                          /\ call = [c EXCEPT !.remove = c.remove \ {label}]
    OBVIOUS
  <2>2. PICK later : later = Onward(call)
    OBVIOUS
  <2>3. w' = [w EXCEPT ![p] = later] /\ PullChanges(n, pull) /\ UNCHANGED <<scope, given, halfway, parked>>
    BY <1>4, <1>10, <2>0, <2>1, <2>2 DEF RemoveLabel, Sent, Becomes, Pull, history, local
  <2>4. /\ DOMAIN call = DOMAIN c /\ call.remove = c.remove \ {label}
        /\ \A f \in DOMAIN c : f # "remove" => call[f] = c[f]
    BY <1>2, <2>1 DEF RoutingFields
  <2>5. /\ call.n = c.n /\ call.draft = c.draft /\ call.turn = c.turn /\ call.add = c.add /\ call.then = c.then
    BY <1>2, <2>4 DEF RoutingFields
  <2>6. /\ DOMAIN later = DOMAIN call
        /\ \A f \in DOMAIN call : f # "at" => later[f] = call[f]
        /\ later.at \in RoutingSteps \cup {call.then}
        /\ later.at = "remove" => later.remove # {}
        /\ (IF Turns(later) THEN later.draft ELSE pull.draft) = IF call.turn THEN call.draft ELSE pull.draft
        /\ (pull.labels \cup Adds(later)) \ Removes(later) = (pull.labels \cup call.add) \ call.remove
    BY <1>2, <2>2, <2>4, <2>5, OnwardTurns
  <2>7. /\ pull.state = was.state /\ pull.rev = was.rev /\ pull.base = was.base /\ pull.head = was.head
        /\ pull.draft = was.draft /\ pull.labels = was.labels \ {label}
    BY <1>5, <2>1
  <2>8. /\ (IF Turns(later) THEN later.draft ELSE pull.draft) = DraftOf(c)
        /\ (pull.labels \cup Adds(later)) \ Removes(later)
             = ((was.labels \ {label}) \cup c.add) \ (c.remove \ {label})
    BY <1>0, <1>6, <2>4, <2>5, <2>6, <2>7 DEF Turns
  <2>9. /\ later.add = c.add /\ later.remove \subseteq c.remove
        /\ \A f \in DOMAIN c \ {"at", "turn", "add", "remove"} : later[f] = c[f]
    BY <1>2, <2>4, <2>5, <2>6 DEF RoutingFields
  <2>10. ASSUME NEW has \in BOOLEAN, Toward(c, has), Reaches(c, has)
         PROVE  Shows([draft |-> IF Turns(later) THEN later.draft ELSE pull.draft,
                       labels |-> (pull.labels \cup Adds(later)) \ Removes(later)], has)
    BY <1>6, <2>01, <2>8, <2>10 DEF Reaches, Shows, Toward
  <2>11. Requested(c, pull, later, was)
    BY <2>01, <2>4, <2>5, <2>6, <2>7, <2>8, <2>9, <2>10 DEF Requested
  <2> QED  BY <1>4, <1>7, <2>3, <2>11
<1> QED  BY <1>8, <1>9, <1>10 DEF SetRouting

-----------------------------------------------------------------------------
\* The student's requests bring the pull request to where its submission wants it.
LEMMA StudentRoutes ==
  ASSUME IInv, RoutingParts, faults = 0, faults' = 0, SetRouting("student"), NEW n, n = Std.n
  PROVE  RoutingParts'
<1>0. Std.at \in RoutingSteps /\ Std.at # "idle" /\ CallInv("student", Std) /\ "student" \in Workers
  BY DEF SetRouting, SetDraft, AddLabels, RemoveLabel, At, RoutingSteps, IInv, Workers, Std
<1>1. Std.op = "submit" /\ Std.then \in {"submitAfter", "recheck", "settle"}
      /\ Fields(Std, RoutingFields)
  BY <1>0, StepOps DEF CallInv, ShapeOf, RoutingShape, RoutingFields, StepsOf, UpsertSteps, RoutingSteps,
     ReconcileSteps
<1>2. /\ Types /\ n \in Pulls /\ Fields(Std, {"at", "op", "n", "rev", "head", "text", "mark"})
      /\ Std.rev \in Nat /\ pulls[n].rev \in Nat /\ Std.rev <= pulls[n].rev
      /\ Known(Std) /\ Owes(Std, n) /\ pulls[n].state # "none" /\ Heads(Std) /\ Plans(Adv)
  BY <1>0, <1>1, SubmitFacts DEF RoutingParts, RoutingSteps
<1>3. /\ n \in given
      /\ \A d \in comments[n] : d.mark.kind = "result" => d.mark.rev <= Std.rev
      /\ branch[n] = Std.head /\ pulls[n].head = Std.head
      /\ Reviewing(Std) => Has(n, Std.rev, Std.head)
      /\ Std.draft \in BOOLEAN /\ Toward(Std, Std.then = "submitAfter")
      /\ Restoring(Std) => Restored(Std)
  BY <1>0, <1>1, <1>2 DEF Known, RoutingSteps
<1>4. /\ Std.then = "submitAfter" => Reviewing(Std) /\ ~ Restoring(Std)
      /\ Std.then # "submitAfter" => Restoring(Std) /\ Restored(Std)
  BY <1>0, <1>1, <1>3 DEF Reviewing, Restoring, RoutingSteps, ReconcileSteps
<1>5. CASE ~ IsOpened(n) /\ Raises("student") /\ UNCHANGED <<gitHub, local>>
  BY <1>1, <1>2, <1>3, <1>5, SubmitRaises
<1>6. CASE /\ UNCHANGED <<scope, given, comments, branch, halfway, parked>>
           /\ \E pull, later : /\ Requested(Std, pull, later, pulls[n])
                               /\ w' = [w EXCEPT !["student"] = later]
                               /\ \A m \in Pulls : pulls'[m] = IF m = n THEN pull ELSE pulls[m]
  <2>1. PICK pull, s : /\ Requested(Std, pull, s, pulls[n])
                       /\ w' = [w EXCEPT !["student"] = s]
                       /\ \A m \in Pulls : pulls'[m] = IF m = n THEN pull ELSE pulls[m]
    BY <1>6
  <2>2. w'["student"] = s /\ w'["advisor"] = w["advisor"]
    BY <1>2, <2>1 DEF Types, Workers
  <2>3. /\ Pulls' = Pulls /\ UNCHANGED <<scope, given, comments, branch, halfway, parked>>
        /\ pulls'[n] = pull /\ \A m \in Pulls : m # n => pulls'[m] = pulls[m]
    BY <1>2, <1>6, <2>1 DEF Pulls
  <2>4. /\ pull.state = pulls[n].state /\ pull.rev = pulls[n].rev
        /\ pull.base = pulls[n].base /\ pull.head = pulls[n].head
        /\ pull.draft \in {pulls[n].draft, Std.draft}
        /\ pulls[n].labels \ Std.remove \subseteq pull.labels
        /\ pull.labels \subseteq pulls[n].labels \cup Std.add
    BY <2>1 DEF Requested
  <2>5. /\ s.n = n /\ s.op = "submit" /\ s.rev = Std.rev /\ s.head = Std.head /\ s.mark = Std.mark
        /\ s.text = Std.text /\ s.draft = Std.draft /\ s.then = Std.then
        /\ Fields(Std, {"seen"}) => Fields(s, {"seen"}) /\ s.seen = Std.seen
        /\ Fields(Std, {"has"}) => Fields(s, {"has"}) /\ s.has = Std.has
    BY <1>1, <1>2, <2>1 DEF Requested, Fields, RoutingFields
  <2>6. /\ s.at \in RoutingSteps \cup {Std.then}
        /\ s.add \subseteq Std.add /\ s.remove \subseteq Std.remove
        /\ s.at = "remove" => s.remove # {}
    BY <2>1 DEF Requested
  <2>7. \A has \in BOOLEAN :
          Toward(Std, has) =>
            /\ Reaches(Std, has) => Reaches(s, has)'
            /\ DraftOf(Std) = ~ has => DraftOf(s)' = ~ has
    <3>1. PICK v : v = [draft |-> DraftOf(s)', labels |-> LabelsOf(s)']
      OBVIOUS
    <3>2. /\ DraftOf(s)' = IF Turns(s) THEN s.draft ELSE pull.draft
          /\ LabelsOf(s)' = (pull.labels \cup Adds(s)) \ Removes(s)
      BY <2>3, <2>5 DEF DraftOf, LabelsOf, Turns, Adds, Removes
    <3>3. \A has \in BOOLEAN :
            Toward(Std, has) =>
              /\ Reaches(Std, has) =>
                   Shows([draft |-> IF Turns(s) THEN s.draft ELSE pull.draft,
                          labels |-> (pull.labels \cup Adds(s)) \ Removes(s)], has)
              /\ DraftOf(Std) = ~ has => (IF Turns(s) THEN s.draft ELSE pull.draft) = ~ has
      BY <2>1 DEF Requested
    <3>4. \A has : Reaches(s, has)' <=> Shows([draft |-> IF Turns(s) THEN s.draft ELSE pull.draft,
                          labels |-> (pull.labels \cup Adds(s)) \ Removes(s)], has)
      BY <3>2 DEF Reaches, Shows
    <3> QED  BY <3>2, <3>3, <3>4
  <2>8. Heads(s)'
    <3>1. pull.draft \in BOOLEAN
      BY <1>2, <1>3, <2>4 DEF Heads
    <3>2. \A m \in Pulls : pulls[m].state # "none" => pulls[m].head = branch[m]
      BY <1>0, <1>2 DEF Heads, RoutingSteps
    <3> QED  BY <1>2, <2>3, <2>4, <3>1, <3>2 DEF Heads
  <2>9. Restoring(s) => Restored(s)'
    <3> SUFFICES ASSUME Restoring(s) PROVE Restored(s)'
      OBVIOUS
    <3>1. Restored(Std) /\ Std.then # "submitAfter" /\ s.at \notin {"reconcile", "reconcileResult", "recheckResult", "settleResult"}
      BY <1>1, <1>4, <2>5, <2>6 DEF Restoring, RoutingSteps, ReconcileSteps
    <3>2. (Drafted(s) => Drafted(Std)) /\ (Labelled(s) => Labelled(Std))
      BY <1>0, <1>1, <2>5, <2>6 DEF Drafted, Labelled, RoutingSteps
    <3>3. Toward(Std, FALSE) /\ Std.at # "reconcile"
      BY <1>0, <1>3, <3>1 DEF RoutingSteps
    <3>4. Stale(s)'
      BY <2>3, <2>4, <2>5, <3>1 DEF Restored, Stale
    <3>5. /\ Fields(s, {"seen"}) /\ s.seen.rev \in Nat
          /\ s.rev < s.seen.rev /\ s.seen.rev <= pulls'[n].rev
          /\ s.seen.head = s.head /\ s.seen.draft \in BOOLEAN
          /\ s.seen.rev = pulls'[n].rev => s.seen.base = pulls'[n].base
      BY <2>3, <2>4, <2>5, <3>1, <3>3 DEF Restored
    <3>6. Drafted(s) \/ Labelled(s) => Fields(s, {"has"}) /\ s.has = FALSE
      BY <2>5, <3>1, <3>2 DEF Restored
    <3>7. IsOpened(n)' => IsOpened(n)
      BY <2>3, <2>4 DEF IsOpened
    <3>8. IsOpened(n)' /\ Drafted(s) => DraftOf(s)' = TRUE
      <4> SUFFICES ASSUME IsOpened(n)', Drafted(s) PROVE DraftOf(s)' = TRUE
        OBVIOUS
      <4>1. DraftOf(Std) = TRUE
        BY <3>1, <3>2, <3>7 DEF Restored
      <4> QED  BY <2>7, <3>3, <4>1
    <3>9. IsOpened(n)' /\ Labelled(s) => Reaches(s, FALSE)'
      BY <2>7, <3>1, <3>2, <3>3, <3>7 DEF Restored
    <3> QED  BY <2>5, <3>1, <3>4, <3>5, <3>6, <3>8, <3>9 DEF Restored, Drafted, Labelled
  <2>10. \A m, rev, head : Has(m, rev, head)' <=> Has(m, rev, head)
    BY <2>3 DEF Has, Results
  <2>11. Known(s)'
    <3>1. s.at \notin {"push", "submitBefore", "verifyPost", "idle"}
      BY <1>1, <2>6 DEF RoutingSteps
    <3>2. Reviewing(s) => Has(n, s.rev, s.head)'
      <4>1. Reviewing(s) => Reviewing(Std)
        BY <1>1, <1>4, <2>5, <2>6 DEF Reviewing, RoutingSteps
      <4> QED  BY <1>3, <2>5, <2>10, <4>1
    <3>3. s.at \in RoutingSteps => s.draft \in BOOLEAN /\ Toward(s, s.then = "submitAfter")
      BY <1>3, <2>5, <2>6 DEF Toward
    <3> QED  BY <1>3, <2>3, <2>4, <2>5, <2>9, <3>1, <3>2, <3>3 DEF Known, Toward
  <2>12. ASSUME NEW a, Plans(a), a = Adv PROVE Plans(a)'
    <3>1. /\ a.at # "idle" => a.n \in Pulls \/ a.op \notin Routing
          /\ a.at \in RoutingSteps \cup {"routed"} => a.op \in Routing
      BY <2>12, AdvisorFacts
    <3>2. a.n \in Pulls => /\ pulls'[a.n].rev = pulls[a.n].rev /\ pulls'[a.n].base = pulls[a.n].base
                           /\ pulls'[a.n].state = pulls[a.n].state
                           /\ pulls'[a.n].head \in Nat /\ pulls[a.n].head <= pulls'[a.n].head
                           /\ pulls[a.n].state = "none" => branch'[a.n] = branch[a.n]
      BY <1>2, <2>3, <2>4 DEF Heads
    <3> QED  BY <1>2, <2>10, <2>12, <3>1, <3>2, PlansStay
  <2>13. ASSUME NEW a, Plans(a), a = Adv, Matched(a)' PROVE Between(s, a)'
    <3>1. a.at = "settleResult" /\ a.op = "revise" /\ IsOpened(a.n)' /\ HasResult(a.n, a.seen)' = a.has
          /\ Shows(a.seen, a.has)
      BY <2>13 DEF Matched, Shows
    <3>2. a.n \in Pulls
      BY <2>13, <3>1, AdvisorFacts DEF ShapeOf
    <3>3. IsOpened(a.n)
      BY <2>3, <2>4, <3>1, <3>2 DEF IsOpened
    <3>4. HasResult(a.n, a.seen) = a.has
      BY <2>3, <3>1 DEF HasResult, Results
    <3>5. Matched(a) /\ Between(Std, a)
      BY <2>13, <3>1, <3>3, <3>4 DEF Matched, RoutingParts
    <3>6. CASE a.n # n
      <4>1. ~ Owes(s, a.n) /\ ~ Owes(Std, a.n)
        BY <2>5, <3>6 DEF Owes
      <4>2. Fits(a.n)
        BY <3>5, <4>1 DEF Between
      <4>3. Fits(a.n)'
        BY <2>3, <3>2, <3>6, <4>2 DEF Fits, HasResult, Results, Shows
      <4> QED  BY <4>1, <4>3 DEF Between, Owes
    <3>7. CASE a.n = n
      <4>1. /\ Stale(s)' = Stale(Std)
            /\ s.at \notin Early /\ Std.at \notin Early
        BY <1>0, <1>1, <2>3, <2>4, <2>5, <2>6 DEF Stale, Early, RoutingSteps
      <4>2. Stale(s)' /\ Overtaken(s)' => Shows(pulls[n], FALSE)'
        <5> SUFFICES ASSUME Stale(s)', Overtaken(s)' PROVE Shows(pulls[n], FALSE)'
          OBVIOUS
        <5>1. Restoring(Std) /\ Std.then # "submitAfter"
          BY <1>1, <1>4, <2>5, <2>6 DEF Overtaken, Restoring, RoutingSteps, ReconcileSteps
        <5>2. Std.at # "reconcile" /\ Fields(Std, {"seen"})
          BY <1>0, <1>4, <5>1 DEF Restored, RoutingSteps
        <5>3. Overtaken(Std)
          BY <2>3, <2>4, <2>5, <5>1, <5>2 DEF Overtaken
        <5>4. Shows(pulls[n], FALSE)
          BY <1>2, <3>5, <3>7, <4>1, <5>3 DEF Between
        <5>5. Toward(Std, FALSE)
          BY <1>3, <5>1
        <5> QED  BY <2>3, <2>4, <5>4, <5>5 DEF Shows, Toward
      <4>3. ASSUME ~ Stale(Std)
            PROVE  /\ Toward(Std, TRUE)
                   /\ pulls'[n].head = a.head => Shows(pulls[n], a.has)'
                   /\ pulls'[n].head # a.head => Reaches(s, TRUE)'
        <5>1. Std.then = "submitAfter" /\ Has(n, Std.rev, Std.head)
          BY <1>3, <1>4, <4>3 DEF Restored
        <5>2. Toward(Std, TRUE)
          BY <1>3, <5>1
        <5>3. pulls'[n].head = a.head => Shows(pulls[n], a.has)'
          <6> SUFFICES ASSUME pulls'[n].head = a.head PROVE Shows(pulls[n], a.has)'
            OBVIOUS
          <6>1. Shows(pulls[n], a.has)
            BY <1>2, <2>3, <2>4, <3>5, <3>7, <4>3 DEF Between
          <6>2. a.seen.rev = pulls[n].rev /\ a.seen.head = a.head
            BY <2>13, <3>1, <3>7 DEF Plans, ReconcileSteps
          <6>3. Std.rev = pulls[n].rev /\ Std.head = a.head
            BY <1>2, <1>3, <2>3, <2>4, <4>3 DEF Stale
          <6>4. a.has = TRUE
            BY <3>4, <3>7, <5>1, <6>2, <6>3 DEF Has, HasResult
          <6>5. Shows(pulls[n], TRUE)
            BY <6>1, <6>4
          <6> QED  BY <2>3, <2>4, <5>2, <6>4, <6>5 DEF Shows, Toward
        <5>4. pulls'[n].head # a.head => Reaches(s, TRUE)'
          <6> SUFFICES ASSUME pulls'[n].head # a.head PROVE Reaches(s, TRUE)'
            OBVIOUS
          <6>1. Reaches(Std, TRUE)
            BY <1>0, <1>2, <2>3, <2>4, <3>5, <3>7, <4>3 DEF Between
          <6> QED  BY <2>7, <5>2, <6>1
        <5> QED  BY <5>2, <5>3, <5>4
      <4>4. s.at \notin {"submitBefore", "find"}
        BY <1>1, <2>6 DEF RoutingSteps
      <4>5. Stale(s)' /\ (s.at \in Early \/ Overtaken(s)') => Shows(pulls[n], FALSE)'
        BY <4>1, <4>2
      <4>6. Owes(s, n) /\ (Owes(s, n)' <=> Owes(s, n))
        BY <1>1, <2>5, <2>6 DEF Owes, Unwritten, Routing, RoutingSteps
      <4>7. ~ Stale(s)' => /\ pulls'[n].head = a.head => Shows(pulls[n], a.has)'
                           /\ pulls'[n].head # a.head => Reaches(s, TRUE)'
        BY <4>1, <4>3
      <4>8. PICK m : m = a.n /\ m = n
        BY <3>7
      <4> HIDE DEF Owes
      <4> QED  BY <4>4, <4>5, <4>6, <4>7, <4>8 DEF Between
    <3> QED  BY <3>6, <3>7
  <2>14. ASSUME NEW a, NEW out, Plans(a), a = Adv, out = (halfway \cup parked)' PROVE Rested(s, a, out)'
    <3>1. out = halfway \cup parked
      BY <2>3, <2>14
    <3>2. \A m \in Pulls \ out : IsOpened(m) /\ ~ Owes(Std, m) /\ ~ Owes(a, m) => Fits(m)
      BY <2>14, <3>1 DEF RoutingParts, Rested
    <3>3. ASSUME NEW m \in Pulls \ out, IsOpened(m)', ~ Owes(s, m), ~ Owes(a, m) PROVE Fits(m)'
      <4>1. m # n
        BY <1>1, <2>5, <2>6, <3>3 DEF Owes, Unwritten, Routing, RoutingSteps
      <4>2. IsOpened(m) /\ Fits(m)
        BY <1>2, <2>3, <3>2, <3>3, <4>1 DEF IsOpened, Owes
      <4> QED  BY <2>3, <4>1, <4>2 DEF Fits, HasResult, Results, Shows
    <3> QED  BY <2>3, <3>3 DEF Rested, Owes
  <2> QED  BY <2>2, <2>3, <2>8, <2>11, <2>12, <2>13, <2>14, StudentWrites
<1>7. Std.remove \subseteq DOMAIN LabelOrder /\ (Std.at = "remove" => Std.remove # {})
      /\ pulls[n].draft \in BOOLEAN
  BY <1>2, <1>3 DEF Toward, Heads
<1>8. PICK c : c = Std /\ c = w["student"]
  BY DEF Std
<1>9. \/ ~ IsOpened(n) /\ Raises("student") /\ UNCHANGED <<gitHub, local>>
      \/ /\ UNCHANGED <<scope, given, comments, branch, halfway, parked>>
         /\ \E pull, later : /\ Requested(c, pull, later, pulls[n])
                             /\ w' = [w EXCEPT !["student"] = later]
                             /\ \A m \in Pulls : pulls'[m] = IF m = n THEN pull ELSE pulls[m]
  BY <1>0, <1>3, <1>7, <1>8, RequestGoes
<1> QED  BY <1>5, <1>6, <1>8, <1>9

-----------------------------------------------------------------------------
\* All steps of the student.
LEMMA StudentSteps ==
  ASSUME IInv, ScopesAssumption, RoutingParts, faults = 0, faults' = 0, Student
  PROVE  RoutingParts'
<1>0. "student" \in Workers /\ CallInv("student", Std)
  BY DEF IInv, Workers, Std
<1>1. CASE Upsert("student")
  BY <1>1, StudentUpserts
<1>2. CASE Submit("student")
  <2>1. PICK n : n = Std.n
    OBVIOUS
  <2>2. CASE PushBranch("student")
    BY <2>1, <2>2, PushRoutes
  <2>3. CASE SubmitBefore("student")
    BY <2>3, SubmitBeforeRoutes
  <2>4. CASE SubmitCurrent("student")
    BY <2>4, SubmitCurrentRoutes
  <2>5. CASE SubmitAfter("student")
    BY <2>5, SubmitAfterRoutes
  <2> QED  BY <1>2, <2>2, <2>3, <2>4, <2>5 DEF Submit
<1>3. CASE SetRouting("student")
  <2>1. PICK n : n = Std.n
    OBVIOUS
  <2> QED  BY <1>3, <2>1, StudentRoutes
<1>4. CASE ReconcileRouting("student")
  <2>1. Std.at \in ReconcileSteps /\ Std.at # "idle"
    BY <1>4 DEF ReconcileRouting, Reconcile, ReconcileResult, Recheck, RecheckResult, Settle, SettleResult,
       At, Std, ReconcileSteps
  <2>2. Std.op = "submit"
    BY <1>0, <2>1, StepOps DEF CallInv, ShapeOf
  <2> QED  BY <1>4, <2>2, SubmitRestores
<1> QED  BY <1>1, <1>2, <1>3, <1>4 DEF Student

-----------------------------------------------------------------------------
(* The reads of the advisor.                                               *)

\* A call of the advisor goes on and owes at least what it owed.
LEMMA AdvisorGoesOn ==
  ASSUME Types, RoutingParts, UNCHANGED <<gitHub, local, history>>, NEW a,
         w' = [w EXCEPT !["advisor"] = a], Plans(a),
         \A m \in Pulls : Owes(Adv, m) => Owes(a, m),
         Matched(a) => Between(Std, a)
  PROVE  RoutingParts'
<1>1. Between(Std, a)
  BY DEF Between
<1>2. Rested(Std, a, halfway' \cup parked')
  BY DEF RoutingParts, Rested, history
<1> QED  BY <1>1, <1>2, AdvisorReads

\* A call of the advisor ends, and its pull request fits or counts as left.
LEMMA AdvisorStops ==
  ASSUME Types, RoutingParts, UNCHANGED <<gitHub, local>>, w' = [w EXCEPT !["advisor"] = Idle],
         NEW n, n = Adv.n, (halfway \cup parked) \ {n} \subseteq halfway' \cup parked',
         n \in Pulls /\ IsOpened(n) /\ ~ Owes(Std, n) =>
           \/ n \in halfway' \cup parked' \/ Fits(n)
           \/ n \notin halfway \cup parked /\ ~ Owes(Adv, n)
  PROVE  RoutingParts'
<1>1. Plans(Idle) /\ ~ Matched(Idle) /\ \A m : ~ Owes(Idle, m)
  BY DEF Plans, Matched, Owes, Idle, RoutingSteps, Unwritten
<1>2. Between(Std, Idle)
  BY <1>1 DEF Between
<1>3. \A m : m # n => ~ Owes(Adv, m)
  BY DEF Owes
<1>4. Rested(Std, Idle, halfway' \cup parked')
  <2>1. ASSUME NEW m \in Pulls \ (halfway' \cup parked'), IsOpened(m), ~ Owes(Std, m) PROVE Fits(m)
    <3>1. \A k \in Pulls \ (halfway \cup parked) : IsOpened(k) /\ ~ Owes(Std, k) /\ ~ Owes(Adv, k) => Fits(k)
      BY DEF RoutingParts, Rested
    <3>2. CASE m = n
      BY <2>1, <3>1, <3>2
    <3>3. CASE m # n
      BY <1>3, <2>1, <3>1, <3>3
    <3> QED  BY <3>2, <3>3
  <2> QED  BY <2>1 DEF Rested
<1> QED  BY <1>1, <1>2, <1>4, AdvisorReads

\* A call of the advisor ends in an error.
LEMMA AdvisorRaises ==
  ASSUME Types, RoutingParts, UNCHANGED <<gitHub, local>>, Raises("advisor")
  PROVE  RoutingParts'
<1>1. PICK n : n = Adv.n
  OBVIOUS
<1>2. w' = [w EXCEPT !["advisor"] = Idle] /\ halfway \subseteq halfway' /\ parked' = parked
      /\ (Adv.op \in Routing => n \in halfway')
  BY <1>1 DEF Raises, Becomes, Adv
<1>3. n \in halfway' \cup parked' \/ (n \notin halfway \cup parked /\ ~ Owes(Adv, n))
  BY <1>1, <1>2 DEF Owes
<1> QED  BY <1>1, <1>2, <1>3, AdvisorStops

\* A call of the advisor ends before it wrote anything.
LEMMA AdvisorRefuses ==
  ASSUME Types, RoutingParts, UNCHANGED <<gitHub, local>>, Refuses("advisor"), ~ Owes(Adv, Adv.n)
  PROVE  RoutingParts'
<1>1. PICK n : n = Adv.n
  OBVIOUS
<1>2. w' = [w EXCEPT !["advisor"] = Idle] /\ halfway' = halfway /\ parked' = parked
  BY DEF Refuses, Becomes, history
<1>3. n \in halfway' \cup parked' \/ (n \notin halfway \cup parked /\ ~ Owes(Adv, n))
  BY <1>1, <1>2
<1> QED  BY <1>1, <1>2, <1>3, AdvisorStops

\* A call of the advisor returns.
LEMMA AdvisorReturns ==
  ASSUME Types, RoutingParts, UNCHANGED <<gitHub, local>>, Returns("advisor"),
         Adv.op \in Routing /\ Adv.n \in Pulls /\ IsOpened(Adv.n) /\ ~ Owes(Std, Adv.n) =>
           Adv.n \in parked' \/ Fits(Adv.n)
  PROVE  RoutingParts'
<1>1. PICK n : n = Adv.n
  OBVIOUS
<1>2. /\ w' = [w EXCEPT !["advisor"] = Idle]
      /\ halfway \ {n} \subseteq halfway' /\ parked \ {n} \subseteq parked'
      /\ Adv.op \notin Routing => halfway' = halfway /\ parked' = parked
  BY <1>1 DEF Returns, Becomes, Adv, Routing
<1>3. n \in Pulls /\ IsOpened(n) /\ ~ Owes(Std, n) =>
        \/ n \in halfway' \cup parked' \/ Fits(n)
        \/ n \notin halfway \cup parked /\ ~ Owes(Adv, n)
  BY <1>1, <1>2 DEF Owes
<1> QED  BY <1>1, <1>2, <1>3, AdvisorStops

\* An operation that has nothing to do with routing.
LEMMA AdvisorTells ==
  ASSUME Types, RoutingParts, UNCHANGED <<gitHub, local, history>>, NEW a,
         w' = [w EXCEPT !["advisor"] = a], Adv.at = "idle" \/ Adv.op \notin Routing,
         a.op \notin Routing, a.at \notin RoutingSteps \cup {"routed", "repairResult"}
  PROVE  RoutingParts'
<1>1. Plans(a) /\ ~ Matched(a)
  BY DEF Plans, Matched, Routing
<1>2. \A m : ~ Owes(Adv, m)
  BY DEF Owes, Unwritten
<1> QED  BY <1>1, <1>2, AdvisorGoesOn

\* An operation that goes on with its next step.
LEMMA AdvisorSteps ==
  ASSUME IInv, RoutingParts, UNCHANGED <<gitHub, local, history>>, Adv.at # "idle",
         NEW step, To("advisor", step),
         step \notin RoutingSteps \cup (ReconcileSteps \ {"reconcile"})
                     \cup {"routed", "repairResult", "createConflicts"},
         step = "createPull" => Adv.at = "createConflicts",
         step \in Unwritten => Adv.at \in Unwritten
  PROVE  RoutingParts'
<1>1. Types /\ Fields(Adv, {"at", "op", "n"}) /\ ShapeOf("advisor", Adv) /\ Plans(Adv)
  BY AdvisorFacts DEF ShapeOf, Fields, CallInv, RoutingParts
<1>2. PICK a : a = [Adv EXCEPT !.at = step]
  OBVIOUS
<1>3. /\ w' = [w EXCEPT !["advisor"] = a] /\ a.at = step /\ DOMAIN a = DOMAIN Adv
      /\ \A f \in DOMAIN Adv : f # "at" => a[f] = Adv[f]
  BY <1>1, <1>2 DEF To, Types, Adv, Fields
<1>4. a.op = Adv.op /\ a.n = Adv.n
  BY <1>1, <1>3 DEF Fields
<1>5. \A m \in Pulls : Owes(Adv, m) => Owes(a, m)
  BY <1>3, <1>4 DEF Owes
<1>6. ~ Matched(a)
  BY <1>3 DEF Matched, ReconcileSteps
<1>7. Plans(a)
  <2>1. Adv.op \notin {"message", "answer"} => a.rev = Adv.rev /\ a.head = Adv.head
    BY <1>1, <1>3 DEF ShapeOf, Fields
  <2>2. /\ a.op = "repair" => a.rev = pulls[a.n].rev
        /\ a.op = "create" => a.head = 1
        /\ a.op = "revise" => a.head \in Nat /\ a.head <= pulls[a.n].head
    BY <1>1, <1>4, <2>1 DEF Plans
  <2>3. a.op = "create" /\ a.at \in {"createConflicts", "createPull"} /\ pulls[a.n].state = "none" =>
          branch[a.n] = 1
    BY <1>1, <1>3, <1>4 DEF Plans
  <2> QED  BY <1>3, <2>2, <2>3 DEF Plans, RoutingSteps, ReconcileSteps
<1> QED  BY <1>1, <1>3, <1>5, <1>6, <1>7, AdvisorGoesOn

-----------------------------------------------------------------------------
\* Comments of the advisor: what follows them is no settled routing yet.
LEMMA AdvisorFinds ==
  ASSUME IInv, RoutingParts, FindComment("advisor") \/ VerifyPost("advisor") \/ StillCurrent("advisor")
  PROVE  RoutingParts'
<1>1. /\ Adv.at \in UpsertSteps \cup {"stillCurrent"} /\ Adv.at # "idle" /\ Adv.at \notin Unwritten
      /\ UNCHANGED <<gitHub, local>>
  BY DEF FindComment, VerifyPost, StillCurrent, At, Adv, UpsertSteps, Unwritten
<1>2. Types /\ ShapeOf("advisor", Adv) /\ "advisor" # "student"
  BY <1>1, AdvisorFacts
<1>3. Adv.op # "submit" /\ Adv.at \in UpsertSteps
  BY <1>1, <1>2, StepOps DEF ShapeOf
<1>4. Adv.op \in {"revise", "accept", "close", "message", "answer"}
  BY <1>2, <1>3, StepOps DEF ShapeOf
<1>5. ASSUME NEW step \in {"post", "edit", "reconcile"}, To("advisor", step), UNCHANGED history
      PROVE  RoutingParts'
  BY <1>1, <1>5, AdvisorSteps DEF RoutingSteps, ReconcileSteps, Unwritten
<1>6. ASSUME Upserted("advisor") PROVE RoutingParts'
  <2>1. CASE Adv.op = "revise"
    BY <1>5, <1>6, <2>1 DEF Upserted, Adv
  <2>2. CASE Adv.op # "revise"
    <3>1. Returns("advisor") /\ Adv.op \notin Routing
      BY <1>4, <1>6, <2>2 DEF Upserted, Adv, Routing
    <3> QED  BY <1>1, <1>2, <3>1, AdvisorReturns
  <2> QED  BY <2>1, <2>2
<1>7. ASSUME Raises("advisor") PROVE RoutingParts'
  BY <1>1, <1>2, <1>7, AdvisorRaises
<1>8. Adv.at # "stillCurrent"
  BY <1>3 DEF UpsertSteps
<1>9. CASE FindComment("advisor")
  BY <1>3, <1>5, <1>6, <1>7, <1>9 DEF FindComment, Adv
<1>10. CASE VerifyPost("advisor")
  BY <1>6, <1>7, <1>10 DEF VerifyPost
<1> QED  BY <1>8, <1>9, <1>10 DEF StillCurrent, At, Adv

\* The reads of a revision request, up to its comment.
LEMMA ReviseRoutes ==
  ASSUME IInv, RoutingParts,
         RequiredBase("advisor") \/ AppliedResult("advisor")
           \/ ReviseConflicts("advisor") \/ RevisionPatched("advisor")
  PROVE  RoutingParts'
<1>1. Adv.at \in {"requiredBase", "appliedResult", "reviseConflicts", "patched"} /\ Adv.at # "idle"
      /\ UNCHANGED <<gitHub, local>>
  BY DEF RequiredBase, AppliedResult, ReviseConflicts, RevisionPatched, At, Adv
<1>2. Types
  BY AdvisorFacts
<1>3. ASSUME NEW step \in {"reviseConflicts", "find", "patch", "patched"}, To("advisor", step), UNCHANGED history,
             step \in {"find", "patched"} \/ Adv.at # "patched"
      PROVE  RoutingParts'
  BY <1>1, <1>3, AdvisorSteps DEF RoutingSteps, ReconcileSteps, Unwritten
<1>4. ASSUME Refuses("advisor"), Adv.at # "patched" PROVE RoutingParts'
  BY <1>1, <1>2, <1>4, AdvisorRefuses DEF Owes, Unwritten
<1>5. ASSUME Raises("advisor") PROVE RoutingParts'
  BY <1>1, <1>2, <1>5, AdvisorRaises
<1>6. CASE RequiredBase("advisor")
  BY <1>3, <1>4, <1>6 DEF RequiredBase, At, Adv
<1>7. CASE AppliedResult("advisor")
  <2>1. Adv.at = "appliedResult" /\ (To("advisor", "find") \/ To("advisor", "reviseConflicts")) /\ UNCHANGED history
    BY <1>7 DEF AppliedResult, At, Adv
  <2> QED  BY <1>3, <2>1
<1>8. CASE ReviseConflicts("advisor")
  <2>1. /\ Adv.at = "reviseConflicts"
        /\ Refuses("advisor") \/ ((To("advisor", "patch") \/ To("advisor", "patched")) /\ UNCHANGED history)
    BY <1>8 DEF ReviseConflicts, At, Adv
  <2> QED  BY <1>3, <1>4, <2>1
<1>9. CASE RevisionPatched("advisor")
  BY <1>3, <1>5, <1>9 DEF RevisionPatched
<1> QED  BY <1>6, <1>7, <1>8, <1>9

\* The reads of decisions, which set no routing.
LEMMA DecisionRoutes ==
  ASSUME IInv, RoutingParts,
         \/ Accept("advisor") \/ Closed("advisor")
         \/ MergeResult("advisor") \/ MergeBase("advisor") \/ MergeAcceptance("advisor")
         \/ MergeBaseAgain("advisor") \/ MergeResultAgain("advisor")
  PROVE  RoutingParts'
<1>1. Adv.at \in {"acceptResult", "acceptBase", "closed"} \cup MergeSteps /\ Adv.at # "idle"
      /\ UNCHANGED <<gitHub, local>>
  BY DEF Accept, AcceptedResult, AcceptedBase, Closed, MergeResult, MergeBase, MergeAcceptance,
     MergeBaseAgain, MergeResultAgain, At, Adv, MergeSteps
<1>2. Types /\ ShapeOf("advisor", Adv) /\ Fields(Adv, {"at", "op"})
  BY <1>1, AdvisorFacts DEF CallInv, ShapeOf, Fields
<1>3. Adv.op \in {"accept", "close", "merge"} /\ Adv.op \notin Routing
  BY <1>1, <1>2, StepOps DEF ShapeOf, Routing
<1>4. ASSUME NEW step \in {"find", "mergeBaseAgain", "mergeAcceptance", "mergeResultAgain", "put"},
             To("advisor", step), UNCHANGED history
      PROVE  RoutingParts'
  BY <1>1, <1>4, AdvisorSteps DEF RoutingSteps, ReconcileSteps, Unwritten
<1>5. ASSUME Refuses("advisor") PROVE RoutingParts'
  BY <1>1, <1>2, <1>3, <1>5, AdvisorRefuses DEF Owes
<1>6. ASSUME Raises("advisor") PROVE RoutingParts'
  BY <1>1, <1>2, <1>6, AdvisorRaises
<1>7. ASSUME NEW fields, fields.at \in {"acceptBase", "mergeBase"}, {"at"} \subseteq DOMAIN fields,
             "op" \notin DOMAIN fields, Becomes("advisor", With(Adv, fields)), UNCHANGED history
      PROVE  RoutingParts'
  <2>1. PICK a : a = With(Adv, fields)
    OBVIOUS
  <2>5. /\ \A f \in DOMAIN fields : a[f] = fields[f]
        /\ \A f \in DOMAIN Adv \ DOMAIN fields : a[f] = Adv[f]
    BY <2>1 DEF With
  <2>2. a.op = Adv.op /\ a.at = fields.at
    BY <1>2, <1>7, <2>5 DEF Fields
  <2>3. w' = [w EXCEPT !["advisor"] = a]
    BY <1>7, <2>1 DEF Becomes
  <2>4. a.at \notin RoutingSteps \cup {"routed", "repairResult"}
    BY <1>7, <2>2 DEF RoutingSteps
  <2> QED  BY <1>1, <1>2, <1>3, <1>7, <2>2, <2>3, <2>4, AdvisorTells
<1>8. CASE AcceptedResult("advisor")
  <2>1. CASE Refuses("advisor")
    BY <1>5, <2>1
  <2>2. CASE ~ Refuses("advisor")
    <3>1. PICK text : Becomes("advisor", With(Adv, [at |-> "acceptBase", text |-> 0,
                                                     mark |-> AcceptanceMark(Adv, text)]))
      BY <1>8, <2>2 DEF AcceptedResult, Adv
    <3>2. UNCHANGED history
      BY <1>8, <2>2 DEF AcceptedResult
    <3>3. PICK fields : fields = [at |-> "acceptBase", text |-> 0, mark |-> AcceptanceMark(Adv, text)]
      OBVIOUS
    <3>4. fields.at = "acceptBase" /\ {"at"} \subseteq DOMAIN fields /\ "op" \notin DOMAIN fields
      BY <3>3
    <3> QED  BY <1>7, <3>1, <3>2, <3>3, <3>4
  <2> QED  BY <2>1, <2>2
<1>9. CASE MergeResult("advisor")
  <2>1. CASE Refuses("advisor")
    BY <1>5, <2>1
  <2>2. CASE ~ Refuses("advisor")
    <3>1. PICK text : Becomes("advisor", With(Adv, [at |-> "mergeBase", text |-> text]))
      BY <1>9, <2>2 DEF MergeResult, Adv
    <3>2. UNCHANGED history
      BY <1>9, <2>2 DEF MergeResult
    <3>3. PICK fields : fields = [at |-> "mergeBase", text |-> text]
      OBVIOUS
    <3>4. fields.at = "mergeBase" /\ {"at"} \subseteq DOMAIN fields /\ "op" \notin DOMAIN fields
      BY <3>3
    <3> QED  BY <1>7, <3>1, <3>2, <3>3, <3>4
  <2> QED  BY <2>1, <2>2
<1>10. CASE AcceptedBase("advisor") \/ MergeBase("advisor") \/ MergeBaseAgain("advisor")
  <2>1. PICK step \in {"find", "mergeBaseAgain", "mergeAcceptance", "mergeResultAgain"} : NextAtBase("advisor", step)
    BY <1>10 DEF AcceptedBase, MergeBase, MergeBaseAgain
  <2> QED  BY <1>4, <1>5, <2>1 DEF NextAtBase
<1>11. CASE Closed("advisor") \/ MergeAcceptance("advisor") \/ MergeResultAgain("advisor")
  BY <1>4, <1>5, <1>6, <1>11 DEF Closed, MergeAcceptance, MergeResultAgain
<1> QED  BY <1>8, <1>9, <1>10, <1>11 DEF Accept

\* The read of a creation that looks for other assignments.
LEMMA CreateConflictsRoutes ==
  ASSUME IInv, RoutingParts, CreateConflicts("advisor")
  PROVE  RoutingParts'
<1>1. Adv.at = "createConflicts" /\ Adv.at # "idle" /\ UNCHANGED <<gitHub, local>>
  BY DEF CreateConflicts, At, Adv
<1>2. Types
  BY AdvisorFacts
<1>3. \/ Refuses("advisor")
      \/ (To("advisor", "createPull") \/ To("advisor", "created")) /\ UNCHANGED history
  BY DEF CreateConflicts
<1>4. ASSUME NEW step \in {"createPull", "created"}, To("advisor", step), UNCHANGED history PROVE RoutingParts'
  BY <1>1, <1>4, AdvisorSteps DEF RoutingSteps, ReconcileSteps, Unwritten
<1>5. ASSUME Refuses("advisor") PROVE RoutingParts'
  BY <1>1, <1>2, <1>5, AdvisorRefuses DEF Owes, Unwritten
<1> QED  BY <1>3, <1>4, <1>5

-----------------------------------------------------------------------------
\* A new call owes nothing yet.
LEMMA AdvisorStarts ==
  ASSUME IInv, RoutingParts, UNCHANGED <<gitHub, local, history>>, NEW a,
         w' = [w EXCEPT !["advisor"] = a], Adv.at = "idle", Plans(a), ~ Matched(a)
  PROVE  RoutingParts'
<1>1. \A m : ~ Owes(Adv, m)
  BY DEF Owes, Unwritten
<1> QED  BY <1>1, AdvisorFacts, AdvisorGoesOn

\* Decisions and closings begin.
LEMMA DecisionRoutingStarts ==
  ASSUME IInv, RoutingParts, NEW n \in Pulls, NEW base,
         AcceptResult(n, base) \/ MergeExperiment(n, base) \/ CloseExperiment(n)
  PROVE  RoutingParts'
<1>0. Types
  BY AdvisorFacts
<1>1. CASE AcceptResult(n, base) \/ MergeExperiment(n, base)
  <2>1. PICK op, step : /\ Calls("advisor", op) /\ op \in {"accept", "merge"}
                        /\ step \in {"acceptResult", "mergeResult"}
                        /\ Becomes("advisor", Decision(op, n, base, step))
                        /\ UNCHANGED <<gitHub, local, history>>
    BY <1>1 DEF AcceptResult, MergeExperiment
  <2>2. PICK a : a = Decision(op, n, base, step)
    OBVIOUS
  <2>3. a.op = op /\ a.at = step
    BY <2>2 DEF Decision
  <2> QED  BY <1>0, <2>1, <2>2, <2>3, AdvisorTells DEF Becomes, Calls, At, Adv, Routing, RoutingSteps
<1>2. CASE CloseExperiment(n)
  <2>1. PICK a : /\ a.op = "close" /\ a.at \in {"close", "closed"} /\ Becomes("advisor", a)
                 /\ Calls("advisor", "close") /\ UNCHANGED <<gitHub, local, history>>
    <3>1. PICK a : a = [at |-> IF pulls[n].state = "open" THEN "close" ELSE "closed", op |-> "close",
                        n |-> n, rev |-> pulls[n].rev, head |-> pulls[n].head, text |-> 0,
                        mark |-> [kind |-> "closed", rev |-> pulls[n].rev]]
      OBVIOUS
    <3>2. a.op = "close" /\ a.at \in {"close", "closed"}
      BY <3>1
    <3> QED  BY <1>2, <3>1, <3>2 DEF CloseExperiment
  <2> QED  BY <1>0, <2>1, AdvisorTells DEF Becomes, Calls, At, Adv, Routing, RoutingSteps
<1> QED  BY <1>1, <1>2

\* Messages and answers begin.
LEMMA MessageRoutes ==
  ASSUME IInv, RoutingParts, NEW p \in Workers, NEW n, NEW id, NEW text,
         SendMessage(p, n, id, text) \/ RespondToIssue(p, n, id, text)
  PROVE  RoutingParts'
<1>0. Types
  BY AdvisorFacts
<1>1. PICK op, mark : /\ op \in {"message", "answer"} /\ Calls(p, op) /\ UNCHANGED <<gitHub, local, history>>
                      /\ Becomes(p, [at |-> "find", op |-> op, n |-> n, text |-> text, mark |-> mark])
  BY DEF SendMessage, RespondToIssue
<1>2. PICK a : a = [at |-> "find", op |-> op, n |-> n, text |-> text, mark |-> mark]
  OBVIOUS
<1>3. a.op = op /\ a.at = "find" /\ w' = [w EXCEPT ![p] = a] /\ w[p].at = "idle"
  BY <1>1, <1>2 DEF Becomes, Calls, At
<1>4. CASE p = "student"
  BY <1>1, <1>3, <1>4, StudentTells DEF Std, Routing
<1>5. CASE p = "advisor"
  BY <1>0, <1>1, <1>3, <1>5, AdvisorTells DEF Adv, Routing, RoutingSteps
<1> QED  BY <1>4, <1>5 DEF Workers

\* Revision requests begin, for a new revision or for the one that is there.
LEMMA RevisionRoutes ==
  ASSUME IInv, RoutingParts, NEW n \in Pulls, NEW base, RequestRevision(n, base) \/ RequestRevisionAgain(n)
  PROVE  RoutingParts'
<1>1. PICK rev, new, b, step : /\ Calls("advisor", "revise") /\ step \in {"requiredBase", "appliedResult"}
                               /\ Becomes("advisor", Revision(n, rev, new, b, step))
                               /\ UNCHANGED <<gitHub, local, history>>
  BY DEF RequestRevision, RequestRevisionAgain
<1>2. PICK a : a = Revision(n, rev, new, b, step)
  OBVIOUS
<1>3. a.at = step /\ a.op = "revise" /\ a.n = n /\ a.head = pulls[n].head
  BY <1>2 DEF Revision
<1>4. pulls[n].head \in Nat
  BY DEF RoutingParts, Heads
<1>5. Plans(a) /\ ~ Matched(a)
  BY <1>1, <1>3, <1>4 DEF Plans, Matched, RoutingSteps, ReconcileSteps
<1> QED  BY <1>1, <1>2, <1>5, AdvisorStarts DEF Becomes, Calls, At, Adv

-----------------------------------------------------------------------------
\* A creation or a repair begins to set draft state and labels.
LEMMA AdvisorSets ==
  ASSUME IInv, RoutingParts, UNCHANGED <<gitHub, local, history>>,
         NEW call, Fields(call, {"at", "op", "n", "rev", "head"}), call.op \in {"create", "repair"},
         NEW seen, NEW yes \in BOOLEAN, NEW add, NEW remove,
         w' = [w EXCEPT !["advisor"] = Route(call, seen, yes, add, remove, "routed")],
         \A m \in Pulls : Owes(Adv, m) => m = call.n,
         call.op = "repair" => call.rev = pulls[call.n].rev,
         call.op = "create" => call.head = 1,
         ~ yes => Has(call.n, pulls[call.n].rev, call.head),
         remove \subseteq {"hold", "review", "wip"},
         IF yes THEN "review" \notin add /\ "wip" \notin remove
                ELSE "wip" \notin add /\ "review" \notin remove
  PROVE  RoutingParts'
<1>1. PICK a : a = Route(call, seen, yes, add, remove, "routed")
  OBVIOUS
<1>2. RoutedTo(call, seen, yes, add, remove, "routed", a)
  <2>1. {"at", "n"} \subseteq DOMAIN call /\ "routed" \notin RoutingSteps
    BY DEF Fields, RoutingSteps
  <2>2. RoutedTo(call, seen, yes, add, remove, "routed", Route(call, seen, yes, add, remove, "routed"))
    BY <2>1, RouteReaches
  <2> QED  BY <1>1, <2>2
<1>3. /\ \A f \in DOMAIN call \ RoutingFields : f # "at" => a[f] = call[f]
      /\ a.at \in RoutingSteps \cup {"routed"}
      /\ a.at = "remove" => a.remove # {}
      /\ a.draft = yes /\ a.add = add \ seen.labels /\ a.remove = remove \cap seen.labels
  BY <1>2 DEF RoutedTo
<1>4. a.op = call.op /\ a.n = call.n /\ a.rev = call.rev /\ a.head = call.head
  BY <1>3 DEF Fields, RoutingFields
<1>5. Toward(a, ~ yes)
  <2>1. DOMAIN LabelOrder = {"hold", "review", "wip"}
    BY DEF LabelOrder
  <2>2. CASE yes
    BY <1>3, <2>1, <2>2 DEF Toward
  <2>3. CASE ~ yes
    BY <1>3, <2>1, <2>3 DEF Toward
  <2> QED  BY <2>2, <2>3
<1>6. a.at \in RoutingSteps => a.draft \in BOOLEAN /\ Toward(a, ~ a.draft)
  BY <1>3, <1>5 DEF Toward
<1>7. a.draft = FALSE => Has(a.n, pulls[a.n].rev, a.head)
  BY <1>3, <1>4
<1>8. Plans(a)
  BY <1>3, <1>4, <1>6, <1>7 DEF Plans, RoutingSteps
<1>9. ~ Matched(a) /\ \A m \in Pulls : Owes(Adv, m) => Owes(a, m)
  BY <1>3, <1>4 DEF Matched, Owes, Unwritten, Routing, RoutingSteps
<1> QED  BY <1>1, <1>8, <1>9, AdvisorFacts, AdvisorGoesOn

\* A creation goes on to request work in progress.
LEMMA CreatedRoutes ==
  ASSUME IInv, RoutingParts, Created("advisor")
  PROVE  RoutingParts'
<1>1. Adv.at = "created" /\ Adv.at # "idle" /\ UNCHANGED <<gitHub, local>>
  BY DEF Created, At, Adv
<1>2. Types /\ ShapeOf("advisor", Adv) /\ "at" \in DOMAIN Adv /\ Plans(Adv)
  BY <1>1, AdvisorFacts DEF CallInv, RoutingParts
<1>3. Adv.op = "create" /\ Fields(Adv, {"at", "op", "n", "rev", "head"}) /\ Adv.head = 1
  <2>1. Adv.op = "create"
    BY <1>1, <1>2, StepOps DEF ShapeOf
  <2> QED  BY <1>1, <1>2, <2>1 DEF ShapeOf, Fields, Plans
<1>4. CASE Raises("advisor")
  BY <1>1, <1>2, <1>4, AdvisorRaises
<1>5. CASE ~ Raises("advisor")
  <2>1. PICK yes : yes = TRUE
    OBVIOUS
  <2>2. /\ w' = [w EXCEPT !["advisor"] = Route(Adv, pulls[Adv.n], TRUE, {"wip"}, {"hold", "review"}, "routed")]
        /\ UNCHANGED history
    BY <1>5 DEF Created, Becomes, Adv, Pull
  <2>3. w' = [w EXCEPT !["advisor"] = Route(Adv, pulls[Adv.n], yes, {"wip"}, {"hold", "review"}, "routed")]
    BY <2>1, <2>2
  <2>4. \A m \in Pulls : Owes(Adv, m) => m = Adv.n
    BY DEF Owes
  <2>5. /\ yes \in BOOLEAN /\ yes /\ "review" \notin {"wip"} /\ "wip" \notin {"hold", "review"}
        /\ {"hold", "review"} \subseteq {"hold", "review", "wip"}
    BY <2>1
  <2>6. PICK add, remove, call, seen : /\ add = {"wip"} /\ remove = {"hold", "review"}
                                       /\ call = Adv /\ seen = pulls[call.n]
    OBVIOUS
  <2>7. w' = [w EXCEPT !["advisor"] = Route(call, seen, yes, add, remove, "routed")]
    BY <2>3, <2>6
  <2>8. \A m \in Pulls : Owes(Adv, m) => m = call.n
    BY <2>4, <2>6
  <2>9. /\ Fields(call, {"at", "op", "n", "rev", "head"}) /\ call.op = "create" /\ call.head = 1
    BY <1>3, <2>6
  <2>10. call.op \in {"create", "repair"} /\ (call.op = "repair" => call.rev = pulls[call.n].rev)
         /\ (call.op = "create" => call.head = 1) /\ (~ yes => Has(call.n, pulls[call.n].rev, call.head))
    BY <2>5, <2>9
  <2>11. /\ yes \in BOOLEAN /\ remove \subseteq {"hold", "review", "wip"}
         /\ IF yes THEN "review" \notin add /\ "wip" \notin remove
                   ELSE "wip" \notin add /\ "review" \notin remove
    BY <2>5, <2>6
  <2>12. UNCHANGED <<gitHub, local, history>>
    BY <1>1, <2>2
  <2> QED  BY <2>7, <2>8, <2>9, <2>10, <2>11, <2>12, AdvisorSets
<1> QED  BY <1>4, <1>5

\* A repair goes on to its requests: for review only when there is a result.
LEMMA RepairedRoutes ==
  ASSUME IInv, RoutingParts, UNCHANGED <<gitHub, local, history>>,
         NEW call, Fields(call, {"at", "op", "n", "rev", "head"}), call.op = "repair",
         NEW wanted, wanted \in {{"wip"}, {"review"}, {"wip", "hold"}, {"review", "hold"}}
                     \/ ("wip" \notin wanted /\ "review" \in wanted),
         w' = [w EXCEPT !["advisor"] = Repaired(call, wanted)],
         \A m : ~ Owes(Adv, m), call.rev = pulls[call.n].rev,
         "wip" \notin wanted => Has(call.n, pulls[call.n].rev, call.head)
  PROVE  RoutingParts'
<1>1. PICK yes, no : yes = TRUE /\ no = FALSE
  OBVIOUS
<1>2. PICK remove : remove = {"hold", "review", "wip"} \ wanted
  OBVIOUS
<1>3. CASE "wip" \in wanted
  <2>1. ("wip" \in wanted) = yes
    BY <1>1, <1>3
  <2>2. Repaired(call, wanted) = Route(call, call.seen, yes, wanted, remove, "routed")
    BY <1>2, <2>1 DEF Repaired
  <2>3. w' = [w EXCEPT !["advisor"] = Route(call, call.seen, yes, wanted, remove, "routed")]
    BY <2>2
  <2>4. "review" \notin wanted /\ "wip" \notin remove /\ remove \subseteq {"hold", "review", "wip"}
    BY <1>2, <1>3
  <2> QED  BY <1>1, <2>3, <2>4, AdvisorSets
<1>4. CASE "wip" \notin wanted
  <2>0. ("wip" \in wanted) = FALSE
    BY <1>4
  <2>1. ("wip" \in wanted) = no
    BY <1>1, <2>0
  <2>2. Repaired(call, wanted) = Route(call, call.seen, no, wanted, remove, "routed")
    BY <1>2, <2>1 DEF Repaired
  <2>3. w' = [w EXCEPT !["advisor"] = Route(call, call.seen, no, wanted, remove, "routed")]
    BY <2>2
  <2>4. "wip" \notin wanted /\ "review" \notin remove /\ remove \subseteq {"hold", "review", "wip"}
    BY <1>2, <1>4
  <2> QED  BY <1>1, <1>4, <2>3, <2>4, AdvisorSets
<1> QED  BY <1>3, <1>4

\* A repair begins.
LEMMA RepairRoutingStarts ==
  ASSUME IInv, RoutingParts, NEW n \in Pulls, NEW status \in Active, NEW blockers \in SUBSET {"hold"},
         RepairRouting(n, {status} \cup blockers)
  PROVE  RoutingParts'
<1>1. PICK wanted : wanted = {status} \cup blockers
  OBVIOUS
<1>2. wanted \in {{"wip"}, {"review"}, {"wip", "hold"}, {"review", "hold"}}
  <2>1. blockers = {} \/ blockers = {"hold"}
    OBVIOUS
  <2> QED  BY <1>1, <2>1 DEF Active
<1>3. PICK call : call = [at |-> "repairResult", op |-> "repair", n |-> n, rev |-> pulls[n].rev,
                          head |-> pulls[n].head, seen |-> pulls[n], wanted |-> wanted]
  OBVIOUS
<1>4. /\ Adv.at = "idle" /\ UNCHANGED <<gitHub, local, history>>
      /\ w' = [w EXCEPT !["advisor"] = IF "review" \in wanted THEN call ELSE Repaired(call, wanted)]
  BY <1>1, <1>3 DEF RepairRouting, Becomes, Calls, At, Adv
<1>5. /\ Fields(call, {"at", "op", "n", "rev", "head"}) /\ call.op = "repair" /\ call.at = "repairResult"
      /\ call.n = n /\ call.rev = pulls[n].rev /\ call.wanted = wanted
  BY <1>3 DEF Fields
<1>6. \A m : ~ Owes(Adv, m)
  BY <1>4 DEF Owes, Unwritten
<1>7. CASE "review" \in wanted
  <2>1. Plans(call) /\ ~ Matched(call)
    BY <1>2, <1>5, <1>7 DEF Plans, Matched, RoutingSteps
  <2> QED  BY <1>4, <1>7, <2>1, AdvisorStarts
<1>8. CASE "review" \notin wanted
  <2>1. "wip" \in wanted /\ w' = [w EXCEPT !["advisor"] = Repaired(call, wanted)]
    BY <1>2, <1>4, <1>8
  <2> QED  BY <1>2, <1>4, <1>5, <1>6, <2>1, RepairedRoutes
<1> QED  BY <1>7, <1>8

\* A repair has read the result that review needs.
LEMMA RepairResultRoutes ==
  ASSUME IInv, RoutingParts, RepairResult("advisor")
  PROVE  RoutingParts'
<1>1. Adv.at = "repairResult" /\ Adv.at # "idle" /\ UNCHANGED <<gitHub, local>>
  BY DEF RepairResult, At, Adv
<1>2. Types /\ ShapeOf("advisor", Adv) /\ "at" \in DOMAIN Adv /\ Plans(Adv)
  BY <1>1, AdvisorFacts DEF CallInv, RoutingParts
<1>3. Adv.op = "repair" /\ Fields(Adv, {"at", "op", "n", "rev", "head"})
      /\ Adv.rev = pulls[Adv.n].rev /\ "wip" \notin Adv.wanted /\ "review" \in Adv.wanted
  <2>1. Adv.op = "repair"
    BY <1>1, <1>2, StepOps DEF ShapeOf
  <2> QED  BY <1>1, <1>2, <2>1 DEF ShapeOf, Fields, Plans
<1>4. \A m : ~ Owes(Adv, m)
  BY <1>1 DEF Owes, Unwritten
<1>5. CASE Refuses("advisor")
  BY <1>1, <1>2, <1>4, <1>5, AdvisorRefuses
<1>6. CASE ~ Refuses("advisor")
  <2>1. /\ Cardinality(TheResult("advisor")) = 1 /\ UNCHANGED history
        /\ w' = [w EXCEPT !["advisor"] = Repaired(Adv, Adv.wanted)]
    BY <1>6 DEF RepairResult, Becomes, Adv
  <2>2. TheResult("advisor") # {}
    <3>1. TheResult("advisor") = {} => Cardinality(TheResult("advisor")) = 0
      BY FS_EmptySet
    <3> QED  BY <2>1, <3>1
  <2>3. Has(Adv.n, pulls[Adv.n].rev, Adv.head)
    BY <1>3, <2>2 DEF Has, TheResult, Adv
  <2> QED  BY <1>1, <1>3, <1>4, <2>1, <2>3, RepairedRoutes
<1> QED  BY <1>5, <1>6

\* Work in progress that a creation or repair leaves with a result is parked.
LEMMA VerifiedRoutes ==
  ASSUME IInv, RoutingParts, Verified("advisor")
  PROVE  RoutingParts'
<1>1. Adv.at = "routed" /\ Adv.at # "idle" /\ UNCHANGED <<gitHub, local>>
  BY DEF Verified, At, Adv
<1>2. Types /\ ShapeOf("advisor", Adv) /\ Plans(Adv)
  BY <1>1, AdvisorFacts DEF RoutingParts
<1>3. Adv.op \in {"create", "repair"} /\ Adv.n \in Pulls
  <2>1. Adv.op \in {"create", "repair"}
    BY <1>1, <1>2, StepOps DEF ShapeOf
  <2> QED  BY <1>2, <2>1 DEF ShapeOf
<1>4. CASE Raises("advisor")
  BY <1>1, <1>2, <1>4, AdvisorRaises
<1>5. CASE ~ Raises("advisor")
  <2>1. PICK n : n = Adv.n
    OBVIOUS
  <2>2. /\ Returns("advisor") /\ pulls[n].head = Adv.head /\ pulls[n].draft = Adv.draft
        /\ "wip" \in pulls[n].labels <=> Adv.draft
        /\ "review" \in pulls[n].labels <=> ~ Adv.draft
    BY <1>5, <2>1 DEF Verified, IsAssigned, SamePull, AtHead, Pull, Adv
  <2>3. Adv.draft \in BOOLEAN
    BY <1>3, <2>1, <2>2 DEF RoutingParts, Heads
  <2>4. CASE Adv.draft = FALSE
    <3>1. HasResult(n, pulls[n])
      BY <1>1, <1>2, <2>1, <2>2, <2>4 DEF Plans, Has, HasResult
    <3>2. Fits(n)
      BY <2>2, <2>4, <3>1 DEF Fits, Shows
    <3> QED  BY <1>1, <1>2, <2>1, <2>2, <3>2, AdvisorReturns
  <2>5. CASE Adv.draft = TRUE /\ HasResult(n, pulls[n])
    <3>1. n \in parked'
      BY <1>3, <2>1, <2>2, <2>5 DEF Returns, Adv, Routing, Pull
    <3> QED  BY <1>1, <1>2, <2>1, <2>2, <3>1, AdvisorReturns
  <2>6. CASE Adv.draft = TRUE /\ ~ HasResult(n, pulls[n])
    <3>1. Fits(n)
      BY <2>2, <2>6 DEF Fits, Shows
    <3> QED  BY <1>1, <1>2, <2>1, <2>2, <3>1, AdvisorReturns
  <2> QED  BY <2>3, <2>4, <2>5, <2>6
<1> QED  BY <1>4, <1>5

-----------------------------------------------------------------------------
(* A revision request that restores the routing of what it wrote.          *)

\* A revision request that restores still sees its own revision.
LEMMA RevisingFacts ==
  ASSUME IInv, RoutingParts, Adv.at \in ReconcileSteps
  PROVE  /\ Adv.at # "idle" /\ Types /\ Plans(Adv) /\ Adv.op = "revise" /\ Adv.n \in Pulls
         /\ Fields(Adv, {"at", "op", "n", "rev", "head", "text", "mark", "base", "new"})
         /\ Adv.head \in Nat /\ Adv.head <= pulls[Adv.n].head /\ Owes(Adv, Adv.n)
         /\ Adv.at # "reconcile" =>
              /\ Fields(Adv, {"seen"}) /\ Adv.seen.head = Adv.head
              /\ Adv.seen.rev = pulls[Adv.n].rev /\ Adv.seen.base = pulls[Adv.n].base
         /\ Adv.at \notin {"reconcile", "reconcileResult"} =>
              Fields(Adv, {"has"}) /\ Adv.has \in BOOLEAN /\ (Adv.has => Has(Adv.n, pulls[Adv.n].rev, Adv.head))
<1>1. Adv.at # "idle" /\ Adv.at \notin Unwritten
  BY DEF ReconcileSteps, Unwritten
<1>2. Types /\ ShapeOf("advisor", Adv) /\ "at" \in DOMAIN Adv /\ Plans(Adv)
  BY <1>1, AdvisorFacts DEF CallInv, RoutingParts
<1>3. Adv.op = "revise"
  BY <1>2, StepOps DEF ShapeOf
<1>4. /\ Adv.n \in Pulls /\ Owes(Adv, Adv.n)
      /\ Fields(Adv, {"at", "op", "n", "rev", "head", "text", "mark", "base", "new"})
  BY <1>1, <1>2, <1>3 DEF ShapeOf, Fields, Owes, Routing
<1> QED  BY <1>1, <1>2, <1>3, <1>4 DEF Plans

\* A revision request goes on restoring.
LEMMA RevisingGoes ==
  ASSUME IInv, RoutingParts, Adv.at \in ReconcileSteps, UNCHANGED <<gitHub, local, history>>,
         NEW a, w' = [w EXCEPT !["advisor"] = a], NEW n, n = Adv.n,
         a.n = n, a.op = "revise", a.head = Adv.head, a.at \in ReconcileSteps \cup RoutingSteps,
         a.at \in RoutingSteps => a.draft = ~ a.has /\ Toward(a, a.has),
         a.at # "reconcile" =>
           /\ Fields(a, {"seen"}) /\ a.seen.head = a.head
           /\ a.seen.rev = pulls[n].rev /\ a.seen.base = pulls[n].base,
         a.at \notin {"reconcile", "reconcileResult"} =>
           Fields(a, {"has"}) /\ a.has \in BOOLEAN /\ (a.has => Has(n, pulls[n].rev, a.head)),
         Matched(a) => Between(Std, a)
  PROVE  RoutingParts'
<1>1. /\ Adv.op = "revise" /\ Adv.head \in Nat /\ Adv.head <= pulls[n].head /\ Types /\ Adv.at \notin Unwritten
  BY RevisingFacts DEF Owes
<1>2. \A m \in Pulls : Owes(Adv, m) => Owes(a, m)
  BY DEF Owes, Unwritten, Routing, ReconcileSteps, RoutingSteps
<1>3. a.at \in RoutingSteps => a.draft \in BOOLEAN /\ Toward(a, ~ a.draft)
  <2> SUFFICES ASSUME a.at \in RoutingSteps PROVE a.draft \in BOOLEAN /\ Toward(a, ~ a.draft)
    OBVIOUS
  <2>1. a.has \in BOOLEAN
    BY DEF RoutingSteps
  <2>2. CASE a.has = TRUE
    BY <2>2 DEF Toward
  <2>3. CASE a.has = FALSE
    BY <2>3 DEF Toward
  <2> QED  BY <2>1, <2>2, <2>3
<1>4. a.at \in RoutingSteps /\ a.draft = FALSE => Has(n, pulls[n].rev, a.head)
  <2> SUFFICES ASSUME a.at \in RoutingSteps, a.draft = FALSE PROVE Has(n, pulls[n].rev, a.head)
    OBVIOUS
  <2>1. a.has \in BOOLEAN /\ a.draft = ~ a.has /\ (a.has => Has(n, pulls[n].rev, a.head))
    BY DEF RoutingSteps
  <2> QED  BY <2>1
<1>5. Plans(a)
  BY <1>1, <1>3, <1>4 DEF Plans, ReconcileSteps, RoutingSteps
<1> QED  BY <1>1, <1>2, <1>5, AdvisorGoesOn

\* Another attempt of a revision request.
LEMMA RevisingAgain ==
  ASSUME IInv, RoutingParts, Adv.at \in ReconcileSteps, UNCHANGED <<gitHub, local>>, Again("advisor")
  PROVE  RoutingParts'
<1>1. /\ Types /\ Adv.op = "revise"
      /\ Fields(Adv, {"at", "op", "n", "rev", "head", "text", "mark", "base", "new"})
  BY RevisingFacts
<1>2. CASE Raises("advisor")
  BY <1>1, <1>2, AdvisorRaises
<1>3. CASE ~ Raises("advisor")
  <2>1. PICK tries, n : /\ w' = [w EXCEPT !["advisor"] = With(Adv, [at |-> "reconcile", tries |-> tries])]
                        /\ UNCHANGED history /\ n = Adv.n
    BY <1>3 DEF Again, Becomes, Adv
  <2>2. PICK a : a = With(Adv, [at |-> "reconcile", tries |-> tries])
    OBVIOUS
  <2>3. a.at = "reconcile" /\ \A f \in DOMAIN Adv \ {"at", "tries"} : a[f] = Adv[f]
    BY <2>2 DEF With
  <2>4. a.n = n /\ a.op = "revise" /\ a.head = Adv.head
    BY <1>1, <2>1, <2>3 DEF Fields
  <2>5. ~ Matched(a) /\ a.at \notin RoutingSteps /\ a.at \in ReconcileSteps
    BY <2>3 DEF Matched, RoutingSteps, ReconcileSteps
  <2> QED  BY <2>1, <2>2, <2>3, <2>4, <2>5, RevisingGoes
<1> QED  BY <1>2, <1>3

\* The pull request as a request for a revision reads it.
LEMMA RevisingSees ==
  ASSUME IInv, RoutingParts, Adv.at \in ReconcileSteps, UNCHANGED <<gitHub, local, history>>,
         NEW step \in {"reconcileResult", "recheckResult", "settleResult"},
         step = "reconcileResult" \/ Adv.at \notin {"reconcile", "reconcileResult"},
         Becomes("advisor", With(w["advisor"], [at |-> step, seen |-> Pull("advisor")])),
         SamePull("advisor")
  PROVE  RoutingParts'
<1>1. PICK n, pull : n = Adv.n /\ pull = pulls[n]
  OBVIOUS
<1>2. /\ Types /\ Adv.op = "revise" /\ n \in Pulls
      /\ Fields(Adv, {"at", "op", "n", "rev", "head", "text", "mark", "base", "new"})
      /\ Adv.at \notin {"reconcile", "reconcileResult"} =>
           Fields(Adv, {"has"}) /\ Adv.has \in BOOLEAN /\ (Adv.has => Has(n, pulls[n].rev, Adv.head))
  BY <1>1, RevisingFacts
<1>3. PICK a : a = With(Adv, [at |-> step, seen |-> pull])
  OBVIOUS
<1>4. w' = [w EXCEPT !["advisor"] = a] /\ pulls[n].head = Adv.head /\ IsOpened(n)
  BY <1>1, <1>3 DEF Becomes, Adv, Pull, SamePull, AtHead, IsOpen, IsOpened
<1>5. /\ a.at = step /\ a.seen = pull /\ "seen" \in DOMAIN a
      /\ \A f \in DOMAIN Adv \ {"at", "seen"} : f \in DOMAIN a /\ a[f] = Adv[f]
  BY <1>3 DEF With
<1>6. /\ a.n = n /\ a.op = "revise" /\ a.head = Adv.head /\ Fields(a, {"seen"})
      /\ Fields(Adv, {"has"}) => Fields(a, {"has"}) /\ a.has = Adv.has
  BY <1>1, <1>2, <1>5 DEF Fields
<1>7. a.at \in ReconcileSteps /\ a.at \notin RoutingSteps
  BY <1>5 DEF ReconcileSteps, RoutingSteps
<1>8. a.at \notin {"reconcile", "reconcileResult"} =>
        Fields(a, {"has"}) /\ a.has \in BOOLEAN /\ (a.has => Has(n, pulls[n].rev, a.head))
  BY <1>2, <1>5, <1>6
<1>9. Matched(a) => Between(Std, a)
  <2> SUFFICES ASSUME Matched(a) PROVE Between(Std, a)
    OBVIOUS
  <2>1. HasResult(n, pulls[n]) = a.has /\ Shows(pulls[n], a.has)
    BY <1>1, <1>5, <1>6 DEF Matched
  <2>2. Fits(n)
    BY <2>1 DEF Fits, Shows
  <2>3. ASSUME Owes(Std, n), Stale(Std) PROVE Shows(pulls[n], FALSE)
    <3>1. Std.at # "idle" /\ CallInv("student", Std)
      BY <2>3 DEF Owes, Unwritten, IInv, Workers, Std
    <3>2. Std.op = "submit" /\ Std.n = n
      BY <2>3, <3>1 DEF CallInv, ShapeOf, Owes, Routing
    <3>3. Known(Std) /\ Std.rev \in Nat /\ pulls[n].rev \in Nat
      BY <3>1, <3>2, SubmitFacts
    <3>4. ~ HasResult(n, pulls[n])
      BY <2>3, <3>1, <3>2, <3>3, NoneNewer DEF Stale, HasResult, Has
    <3> QED  BY <2>2, <3>4 DEF Fits, Shows
  <2> QED  BY <1>4, <1>6, <2>1, <2>2, <2>3 DEF Between
<1> QED  BY <1>1, <1>4, <1>5, <1>6, <1>7, <1>8, <1>9, RevisingGoes

-----------------------------------------------------------------------------
\* A change of draft state or labels that a request for a revision begins.
LEMMA RevisingSets ==
  ASSUME IInv, RoutingParts, Adv.at \in ReconcileSteps \ {"reconcile"}, UNCHANGED <<gitHub, local, history>>,
         NEW call, Fields(call, {"at", "op", "n", "head", "seen", "has"}),
         call.op = "revise", call.n = Adv.n, call.head = Adv.head, call.seen = Adv.seen,
         NEW has \in BOOLEAN, call.has = has, has => Has(Adv.n, pulls[Adv.n].rev, Adv.head),
         NEW seen, NEW no, no = ~ has, NEW add, NEW remove, NEW then \in {"recheck", "settle"},
         w' = [w EXCEPT !["advisor"] = Route(call, seen, no, add, remove, then)],
         remove \subseteq {"review", "wip"},
         IF has THEN "wip" \notin add /\ "review" \notin remove
                ELSE "review" \notin add /\ "wip" \notin remove
  PROVE  RoutingParts'
<1>1. PICK a, n : a = Route(call, seen, no, add, remove, then) /\ n = Adv.n
  OBVIOUS
<1>2. RoutedTo(call, seen, no, add, remove, then, a)
  <2>1. {"at", "n"} \subseteq DOMAIN call /\ then \notin RoutingSteps
    BY DEF Fields, RoutingSteps
  <2>2. RoutedTo(call, seen, no, add, remove, then, Route(call, seen, no, add, remove, then))
    BY <2>1, RouteReaches
  <2> QED  BY <1>1, <2>2
<1>3. /\ DOMAIN call \subseteq DOMAIN a /\ \A f \in DOMAIN call \ RoutingFields : f # "at" => a[f] = call[f]
      /\ a.at \in RoutingSteps \cup {then}
      /\ a.at = "remove" => a.remove # {}
      /\ a.draft = no /\ a.add = add \ seen.labels /\ a.remove = remove \cap seen.labels
  BY <1>2 DEF RoutedTo
<1>4. a.op = "revise" /\ a.n = n /\ a.head = Adv.head /\ a.seen = Adv.seen /\ a.has = has
      /\ Fields(a, {"seen"}) /\ Fields(a, {"has"})
  BY <1>1, <1>3 DEF Fields, RoutingFields
<1>5. Toward(a, has)
  <2>1. DOMAIN LabelOrder = {"hold", "review", "wip"}
    BY DEF LabelOrder
  <2>2. CASE has
    BY <1>3, <2>1, <2>2 DEF Toward
  <2>3. CASE ~ has
    BY <1>3, <2>1, <2>3 DEF Toward
  <2> QED  BY <2>2, <2>3
<1>6. a.at \in ReconcileSteps \cup RoutingSteps /\ ~ Matched(a)
  BY <1>3 DEF Matched, RoutingSteps, ReconcileSteps
<1>7. /\ a.seen.head = a.head /\ a.seen.rev = pulls[n].rev /\ a.seen.base = pulls[n].base
  BY <1>1, <1>4, RevisingFacts
<1>8. a.draft = ~ a.has
  BY <1>3, <1>4
<1>9. Toward(a, a.has)
  BY <1>4, <1>5
<1>10. a.has \in BOOLEAN /\ (a.has => Has(n, pulls[n].rev, a.head))
  BY <1>1, <1>4
<1>11. w' = [w EXCEPT !["advisor"] = a] /\ Adv.at \in ReconcileSteps
  BY <1>1
<1> QED  BY <1>1, <1>4, <1>6, <1>7, <1>8, <1>9, <1>10, <1>11, RevisingGoes

\* A revision request has read the results and sets the draft state.
LEMMA RevisingDraft ==
  ASSUME IInv, RoutingParts, ReconcileResult("advisor")
  PROVE  RoutingParts'
<1>0. Adv.at = "reconcileResult" /\ Adv.at \in ReconcileSteps \ {"reconcile"} /\ UNCHANGED <<gitHub, local, history>>
  BY DEF ReconcileResult, At, Adv, ReconcileSteps
<1>1. /\ Adv.op = "revise" /\ Adv.n \in Pulls /\ Types
      /\ Fields(Adv, {"at", "op", "n", "rev", "head", "text", "mark", "base", "new"})
      /\ Fields(Adv, {"seen"}) /\ Adv.seen.head = Adv.head /\ Adv.seen.rev = pulls[Adv.n].rev
  BY <1>0, RevisingFacts
<1>2. PICK has, no : has = HasResult(Adv.n, Adv.seen) /\ no = ~ has
  OBVIOUS
<1>3. has \in BOOLEAN /\ (has => Has(Adv.n, pulls[Adv.n].rev, Adv.head))
  BY <1>1, <1>2 DEF HasResult, Has
<1>4. PICK call, seen : call = With(Adv, [has |-> has]) /\ seen = Adv.seen
  OBVIOUS
<1>5. call.has = has /\ "has" \in DOMAIN call /\ \A f \in DOMAIN Adv \ {"has"} : f \in DOMAIN call /\ call[f] = Adv[f]
  BY <1>4 DEF With
<1>6. /\ Fields(call, {"at", "op", "n", "head", "seen", "has"}) /\ call.op = "revise"
      /\ call.n = Adv.n /\ call.head = Adv.head /\ call.seen = Adv.seen
  BY <1>1, <1>5 DEF Fields
<1>7. w' = [w EXCEPT !["advisor"] = Route(call, seen, no, {}, {}, "recheck")]
  <2>1. Becomes("advisor", Route(With(Adv, [has |-> HasResult(Adv.n, Adv.seen)]), Adv.seen,
                                 ~ HasResult(Adv.n, Adv.seen), {}, {}, "recheck"))
    BY DEF ReconcileResult, Adv
  <2>2. Becomes("advisor", Route(With(Adv, [has |-> has]), Adv.seen, no, {}, {}, "recheck"))
    BY <1>2, <2>1
  <2> QED  BY <1>4, <2>2 DEF Becomes
<1>8. PICK none, then : none = {} /\ then = "recheck"
  OBVIOUS
<1>9. w' = [w EXCEPT !["advisor"] = Route(call, seen, no, none, none, then)]
  BY <1>7, <1>8
<1>10. /\ no = ~ has /\ then \in {"recheck", "settle"} /\ none \subseteq {"review", "wip"}
       /\ IF has THEN "wip" \notin none /\ "review" \notin none ELSE "review" \notin none /\ "wip" \notin none
  BY <1>2, <1>8
<1> QED  BY <1>0, <1>3, <1>5, <1>6, <1>9, <1>10, RevisingSets

\* A revision request has read the results again and sets the labels.
LEMMA RevisingLabels ==
  ASSUME IInv, RoutingParts, RecheckResult("advisor")
  PROVE  RoutingParts'
<1>0. Adv.at = "recheckResult" /\ Adv.at \in ReconcileSteps \ {"reconcile"} /\ UNCHANGED <<gitHub, local>>
  BY DEF RecheckResult, At, Adv, ReconcileSteps
<1>1. /\ Adv.op = "revise" /\ Adv.n \in Pulls /\ Types
      /\ Fields(Adv, {"at", "op", "n", "rev", "head", "text", "mark", "base", "new"})
      /\ Fields(Adv, {"seen"}) /\ Fields(Adv, {"has"}) /\ Adv.has \in BOOLEAN
      /\ Adv.has => Has(Adv.n, pulls[Adv.n].rev, Adv.head)
  BY <1>0, RevisingFacts
<1>2. CASE Again("advisor")
  BY <1>0, <1>2, RevisingAgain
<1>3. CASE ~ Again("advisor")
  <2>1. PICK call, has, no, seen, add, remove, then :
          /\ call = Adv /\ has = Adv.has /\ no = ~ has /\ seen = [Adv.seen EXCEPT !.draft = no]
          /\ add = {Status(has)} /\ remove = {Status(no)} /\ then = "settle"
    OBVIOUS
  <2>2. /\ w' = [w EXCEPT !["advisor"] = Route(Adv, [Adv.seen EXCEPT !.draft = ~ Adv.has], ~ Adv.has,
                                               {Status(Adv.has)}, {Status(~ Adv.has)}, "settle")]
        /\ UNCHANGED history
    BY <1>3 DEF RecheckResult, Becomes, Adv
  <2>3. (~ Adv.has) = no
    BY <2>1
  <2>4. w' = [w EXCEPT !["advisor"] = Route(call, seen, no, add, remove, then)]
    BY <2>1, <2>2, <2>3
  <2>5. CASE has = TRUE
    <3>1. no = FALSE
      BY <2>1, <2>5
    <3>2. add = {"review"} /\ remove = {"wip"}
      BY <2>1, <2>5, <3>1 DEF Status
    <3>3. IF has THEN "wip" \notin add /\ "review" \notin remove ELSE "review" \notin add /\ "wip" \notin remove
      BY <2>5, <3>2
    <3>4. /\ Fields(call, {"at", "op", "n", "head", "seen", "has"})
          /\ call.op = "revise" /\ call.n = Adv.n /\ call.head = Adv.head /\ call.seen = Adv.seen
          /\ call.has = has /\ has \in BOOLEAN /\ (has => Has(Adv.n, pulls[Adv.n].rev, Adv.head))
      BY <1>1, <2>1 DEF Fields
    <3>5. no = ~ has /\ then \in {"recheck", "settle"} /\ remove \subseteq {"review", "wip"}
      BY <2>1, <3>2
    <3>6. UNCHANGED <<gitHub, local, history>>
      BY <1>0, <2>2
    <3> QED  BY <1>0, <2>4, <3>3, <3>4, <3>5, <3>6, RevisingSets
  <2>6. CASE has = FALSE
    <3>1. no = TRUE
      BY <2>1, <2>6
    <3>2. add = {"wip"} /\ remove = {"review"}
      BY <2>1, <2>6, <3>1 DEF Status
    <3>3. IF has THEN "wip" \notin add /\ "review" \notin remove ELSE "review" \notin add /\ "wip" \notin remove
      BY <2>6, <3>2
    <3>4. /\ Fields(call, {"at", "op", "n", "head", "seen", "has"})
          /\ call.op = "revise" /\ call.n = Adv.n /\ call.head = Adv.head /\ call.seen = Adv.seen
          /\ call.has = has /\ has \in BOOLEAN /\ (has => Has(Adv.n, pulls[Adv.n].rev, Adv.head))
      BY <1>1, <2>1 DEF Fields
    <3>5. no = ~ has /\ then \in {"recheck", "settle"} /\ remove \subseteq {"review", "wip"}
      BY <2>1, <3>2
    <3>6. UNCHANGED <<gitHub, local, history>>
      BY <1>0, <2>2
    <3> QED  BY <1>0, <2>4, <3>3, <3>4, <3>5, <3>6, RevisingSets
  <2> QED  BY <1>1, <2>1, <2>5, <2>6
<1> QED  BY <1>2, <1>3

\* What was read as settled is still so, or the student is at work on it.
LEMMA RevisingSettled ==
  ASSUME IInv, RoutingParts, SettleResult("advisor")
  PROVE  RoutingParts'
<1>0. Adv.at = "settleResult" /\ Adv.at \in ReconcileSteps /\ UNCHANGED <<gitHub, local>>
  BY DEF SettleResult, At, Adv, ReconcileSteps
<1>1. /\ Adv.op = "revise" /\ Adv.n \in Pulls /\ Types /\ Adv.has \in BOOLEAN
  BY <1>0, RevisingFacts
<1>2. CASE Again("advisor")
  BY <1>0, <1>2, RevisingAgain
<1>3. CASE Raises("advisor")
  BY <1>0, <1>1, <1>3, AdvisorRaises
<1>4. CASE ~ Again("advisor") /\ ~ Raises("advisor")
  <2>1. PICK has, seen : has = Adv.has /\ seen = Adv.seen
    OBVIOUS
  <2>2. /\ Returns("advisor") /\ HasResult(Adv.n, seen) = has
        /\ seen.draft = ~ has /\ seen.labels \cap Active = {Status(has)}
    BY <1>4, <2>1 DEF SettleResult, Adv
  <2>3. Shows(seen, has)
    <3>1. CASE has = TRUE
      <4>1. seen.draft = FALSE
        BY <2>2, <3>1
      <4>2. Status(has) = "review"
        BY <3>1 DEF Status
      <4>3. seen.labels \cap {"wip", "review"} = {"review"}
        BY <2>2, <4>2 DEF Active
      <4>4. Shows(seen, TRUE)
        BY <4>1, <4>3 DEF Shows
      <4> QED  BY <3>1, <4>4
    <3>2. CASE has = FALSE
      <4>1. seen.draft = TRUE
        BY <2>2, <3>2
      <4>2. Status(has) = "wip"
        BY <3>2 DEF Status
      <4>3. seen.labels \cap {"wip", "review"} = {"wip"}
        BY <2>2, <4>2 DEF Active
      <4>4. Shows(seen, FALSE)
        BY <4>1, <4>3 DEF Shows
      <4> QED  BY <3>2, <4>4
    <3> QED  BY <1>1, <2>1, <3>1, <3>2
  <2>4. IsOpened(Adv.n) => Matched(Adv)
    BY <1>0, <1>1, <2>1, <2>2, <2>3 DEF Matched
  <2>5. IsOpened(Adv.n) /\ ~ Owes(Std, Adv.n) => Fits(Adv.n)
    BY <2>4 DEF RoutingParts, Between
  <2> QED  BY <1>0, <1>1, <2>2, <2>5, AdvisorReturns
<1> QED  BY <1>2, <1>3, <1>4

\* All steps with which a revision request restores.
LEMMA AdvisorReconciles ==
  ASSUME IInv, RoutingParts, ReconcileRouting("advisor")
  PROVE  RoutingParts'
<1>0. CASE ReconcileResult("advisor") \/ RecheckResult("advisor") \/ SettleResult("advisor")
  BY <1>0, RevisingDraft, RevisingLabels, RevisingSettled
<1>1. CASE Reconcile("advisor") \/ Recheck("advisor") \/ Settle("advisor")
  <2>0. Adv.at \in ReconcileSteps /\ Adv.at \in {"reconcile", "recheck", "settle"} /\ UNCHANGED <<gitHub, local>>
    BY <1>1 DEF Reconcile, Recheck, Settle, At, Adv, ReconcileSteps
  <2>1. Types /\ (Adv.at # "reconcile" => SameAssignment("advisor"))
    BY <2>0, RevisingFacts DEF SameAssignment, Pull, Adv
  <2>2. CASE ~ SamePull("advisor")
    BY <1>1, <2>0, <2>1, <2>2, AdvisorRaises DEF Reconcile, Recheck, Settle
  <2>3. CASE SamePull("advisor")
    <3>1. PICK step \in {"reconcileResult", "recheckResult", "settleResult"} :
            /\ Becomes("advisor", With(w["advisor"], [at |-> step, seen |-> Pull("advisor")]))
            /\ UNCHANGED history
            /\ step = "reconcileResult" \/ Adv.at \notin {"reconcile", "reconcileResult"}
      <4>1. CASE Adv.at = "reconcile"
        BY <1>1, <2>3, <4>1 DEF Reconcile, Recheck, Settle, At, Adv
      <4>2. CASE Adv.at = "recheck"
        BY <1>1, <2>1, <2>3, <4>2 DEF Reconcile, Recheck, Settle, At, Adv
      <4>3. CASE Adv.at = "settle"
        BY <1>1, <2>1, <2>3, <4>3 DEF Reconcile, Recheck, Settle, At, Adv
      <4> QED  BY <2>0, <4>1, <4>2, <4>3
    <3> QED  BY <2>0, <2>3, <3>1, RevisingSees
  <2> QED  BY <2>2, <2>3
<1> QED  BY <1>0, <1>1 DEF ReconcileRouting

-----------------------------------------------------------------------------
(* What the advisor writes.                                                *)

\* What a submission knows outlasts a newer revision, and draft state and
\* labels that are set to work in progress.
LEMMA KnownStays ==
  ASSUME NEW s, Known(s), UNCHANGED <<given, comments>>,
         s.at # "idle" /\ s.op = "submit" =>
           /\ s.rev \in Nat /\ pulls[s.n].rev \in Nat /\ pulls'[s.n].rev \in Nat
           /\ branch'[s.n] = branch[s.n] /\ pulls'[s.n].head = pulls[s.n].head
           /\ pulls[s.n].rev <= pulls'[s.n].rev
           /\ pulls'[s.n].rev = pulls[s.n].rev => pulls'[s.n].base = pulls[s.n].base
           /\ Restoring(s) /\ IsOpened(s.n)' =>
                /\ IsOpened(s.n)
                /\ pulls[s.n].draft = TRUE => pulls'[s.n].draft = TRUE
                /\ "wip" \in pulls[s.n].labels => "wip" \in pulls'[s.n].labels
                /\ "review" \in pulls'[s.n].labels => "review" \in pulls[s.n].labels
  PROVE  Known(s)'
<1> SUFFICES ASSUME s.at # "idle", s.op = "submit" PROVE Known(s)'
  BY DEF Known
<1>1. PICK n : n = s.n
  OBVIOUS
<1>2. /\ n \in given
      /\ \A c \in comments[n] : c.mark.kind = "result" => c.mark.rev <= s.rev
      /\ s.at # "push" => branch[n] = s.head
      /\ s.at \notin {"push", "submitBefore"} => pulls[n].head = s.head
      /\ s.at = "verifyPost" => \E c \in comments[n] : c.mark = s.mark /\ c.text = s.text
      /\ Reviewing(s) => Has(n, s.rev, s.head)
      /\ s.at \in RoutingSteps => s.draft \in BOOLEAN /\ Toward(s, s.then = "submitAfter")
      /\ Restoring(s) => Restored(s)
  BY <1>1 DEF Known
<1>3. Has(n, s.rev, s.head)' <=> Has(n, s.rev, s.head)
  BY DEF Has, Results
<1>4. ASSUME Restoring(s) PROVE Restored(s)'
  <2>1. Restored(s)
    BY <1>2, <1>4
  <2>2. Stale(s)'
    BY <1>1, <2>1 DEF Restored, Stale
  <2>3. s.at # "reconcile" =>
          /\ Fields(s, {"seen"}) /\ s.seen.rev \in Nat
          /\ s.rev < s.seen.rev /\ s.seen.rev <= pulls'[n].rev
          /\ s.seen.head = s.head /\ s.seen.draft \in BOOLEAN
          /\ s.seen.rev = pulls'[n].rev => s.seen.base = pulls'[n].base
    BY <1>1, <2>1 DEF Restored
  <2>4. ASSUME IsOpened(n)'
        PROVE  /\ s.at \in {"reconcileResult", "recheckResult"} => SinceSeen(s)'
               /\ Drafted(s) => DraftOf(s)' = TRUE
               /\ Labelled(s) => Reaches(s, FALSE)'
    <3>1. /\ IsOpened(n)
          /\ pulls[n].draft = TRUE => pulls'[n].draft = TRUE
          /\ "wip" \in pulls[n].labels => "wip" \in pulls'[n].labels
          /\ "review" \in pulls'[n].labels => "review" \in pulls[n].labels
      BY <1>1, <1>4, <2>4
    <3>2. s.at \in {"reconcileResult", "recheckResult"} => SinceSeen(s)'
      BY <1>1, <2>1, <3>1 DEF Restored, SinceSeen
    <3>3. DraftOf(s) = TRUE => DraftOf(s)' = TRUE
      BY <1>1, <3>1 DEF DraftOf, Turns
    <3>4. /\ "wip" \in LabelsOf(s) => "wip" \in LabelsOf(s)'
          /\ "review" \in LabelsOf(s)' => "review" \in LabelsOf(s)
      BY <1>1, <3>1 DEF LabelsOf, Adds, Removes
    <3>5. Reaches(s, FALSE) => Reaches(s, FALSE)'
      BY <3>3, <3>4 DEF Reaches, Shows
    <3> QED  BY <1>1, <2>1, <3>1, <3>2, <3>3, <3>5 DEF Restored
  <2>5. /\ Drafted(s) \/ Labelled(s) => Fields(s, {"has"}) /\ s.has = FALSE
        /\ s.at = "settleResult" => Shows(s.seen, FALSE)
    BY <2>1 DEF Restored
  <2> QED  BY <1>1, <2>2, <2>3, <2>4, <2>5 DEF Restored, Drafted, Labelled, Shows
<1>5. s.at \in RoutingSteps => Toward(s, s.then = "submitAfter")'
  BY <1>2 DEF Toward
<1> QED  BY <1>1, <1>2, <1>3, <1>4, <1>5 DEF Known, Reviewing, Restoring

\* A write of the advisor, on a pull request that it still owes the routing, or closes.
LEMMA AdvisorWrites ==
  ASSUME IInv, RoutingParts, UNCHANGED <<scope, given, comments, halfway, parked>>,
         NEW a, w'["advisor"] = a, w'["student"] = w["student"], NEW s, s = Std,
         Heads(s)', Known(s)', Plans(a)', a.at # "settleResult",
         \A m \in Pulls : \/ Owes(a, m) \/ pulls'[m].state # "open"
                          \/ pulls'[m] = pulls[m] /\ ~ Owes(Adv, m)
  PROVE  RoutingParts'
<1>1. PICK out : out = halfway \cup parked /\ out = (halfway \cup parked)'
  OBVIOUS
<1>2. Between(s, a)'
  BY DEF Between, Matched
<1>3. Rested(s, a, out)'
  <2>1. \A m \in Pulls \ out : IsOpened(m) /\ ~ Owes(s, m) /\ ~ Owes(Adv, m) => Fits(m)
    BY <1>1 DEF RoutingParts, Rested
  <2>2. ASSUME NEW m \in Pulls \ out, IsOpened(m)', ~ Owes(s, m), ~ Owes(a, m) PROVE Fits(m)'
    <3>1. pulls'[m] = pulls[m] /\ ~ Owes(Adv, m)
      BY <2>2 DEF IsOpened
    <3>2. IsOpened(m) /\ Fits(m)
      BY <2>1, <2>2, <3>1 DEF IsOpened
    <3> QED  BY <3>1, <3>2 DEF Fits, HasResult, Results, Shows
  <2>3. Pulls' = Pulls
    BY DEF Pulls
  <2> QED  BY <2>2, <2>3 DEF Rested, Owes
<1>4. s = w'["student"] /\ a = w'["advisor"]
  BY DEF Std
<1> QED  BY <1>1, <1>2, <1>3, <1>4 DEF RoutingParts, Std, Adv

\* The call of the student, when the advisor writes.
LEMMA StudentKnows ==
  ASSUME IInv, RoutingParts, Std.at # "idle", Std.op = "submit"
  PROVE  Std.n \in Pulls /\ Std.n \in given /\ Std.rev \in Nat /\ pulls[Std.n].rev \in Nat
         /\ pulls[Std.n].state # "none" /\ branch[Std.n] # 0
BY SubmitFacts DEF Known, IInv, GitInv, BranchFirst

-----------------------------------------------------------------------------
\* The advisor's requests: for review only when there is a result, and then
\* no submission is restoring an older revision's work in progress.
LEMMA AdvisorRoutes ==
  ASSUME IInv, RoutingParts, faults = 0, faults' = 0, SetRouting("advisor")
  PROVE  RoutingParts'
<1>0. Adv.at \in RoutingSteps /\ Adv.at # "idle" /\ CallInv("advisor", Adv) /\ "advisor" \in Workers
  BY DEF SetRouting, SetDraft, AddLabels, RemoveLabel, At, RoutingSteps, IInv, Workers, Adv
<1>1. PICK c, n : c = Adv /\ n = Adv.n /\ c = w["advisor"] /\ n = c.n
  BY DEF Adv
<1>2. /\ Types /\ ShapeOf("advisor", c) /\ RoutingShape(c) /\ c.op \in Routing /\ n \in Pulls
  BY <1>0, <1>1, AdvisorFacts DEF RoutingSteps
<1>3. /\ c.op \in {"create", "repair", "revise"} /\ c.then \in {"recheck", "settle", "routed"}
      /\ Fields(c, {"at", "op", "n", "rev", "head"} \cup RoutingFields)
  BY <1>0, <1>1, <1>2, StepOps DEF CallInv, ShapeOf, RoutingShape, RoutingFields, Routing, Fields, StepsOf,
     UpsertSteps, RoutingSteps, ReconcileSteps
<1>4. Plans(c) /\ Heads(Std) /\ Known(Std)
  BY <1>1 DEF RoutingParts
<1>5. /\ c.draft \in BOOLEAN /\ Toward(c, ~ c.draft)
      /\ c.draft = FALSE => Has(n, pulls[n].rev, c.head)
  BY <1>0, <1>1, <1>4 DEF Plans
<1>6. c.remove \subseteq DOMAIN LabelOrder /\ (c.at = "remove" => c.remove # {}) /\ pulls[n].draft \in BOOLEAN
  BY <1>2, <1>4, <1>5 DEF Toward, Heads
<1>7. \/ ~ IsOpened(n) /\ Raises("advisor") /\ UNCHANGED <<gitHub, local>>
      \/ /\ UNCHANGED <<scope, given, comments, branch, halfway, parked>>
         /\ \E pull, later : /\ Requested(c, pull, later, pulls[n])
                             /\ w' = [w EXCEPT !["advisor"] = later]
                             /\ \A m \in Pulls : pulls'[m] = IF m = n THEN pull ELSE pulls[m]
  BY <1>0, <1>1, <1>5, <1>6, RequestGoes
<1>8. CASE ~ IsOpened(n) /\ Raises("advisor") /\ UNCHANGED <<gitHub, local>>
  BY <1>2, <1>8, AdvisorRaises
<1>9. CASE /\ UNCHANGED <<scope, given, comments, branch, halfway, parked>>
           /\ \E pull, later : /\ Requested(c, pull, later, pulls[n])
                               /\ w' = [w EXCEPT !["advisor"] = later]
                               /\ \A m \in Pulls : pulls'[m] = IF m = n THEN pull ELSE pulls[m]
  <2>1. PICK pull, a : /\ Requested(c, pull, a, pulls[n])
                       /\ w' = [w EXCEPT !["advisor"] = a]
                       /\ \A m \in Pulls : pulls'[m] = IF m = n THEN pull ELSE pulls[m]
    BY <1>9
  <2>2. PICK s : s = Std
    OBVIOUS
  <2>3. w'["advisor"] = a /\ w'["student"] = w["student"]
    BY <1>2, <2>1 DEF Types, Workers
  <2>4. /\ Pulls' = Pulls /\ UNCHANGED <<scope, given, comments, branch, halfway, parked>>
        /\ pulls'[n] = pull /\ \A m \in Pulls : m # n => pulls'[m] = pulls[m]
    BY <1>2, <1>9, <2>1 DEF Pulls
  <2>5. /\ pull.state = pulls[n].state /\ pull.rev = pulls[n].rev
        /\ pull.base = pulls[n].base /\ pull.head = pulls[n].head
        /\ pull.draft \in {pulls[n].draft, c.draft}
        /\ pulls[n].labels \ c.remove \subseteq pull.labels
        /\ pull.labels \subseteq pulls[n].labels \cup c.add
    BY <2>1 DEF Requested
  <2>6. /\ a.at \in RoutingSteps \cup {c.then} /\ a.add \subseteq c.add /\ a.remove \subseteq c.remove
        /\ a.at = "remove" => a.remove # {}
    BY <2>1 DEF Requested
  <2>7. /\ a.n = n /\ a.op = c.op /\ a.rev = c.rev /\ a.head = c.head /\ a.draft = c.draft /\ a.then = c.then
        /\ Fields(c, {"seen"}) => Fields(a, {"seen"}) /\ a.seen = c.seen
        /\ Fields(c, {"has"}) => Fields(a, {"has"}) /\ a.has = c.has
    BY <1>1, <1>3, <2>1 DEF Requested, Fields, RoutingFields
  <2>8. \A m, rev, head : Has(m, rev, head)' <=> Has(m, rev, head)
    BY <2>4 DEF Has, Results
  <2>9. Heads(s)'
    <3>1. pull.draft \in BOOLEAN
      BY <1>5, <1>6, <2>5
    <3>2. Heads(s)
      BY <1>4, <2>2
    <3> QED  BY <1>2, <2>4, <2>5, <3>1, <3>2 DEF Heads
  <2>10. Known(s)'
    <3>1. ASSUME s.at # "idle", s.op = "submit"
          PROVE  /\ s.rev \in Nat /\ pulls[s.n].rev \in Nat /\ pulls'[s.n].rev \in Nat
                 /\ branch'[s.n] = branch[s.n] /\ pulls'[s.n].head = pulls[s.n].head
                 /\ pulls[s.n].rev <= pulls'[s.n].rev
                 /\ pulls'[s.n].rev = pulls[s.n].rev => pulls'[s.n].base = pulls[s.n].base
                 /\ Restoring(s) /\ IsOpened(s.n)' =>
                      /\ IsOpened(s.n)
                      /\ pulls[s.n].draft = TRUE => pulls'[s.n].draft = TRUE
                      /\ "wip" \in pulls[s.n].labels => "wip" \in pulls'[s.n].labels
                      /\ "review" \in pulls'[s.n].labels => "review" \in pulls[s.n].labels
      <4>1. s.n \in Pulls /\ s.rev \in Nat /\ pulls[s.n].rev \in Nat
        BY <2>2, <3>1, StudentKnows
      <4>2. CASE s.n # n
        BY <2>4, <4>1, <4>2 DEF IsOpened
      <4>3. CASE s.n = n
        <5>1. ASSUME Restoring(s) PROVE Toward(c, FALSE) /\ c.draft = TRUE
          <6>1. s.rev < pulls[n].rev
            BY <1>4, <2>2, <3>1, <4>3, <5>1 DEF Known, Restored, Stale
          <6>2. ~ Has(n, pulls[n].rev, c.head)
            BY <1>4, <2>2, <3>1, <4>1, <4>3, <6>1, NoneNewer
          <6>3. c.draft = TRUE
            BY <1>5, <6>2
          <6> QED  BY <1>5, <6>3 DEF Toward
        <5>2. ASSUME Restoring(s)
              PROVE  /\ pulls[n].draft = TRUE => pull.draft = TRUE
                     /\ "wip" \in pulls[n].labels => "wip" \in pull.labels
                     /\ "review" \in pull.labels => "review" \in pulls[n].labels
          BY <2>5, <5>1, <5>2 DEF Toward
        <5>3. /\ pulls'[s.n] = pull /\ pull.state = pulls[s.n].state /\ pull.rev = pulls[s.n].rev
              /\ pull.base = pulls[s.n].base /\ pull.head = pulls[s.n].head
          BY <2>4, <2>5, <4>3
        <5>4. branch' = branch /\ (Restoring(s) /\ IsOpened(s.n)' => IsOpened(s.n))
          BY <2>4, <5>3 DEF IsOpened
        <5>5. Restoring(s) =>
                /\ pulls[s.n].draft = TRUE => pulls'[s.n].draft = TRUE
                /\ "wip" \in pulls[s.n].labels => "wip" \in pulls'[s.n].labels
                /\ "review" \in pulls'[s.n].labels => "review" \in pulls[s.n].labels
          BY <4>3, <5>2, <5>3
        <5> QED  BY <4>1, <5>3, <5>4, <5>5
      <4> QED  BY <4>2, <4>3
    <3>2. Known(s) /\ UNCHANGED <<given, comments>>
      BY <1>4, <2>2, <2>4
    <3> QED  BY <3>1, <3>2, KnownStays
  <2>11. Plans(a)'
    <3>1. a.at \in RoutingSteps => Toward(a, ~ a.draft)
      BY <1>5, <2>6, <2>7 DEF Toward
    <3>2. a.at \notin {"repairResult", "createConflicts", "createPull", "reconcile", "reconcileResult"}
      BY <1>3, <2>6 DEF RoutingSteps
    <3>3. c.draft = FALSE => Has(n, pulls[n].rev, a.head)'
      BY <1>5, <2>4, <2>5, <2>7, <2>8
    <3>4. /\ c.op = "repair" => c.rev = pulls[n].rev
          /\ c.op = "create" => c.head = 1
          /\ c.op = "revise" =>
               /\ c.head \in Nat /\ c.head <= pulls[n].head
               /\ Fields(c, {"seen"}) /\ c.seen.rev = pulls[n].rev /\ c.seen.base = pulls[n].base
               /\ c.seen.head = c.head
               /\ Fields(c, {"has"}) /\ c.has \in BOOLEAN /\ (c.has => Has(n, pulls[n].rev, c.head))
      BY <1>0, <1>1, <1>4 DEF Plans, RoutingSteps, ReconcileSteps
    <3>5. a.op = "revise" =>
               /\ a.head \in Nat /\ a.head <= pulls'[n].head
               /\ Fields(a, {"seen"}) /\ a.seen.rev = pulls'[n].rev /\ a.seen.base = pulls'[n].base
               /\ a.seen.head = a.head
               /\ Fields(a, {"has"}) /\ a.has \in BOOLEAN /\ (a.has => Has(n, pulls[n].rev, a.head)')
      BY <2>4, <2>5, <2>7, <2>8, <3>4
    <3>6. (a.op = "repair" => a.rev = pulls'[n].rev) /\ (a.op = "create" => a.head = 1)
      BY <2>4, <2>5, <2>7, <3>4
    <3>7. PICK m : m = a.n /\ m = n
      BY <2>7
    <3>8. a.draft \in BOOLEAN /\ a.draft = c.draft
      BY <1>5, <2>7
    <3>9. a.at \in RoutingSteps => Toward(a, ~ a.draft)'
      BY <3>1 DEF Toward
    <3>10. a.at \in RoutingSteps \cup {"routed"} /\ a.draft = FALSE => Has(m, pulls[m].rev, a.head)'
      BY <3>3, <3>7, <3>8
    <3>11. a.op = "revise" =>
             /\ a.head \in Nat /\ a.head <= pulls'[m].head
             /\ Fields(a, {"seen"}) /\ a.seen.rev = pulls'[m].rev /\ a.seen.base = pulls'[m].base
             /\ a.seen.head = a.head
             /\ Fields(a, {"has"}) /\ a.has \in BOOLEAN /\ (a.has => Has(m, pulls[m].rev, a.head)')
      BY <3>5, <3>7
    <3>12. a.op = "repair" => a.rev = pulls'[m].rev
      BY <3>6, <3>7
    <3> QED  BY <3>2, <3>6, <3>7, <3>8, <3>9, <3>10, <3>11, <3>12 DEF Plans
  <2>12. a.at # "settleResult"
    BY <1>3, <2>6 DEF RoutingSteps
  <2>13. Owes(a, n) /\ Owes(c, n) /\ \A m : m # n => ~ Owes(c, m)
    BY <1>0, <1>1, <1>2, <1>3, <2>6, <2>7 DEF Owes, Unwritten, RoutingSteps
  <2>14. \A m \in Pulls : \/ Owes(a, m) \/ pulls'[m].state # "open"
                          \/ pulls'[m] = pulls[m] /\ ~ Owes(Adv, m)
    BY <1>1, <2>4, <2>13
  <2>15. UNCHANGED <<scope, given, comments, halfway, parked>>
    BY <2>4
  <2> QED  BY <2>2, <2>3, <2>9, <2>10, <2>11, <2>12, <2>14, <2>15, AdvisorWrites
<1> QED  BY <1>7, <1>8, <1>9

-----------------------------------------------------------------------------
\* A newer revision, or a pull request that is no longer open, disturbs
\* nothing that the student's submission knows.
LEMMA PatchStays ==
  ASSUME IInv, RoutingParts, UNCHANGED <<scope, given, comments, branch>>,
         NEW n \in Pulls, NEW pull, \A m \in Pulls : pulls'[m] = IF m = n THEN pull ELSE pulls[m],
         pull.head = pulls[n].head, pull.draft = pulls[n].draft, pull.labels = pulls[n].labels,
         pulls[n].state # "none", pull.state # "none", pull.state = "open" => pulls[n].state = "open",
         pull.rev \in Nat, pulls[n].rev <= pull.rev,
         pull.rev = pulls[n].rev => pull.base = pulls[n].base
  PROVE  \A s : s = Std => Heads(s)' /\ Known(s)'
<1> SUFFICES ASSUME NEW s, s = Std PROVE Heads(s)' /\ Known(s)'
  OBVIOUS
<1>1. Pulls' = Pulls /\ Heads(s) /\ Known(s) /\ UNCHANGED <<given, comments>>
  BY DEF Pulls, RoutingParts
<1>2. Heads(s)'
  <2>1. \A m \in Pulls : /\ pulls'[m].head = pulls[m].head /\ pulls'[m].draft = pulls[m].draft
                         /\ pulls'[m].state # "none" => pulls[m].state # "none"
                         /\ m \in given => pulls'[m].state # "none"
    BY <1>1 DEF Heads
  <2> QED  BY <1>1, <2>1 DEF Heads
<1>3. ASSUME s.at # "idle", s.op = "submit"
      PROVE  /\ s.rev \in Nat /\ pulls[s.n].rev \in Nat /\ pulls'[s.n].rev \in Nat
             /\ branch'[s.n] = branch[s.n] /\ pulls'[s.n].head = pulls[s.n].head
             /\ pulls[s.n].rev <= pulls'[s.n].rev
             /\ pulls'[s.n].rev = pulls[s.n].rev => pulls'[s.n].base = pulls[s.n].base
             /\ Restoring(s) /\ IsOpened(s.n)' =>
                  /\ IsOpened(s.n)
                  /\ pulls[s.n].draft = TRUE => pulls'[s.n].draft = TRUE
                  /\ "wip" \in pulls[s.n].labels => "wip" \in pulls'[s.n].labels
                  /\ "review" \in pulls'[s.n].labels => "review" \in pulls[s.n].labels
  <2>1. s.n \in Pulls /\ s.rev \in Nat /\ pulls[s.n].rev \in Nat
    BY <1>3, StudentKnows
  <2>2. pulls'[s.n] = IF s.n = n THEN pull ELSE pulls[s.n]
    BY <2>1
  <2>3. /\ pulls'[s.n].head = pulls[s.n].head /\ pulls'[s.n].draft = pulls[s.n].draft
        /\ pulls'[s.n].labels = pulls[s.n].labels
        /\ pulls'[s.n].state = "open" => pulls[s.n].state = "open"
        /\ pulls'[s.n].rev \in Nat /\ pulls[s.n].rev <= pulls'[s.n].rev
        /\ pulls'[s.n].rev = pulls[s.n].rev => pulls'[s.n].base = pulls[s.n].base
    BY <2>1, <2>2
  <2> QED  BY <2>1, <2>3 DEF IsOpened
<1>4. Known(s)'
  BY <1>1, <1>3, KnownStays
<1> QED  BY <1>2, <1>4

\* What the advisor's call is when it writes.
LEMMA AdvisorCall ==
  ASSUME IInv, RoutingParts, Adv.at \in {"patch", "close", "createPull", "put"}
  PROVE  /\ Adv.at # "idle" /\ Types /\ ShapeOf("advisor", Adv) /\ Adv.n \in Pulls /\ "at" \in DOMAIN Adv
         /\ Adv.op = CASE Adv.at = "patch" -> "revise" [] Adv.at = "close" -> "close"
                       [] Adv.at = "createPull" -> "create" [] OTHER -> "merge"
         /\ Fields(Adv, {"at", "op", "n", "rev", "head"})
         /\ Existing(Adv) /\ Revising(Adv) /\ Creating(Adv) /\ Plans(Adv)
         /\ \A m : ~ Owes(Adv, m)
<1>1. Adv.at # "idle" /\ CallInv("advisor", Adv) /\ Types
  BY AdvisorFacts
<1>2. ShapeOf("advisor", Adv) /\ Existing(Adv) /\ Revising(Adv) /\ Creating(Adv) /\ "at" \in DOMAIN Adv
  BY <1>1 DEF CallInv
<1>3. Adv.op = CASE Adv.at = "patch" -> "revise" [] Adv.at = "close" -> "close"
                 [] Adv.at = "createPull" -> "create" [] OTHER -> "merge"
  BY <1>2, StepOps DEF ShapeOf, MergeSteps
<1>4. \A m : ~ Owes(Adv, m)
  BY <1>3 DEF Owes, Unwritten, Routing
<1> QED  BY <1>1, <1>2, <1>3, <1>4 DEF ShapeOf, Fields, RoutingParts

\* A new revision: an older one's submission is stale from now on.
LEMMA PatchRoutes ==
  ASSUME IInv, RoutingParts, faults = 0, faults' = 0, PatchRevision("advisor")
  PROVE  RoutingParts'
<1>0. PICK c, n : c = Adv /\ n = Adv.n /\ c = w["advisor"]
  BY DEF Adv
<1>1. /\ c.at = "patch" /\ UNCHANGED <<history, local>> /\ To("advisor", "patched")
      /\ PullChanges(n, [pulls[n] EXCEPT !.rev = c.new, !.base = c.base])
  BY <1>0 DEF PatchRevision, At, Sent, Pull
<1>2. /\ Types /\ n \in Pulls /\ c.op = "revise" /\ Fields(c, {"at", "op", "n", "rev", "head"})
      /\ Existing(c) /\ Revising(c) /\ Plans(c) /\ \A m : ~ Owes(c, m)
  BY <1>0, <1>1, AdvisorCall
<1>3. PICK a : a = [c EXCEPT !.at = "patched"] /\ w' = [w EXCEPT !["advisor"] = a]
  BY <1>0, <1>1 DEF To
<1>4. w'["advisor"] = a /\ w'["student"] = w["student"]
  BY <1>2, <1>3 DEF Types, Workers
<1>5. /\ a.at = "patched" /\ a.op = "revise" /\ a.n = n /\ a.head = c.head
  BY <1>0, <1>2, <1>3 DEF Fields
<1>6. PICK pull : pull = [pulls[n] EXCEPT !.rev = c.new, !.base = c.base]
  OBVIOUS
<1>7. /\ UNCHANGED <<scope, given, comments, branch, halfway, parked>> /\ Pulls' = Pulls
      /\ \A m \in Pulls : pulls'[m] = IF m = n THEN pull ELSE pulls[m]
  BY <1>1, <1>2, <1>6 DEF PullChanges, Types, history, local, Pulls
<1>8. /\ pull.state = pulls[n].state /\ pull.head = pulls[n].head /\ pull.draft = pulls[n].draft
      /\ pull.labels = pulls[n].labels /\ pull.rev = c.new
  BY <1>2, <1>6 DEF Types, PullShape
<1>9. pulls[n].state # "none" /\ c.new \in Nat /\ c.new > pulls[n].rev /\ pulls[n].rev \in Nat
  BY <1>0, <1>1, <1>2 DEF Existing, Revising, Types, PullShape
<1>10. PICK s : s = Std
  OBVIOUS
<1>11. UNCHANGED <<scope, given, comments, branch>> /\ UNCHANGED <<scope, given, comments, halfway, parked>>
  BY <1>7
<1>12. Heads(s)' /\ Known(s)'
  BY <1>2, <1>7, <1>8, <1>9, <1>10, <1>11, PatchStays
<1>13. Plans(a)'
  <2>1. c.head \in Nat /\ c.head <= pulls[n].head
    BY <1>0, <1>1, <1>2 DEF Plans
  <2>2. a.head \in Nat /\ a.head <= pulls'[a.n].head
    BY <1>2, <1>5, <1>7, <1>8, <2>1
  <2> QED  BY <1>5, <2>2 DEF Plans, RoutingSteps, ReconcileSteps
<1>14. Owes(a, n)
  BY <1>5 DEF Owes, Unwritten, Routing
<1>15. \A m \in Pulls : \/ Owes(a, m) \/ pulls'[m].state # "open"
                        \/ pulls'[m] = pulls[m] /\ ~ Owes(Adv, m)
  BY <1>0, <1>2, <1>7, <1>14
<1> QED  BY <1>4, <1>5, <1>10, <1>11, <1>12, <1>13, <1>15, AdvisorWrites

\* A closed pull request has no routing.
LEMMA ClosingRoutes ==
  ASSUME IInv, RoutingParts, faults = 0, faults' = 0, PatchClosed("advisor")
  PROVE  RoutingParts'
<1>0. PICK c, n : c = Adv /\ n = Adv.n /\ c = w["advisor"]
  BY DEF Adv
<1>1. /\ c.at = "close" /\ UNCHANGED <<history, local>> /\ To("advisor", "closed")
      /\ PullChanges(n, [pulls[n] EXCEPT !.state = "closed"])
  BY <1>0 DEF PatchClosed, At, Sent, Pull
<1>2. /\ Types /\ n \in Pulls /\ c.op = "close" /\ Fields(c, {"at", "op", "n", "rev", "head"})
      /\ Existing(c) /\ \A m : ~ Owes(c, m)
  BY <1>0, <1>1, AdvisorCall
<1>3. PICK a : a = [c EXCEPT !.at = "closed"] /\ w' = [w EXCEPT !["advisor"] = a]
  BY <1>0, <1>1 DEF To
<1>4. w'["advisor"] = a /\ w'["student"] = w["student"]
  BY <1>2, <1>3 DEF Types, Workers
<1>5. a.at = "closed" /\ a.op = "close"
  BY <1>2, <1>3 DEF Fields
<1>6. PICK pull : pull = [pulls[n] EXCEPT !.state = "closed"]
  OBVIOUS
<1>7. /\ UNCHANGED <<scope, given, comments, branch, halfway, parked>> /\ Pulls' = Pulls
      /\ \A m \in Pulls : pulls'[m] = IF m = n THEN pull ELSE pulls[m]
  BY <1>1, <1>2, <1>6 DEF PullChanges, Types, history, local, Pulls
<1>8. /\ pull.state = "closed" /\ pull.head = pulls[n].head /\ pull.draft = pulls[n].draft
      /\ pull.labels = pulls[n].labels /\ pull.rev = pulls[n].rev /\ pull.base = pulls[n].base
  BY <1>2, <1>6 DEF Types, PullShape
<1>9. pulls[n].state # "none" /\ pulls[n].rev \in Nat
  BY <1>0, <1>2 DEF Existing, Types, PullShape
<1>10. PICK s : s = Std
  OBVIOUS
<1>11. UNCHANGED <<scope, given, comments, branch>> /\ UNCHANGED <<scope, given, comments, halfway, parked>>
  BY <1>7
<1>12. Heads(s)' /\ Known(s)'
  BY <1>2, <1>7, <1>8, <1>9, <1>10, <1>11, PatchStays
<1>13. Plans(a)'
  BY <1>5 DEF Plans, RoutingSteps
<1>14. \A m \in Pulls : \/ Owes(a, m) \/ pulls'[m].state # "open"
                        \/ pulls'[m] = pulls[m] /\ ~ Owes(Adv, m)
  BY <1>0, <1>2, <1>7, <1>8
<1> QED  BY <1>4, <1>5, <1>10, <1>11, <1>12, <1>13, <1>14, AdvisorWrites

\* Neither has a merged one.
LEMMA PutRoutes ==
  ASSUME IInv, RoutingParts, faults = 0, faults' = 0, PutMerge("advisor")
  PROVE  RoutingParts'
<1>0. PICK c, n : c = Adv /\ n = Adv.n /\ c = w["advisor"]
  BY DEF Adv
<1>1. c.at = "put" /\ Refuses("advisor") /\ UNCHANGED local
  BY <1>0 DEF PutMerge, At
<1>2. Types /\ n \in Pulls /\ \A m : ~ Owes(c, m)
  BY <1>0, <1>1, AdvisorCall
<1>3. CASE UNCHANGED gitHub
  BY <1>0, <1>1, <1>2, <1>3, AdvisorRefuses
<1>4. CASE /\ pulls[n].state = "open" /\ pulls' = [pulls EXCEPT ![n].state = "merged"]
           /\ UNCHANGED <<comments, branch>>
  <2>1. PICK a : a = Idle /\ w' = [w EXCEPT !["advisor"] = a]
    BY <1>1 DEF Refuses, Becomes
  <2>2. w'["advisor"] = a /\ w'["student"] = w["student"] /\ a.at = "idle"
    BY <1>2, <2>1 DEF Types, Workers, Idle
  <2>3. PICK pull : pull = [pulls[n] EXCEPT !.state = "merged"]
    OBVIOUS
  <2>4. /\ UNCHANGED <<scope, given, comments, branch, halfway, parked>> /\ Pulls' = Pulls
        /\ \A m \in Pulls : pulls'[m] = IF m = n THEN pull ELSE pulls[m]
    BY <1>1, <1>2, <1>4, <2>3 DEF Types, Refuses, history, local, Pulls
  <2>5. /\ pull.state = "merged" /\ pull.head = pulls[n].head /\ pull.draft = pulls[n].draft
        /\ pull.labels = pulls[n].labels /\ pull.rev = pulls[n].rev /\ pull.base = pulls[n].base
    BY <1>2, <2>3 DEF Types, PullShape
  <2>6. pulls[n].state # "none" /\ pulls[n].rev \in Nat
    BY <1>2, <1>4 DEF Types, PullShape
  <2>7. PICK s : s = Std
    OBVIOUS
  <2>8. UNCHANGED <<scope, given, comments, branch>> /\ UNCHANGED <<scope, given, comments, halfway, parked>>
    BY <2>4
  <2>9. Heads(s)' /\ Known(s)'
    BY <1>2, <2>4, <2>5, <2>6, <2>7, <2>8, PatchStays
  <2>10. Plans(a)'
    BY <2>2 DEF Plans, RoutingSteps
  <2>11. \A m \in Pulls : \/ Owes(a, m) \/ pulls'[m].state # "open"
                          \/ pulls'[m] = pulls[m] /\ ~ Owes(Adv, m)
    BY <1>0, <1>2, <2>4, <2>5
  <2> QED  BY <2>2, <2>7, <2>8, <2>9, <2>10, <2>11, AdvisorWrites
<1> QED  BY <1>0, <1>3, <1>4 DEF PutMerge, Sent, IsOpen, Pull

-----------------------------------------------------------------------------
\* A new pull request is for no submission, and shows work in progress once
\* its creation is done.
LEMMA CreatePullRoutes ==
  ASSUME IInv, RoutingParts, faults = 0, faults' = 0, CreatePull("advisor")
  PROVE  RoutingParts'
<1>0. PICK c, n : c = Adv /\ n = Adv.n /\ c = w["advisor"]
  BY DEF Adv
<1>1. /\ c.at = "createPull" /\ UNCHANGED <<history, local>> /\ To("advisor", "created")
      /\ PullChanges(n, Opened(c.base, c.head))
  BY <1>0 DEF CreatePull, At, Sent
<1>2. /\ Types /\ n \in Pulls /\ c.op = "create" /\ Fields(c, {"at", "op", "n", "rev", "head"})
      /\ Creating(c) /\ Plans(c) /\ \A m : ~ Owes(c, m)
  BY <1>0, <1>1, AdvisorCall
<1>3. PICK a : a = [c EXCEPT !.at = "created"] /\ w' = [w EXCEPT !["advisor"] = a]
  BY <1>0, <1>1 DEF To
<1>4. w'["advisor"] = a /\ w'["student"] = w["student"]
  BY <1>2, <1>3 DEF Types, Workers
<1>5. /\ a.at = "created" /\ a.op = "create" /\ a.n = n /\ a.head = c.head
  BY <1>0, <1>2, <1>3 DEF Fields
<1>6. PICK pull, yes : pull = [Opened(c.base, c.head) EXCEPT !.draft = yes] /\ yes = TRUE
  OBVIOUS
<1>7. pull = Opened(c.base, c.head) /\ pull.head = c.head /\ pull.draft \in BOOLEAN /\ pull.state = "open"
  BY <1>6 DEF Opened
<1>8. /\ UNCHANGED <<scope, given, comments, branch, halfway, parked>> /\ Pulls' = Pulls
      /\ \A m \in Pulls : pulls'[m] = IF m = n THEN pull ELSE pulls[m]
  BY <1>1, <1>2, <1>7 DEF PullChanges, Types, history, local, Pulls
<1>9. pulls[n].state = "none" /\ c.head = 1 /\ branch[n] = 1
  BY <1>0, <1>1, <1>2 DEF Creating, Plans
<1>10. PICK s : s = Std
  OBVIOUS
<1>11. Heads(s) /\ Known(s) /\ UNCHANGED <<given, comments>>
       /\ UNCHANGED <<scope, given, comments, halfway, parked>>
  BY <1>8, <1>10 DEF RoutingParts
<1>12. n \notin given /\ \A d \in comments[n] : d.mark.kind # "result"
  BY <1>2, <1>9, <1>11 DEF Heads, IInv, GitInv, ResultsBuilt, ContainsRequired
<1>13. Heads(s)'
  <2>1. /\ pulls'[n].head = 1 /\ pulls'[n].draft \in BOOLEAN /\ pulls'[n].head <= branch'[n]
        /\ pulls'[n].head = branch'[n]
    BY <1>2, <1>7, <1>8, <1>9
  <2> QED  BY <1>8, <1>11, <1>12, <2>1 DEF Heads
<1>14. ASSUME s.at # "idle", s.op = "submit"
      PROVE  /\ s.rev \in Nat /\ pulls[s.n].rev \in Nat /\ pulls'[s.n].rev \in Nat
             /\ branch'[s.n] = branch[s.n] /\ pulls'[s.n].head = pulls[s.n].head
             /\ pulls[s.n].rev <= pulls'[s.n].rev
             /\ pulls'[s.n].rev = pulls[s.n].rev => pulls'[s.n].base = pulls[s.n].base
             /\ Restoring(s) /\ IsOpened(s.n)' =>
                  /\ IsOpened(s.n)
                  /\ pulls[s.n].draft = TRUE => pulls'[s.n].draft = TRUE
                  /\ "wip" \in pulls[s.n].labels => "wip" \in pulls'[s.n].labels
                  /\ "review" \in pulls'[s.n].labels => "review" \in pulls[s.n].labels
  <2>1. s.n \in Pulls /\ s.rev \in Nat /\ pulls[s.n].rev \in Nat /\ s.n \in given
    BY <1>10, <1>14, StudentKnows
  <2>2. pulls'[s.n] = pulls[s.n]
    BY <1>8, <1>12, <2>1
  <2> QED  BY <1>8, <2>1, <2>2 DEF IsOpened
<1>15. Known(s)'
  BY <1>11, <1>14, KnownStays
<1>16. Plans(a)'
  BY <1>5, <1>9 DEF Plans, RoutingSteps
<1>17. Owes(a, n)
  BY <1>5 DEF Owes, Unwritten, Routing
<1>18. \A m \in Pulls : \/ Owes(a, m) \/ pulls'[m].state # "open"
                        \/ pulls'[m] = pulls[m] /\ ~ Owes(Adv, m)
  BY <1>0, <1>2, <1>8, <1>17
<1> QED  BY <1>4, <1>5, <1>10, <1>11, <1>13, <1>15, <1>16, <1>18, AdvisorWrites

\* A new branch is no assignment that the student has.
LEMMA CreateAssignmentRoutes ==
  ASSUME IInv, RoutingParts, NEW n \in Pulls, CreateAssignment(n)
  PROVE  RoutingParts'
<1>1. PICK a : /\ w' = [w EXCEPT !["advisor"] = a]
               /\ a = [at |-> "createConflicts", op |-> "create", n |-> n, rev |-> 1,
                       head |-> 1, base |-> live]
  BY DEF CreateAssignment, Becomes
<1>2. /\ Types /\ Adv.at = "idle" /\ UNCHANGED <<scope, given, comments, halfway, parked, pulls>>
      /\ branch' = [branch EXCEPT ![n] = 1] /\ branch[n] \in {0, 1} /\ Pulls' = Pulls
  BY DEF IInv, GitInv, CreateAssignment, Calls, At, Adv, history, Pulls
<1>3. w'["advisor"] = a /\ w'["student"] = w["student"]
  BY <1>1, <1>2 DEF Types, Workers
<1>4. /\ \A m \in Pulls : m # n => branch'[m] = branch[m]
      /\ branch'[n] = 1 /\ (branch[n] = 0 => pulls[n].state = "none" /\ n \notin given)
  BY <1>2 DEF Types, IInv, GitInv, BranchFirst
<1>5. \A m \in Pulls : m \in given \/ pulls[m].state # "none" => branch'[m] = branch[m]
  BY <1>2, <1>4
<1>6. PICK s : s = Std
  OBVIOUS
<1>7. Heads(s) /\ Known(s) /\ UNCHANGED <<given, comments>>
       /\ UNCHANGED <<scope, given, comments, halfway, parked>>
  BY <1>2, <1>6 DEF RoutingParts
<1>8. Heads(s)'
  BY <1>2, <1>5, <1>7 DEF Heads
<1>9. ASSUME s.at # "idle", s.op = "submit"
      PROVE  /\ s.rev \in Nat /\ pulls[s.n].rev \in Nat /\ pulls'[s.n].rev \in Nat
             /\ branch'[s.n] = branch[s.n] /\ pulls'[s.n].head = pulls[s.n].head
             /\ pulls[s.n].rev <= pulls'[s.n].rev
             /\ pulls'[s.n].rev = pulls[s.n].rev => pulls'[s.n].base = pulls[s.n].base
             /\ Restoring(s) /\ IsOpened(s.n)' =>
                  /\ IsOpened(s.n)
                  /\ pulls[s.n].draft = TRUE => pulls'[s.n].draft = TRUE
                  /\ "wip" \in pulls[s.n].labels => "wip" \in pulls'[s.n].labels
                  /\ "review" \in pulls'[s.n].labels => "review" \in pulls[s.n].labels
  <2>1. s.n \in Pulls /\ s.rev \in Nat /\ pulls[s.n].rev \in Nat /\ s.n \in given
    BY <1>6, <1>9, StudentKnows
  <2>2. pulls'[s.n] = pulls[s.n] /\ branch'[s.n] = branch[s.n]
    BY <1>2, <1>5, <2>1
  <2> QED  BY <2>1, <2>2 DEF IsOpened
<1>10. Known(s)'
  BY <1>7, <1>9, KnownStays
<1>11. Plans(a)'
  BY <1>1, <1>4 DEF Plans, RoutingSteps
<1>12. a.at # "settleResult" /\ \A m : ~ Owes(Adv, m)
  BY <1>1, <1>2 DEF Owes, Unwritten
<1>13. \A m \in Pulls : \/ Owes(a, m) \/ pulls'[m].state # "open"
                        \/ pulls'[m] = pulls[m] /\ ~ Owes(Adv, m)
  BY <1>2, <1>12
<1> QED  BY <1>3, <1>6, <1>7, <1>8, <1>10, <1>11, <1>12, <1>13, AdvisorWrites

\* The advisor's comments are no results.
LEMMA AdvisorPosts ==
  ASSUME IInv, ScopesAssumption, RoutingParts, faults = 0, faults' = 0,
         PostComment("advisor") \/ EditComment("advisor")
  PROVE  RoutingParts'
<1>0. PICK c : c = Adv /\ c = w["advisor"]
  BY DEF Adv
<1>1. c.at \in {"post", "edit"} /\ c.at # "idle" /\ "advisor" \in Workers /\ Types
  BY <1>0 DEF PostComment, EditComment, At, IInv, GitInv, Workers
<1>2. ShapeOf("advisor", c) /\ Plans(c) /\ "at" \in DOMAIN c
  BY <1>0, <1>1, AdvisorFacts DEF CallInv, RoutingParts
<1>3. c.op # "submit" /\ Fields(c, {"at", "op", "n"}) /\ (c.op = "revise" => Fields(c, {"rev", "head"}))
      /\ (c.op = "revise" => c.n \in Pulls) /\ c.op \notin {"create", "repair"}
  BY <1>1, <1>2, StepOps DEF ShapeOf, Fields, StepsOf, UpsertSteps
<1>4. /\ UNCHANGED <<pulls, branch, scope, given, halfway, parked>> /\ To("advisor", "verifyPost")
      /\ \A m \in Pulls : /\ comments[m] \subseteq comments'[m]
                          /\ \A d \in comments'[m] \ comments[m] : d.mark.kind # "result"
  BY <1>0, <1>1, <1>3, PostTells
<1>5. PICK a : a = [c EXCEPT !.at = "verifyPost"] /\ w' = [w EXCEPT !["advisor"] = a]
  BY <1>0, <1>4 DEF To
<1>6. w'["advisor"] = a /\ w'["student"] = w["student"]
  BY <1>1, <1>5 DEF Types, Workers
<1>7. /\ a.at = "verifyPost" /\ a.op = c.op /\ a.n = c.n /\ (c.op = "revise" => a.head = c.head)
  BY <1>3, <1>5 DEF Fields
<1>8. Plans(a)
  BY <1>1, <1>2, <1>3, <1>7 DEF Plans, RoutingSteps, ReconcileSteps
<1>9. PICK s, out : s = Std /\ out = halfway \cup parked
  OBVIOUS
<1>10. ~ Matched(a) /\ \A m : Owes(a, m) <=> Owes(c, m)
  BY <1>1, <1>7 DEF Matched, Owes, Unwritten
<1>11. Between(s, a) /\ Rested(s, a, out) /\ Heads(s) /\ Known(s)
  BY <1>0, <1>9, <1>10 DEF Between, Rested, RoutingParts
<1>12. a.at # "idle" => a.n \in Pulls \/ a.op \notin Routing
  BY <1>2, <1>3, <1>7 DEF Routing
<1>13. a.at \in RoutingSteps \cup {"routed"} => a.op \in Routing
  BY <1>7 DEF RoutingSteps
<1>14. UNCHANGED <<scope, given, pulls, branch>>
  BY <1>4
<1>15. Heads(s)' /\ Known(s)' /\ Plans(a)' /\ Between(s, a)' /\ Rested(s, a, out)'
  BY <1>4, <1>8, <1>9, <1>11, <1>12, <1>13, <1>14, TellingStays
<1>16. s = w'["student"] /\ a = w'["advisor"] /\ out = (halfway \cup parked)'
  BY <1>4, <1>6, <1>9 DEF Std
<1> QED  BY <1>15, <1>16 DEF RoutingParts, Std, Adv

-----------------------------------------------------------------------------
(* Every step keeps what routing depends on, as long as nothing is lost.   *)

\* All steps of the advisor.
LEMMA AdvisorActs ==
  ASSUME IInv, ScopesAssumption, RoutingParts, faults = 0, faults' = 0, Advisor
  PROVE  RoutingParts'
<1>1. CASE Upsert("advisor")
  BY <1>1, AdvisorFinds, AdvisorPosts DEF Upsert
<1>2. CASE SetRouting("advisor")
  BY <1>2, AdvisorRoutes
<1>3. CASE ReconcileRouting("advisor")
  BY <1>3, AdvisorReconciles
<1>4. CASE Revise("advisor")
  BY <1>4, ReviseRoutes, PatchRoutes DEF Revise
<1>5. CASE Accept("advisor")
  BY <1>5, DecisionRoutes
<1>6. CASE Merge("advisor")
  BY <1>6, DecisionRoutes, PutRoutes DEF Merge
<1>7. CASE Close("advisor")
  BY <1>7, DecisionRoutes, ClosingRoutes DEF Close
<1>8. CASE CreateOrRepair("advisor")
  BY <1>8, CreateConflictsRoutes, CreatePullRoutes, CreatedRoutes, RepairResultRoutes, VerifiedRoutes
     DEF CreateOrRepair
<1> QED  BY <1>1, <1>2, <1>3, <1>4, <1>5, <1>6, <1>7, <1>8 DEF Advisor

\* All calls.
LEMMA CallsRoute ==
  ASSUME IInv, RoutingParts, NEW n \in Pulls, StudentCalls(n) \/ AdvisorCalls(n)
  PROVE  RoutingParts'
<1>0. "student" \in Workers /\ "advisor" \in Workers
  BY DEF Workers
<1>1. CASE StudentCalls(n)
  <2>1. ASSUME NEW head, NEW text, PreflightSubmit(n, head, text) PROVE RoutingParts'
    BY <2>1, PreflightRoutes
  <2>2. ASSUME NEW id, NEW text, PostAssignmentComment(n, id, text) PROVE RoutingParts'
    BY <1>0, <2>2, MessageRoutes DEF PostAssignmentComment
  <2> QED  BY <1>1, <2>1, <2>2 DEF StudentCalls
<1>2. CASE AdvisorCalls(n)
  <2>1. CASE CreateAssignment(n)
    BY <2>1, CreateAssignmentRoutes
  <2>2. ASSUME NEW base, \/ AcceptResult(n, base) \/ MergeExperiment(n, base) \/ CloseExperiment(n)
                         \/ RequestRevision(n, base) \/ RequestRevisionAgain(n)
        PROVE  RoutingParts'
    BY <2>2, DecisionRoutingStarts, RevisionRoutes
  <2>3. ASSUME NEW status \in Active, NEW blockers \in SUBSET {"hold"},
               RepairRouting(n, {status} \cup blockers)
        PROVE  RoutingParts'
    BY <2>3, RepairRoutingStarts
  <2>4. ASSUME NEW id, NEW text, SendAssignmentFeedback(n, id, text) PROVE RoutingParts'
    BY <1>0, <2>4, MessageRoutes DEF SendAssignmentFeedback
  <2>5. CASE CloseExperiment(n) \/ RequestRevisionAgain(n)
    BY <2>2, <2>5
  <2>6. CASE \E base \in 1..live :
               RequestRevision(n, base) \/ AcceptResult(n, base) \/ MergeExperiment(n, base)
    BY <2>2, <2>6
  <2> QED  BY <1>2, <2>1, <2>3, <2>4, <2>5, <2>6 DEF AdvisorCalls
<1> QED  BY <1>1, <1>2

\* The student's mailbox, its checkout and the research base.
LEMMA SurroundingsRoute ==
  ASSUME IInv, RoutingParts, UNCHANGED <<scope, pulls, comments, branch, w, halfway, parked>>,
         given \subseteq given', \A n \in given' \ given : pulls[n].state # "none"
  PROVE  RoutingParts'
<1>1. PICK s, a, out : s = Std /\ a = Adv /\ out = halfway \cup parked
  OBVIOUS
<1>2. Heads(s) /\ Known(s) /\ Plans(a) /\ Between(s, a) /\ Rested(s, a, out)
  BY <1>1 DEF RoutingParts
<1>3. Heads(s)' /\ Known(s)' /\ Plans(a)' /\ Between(s, a)' /\ Rested(s, a, out)'
  BY <1>2, ViewsStay
<1>4. s = Std' /\ a = Adv' /\ out = (halfway \cup parked)'
  BY <1>1 DEF Std, Adv
<1> QED  BY <1>3, <1>4 DEF RoutingParts

\* Assignments that are there from the start are work in progress.
LEMMA InitRoutes ==
  ASSUME Init
  PROVE  RoutingParts
<1>1. Std = Idle /\ Adv = Idle /\ Idle.at = "idle"
  BY DEF Init, Workers, Std, Adv, Idle
<1>2. ASSUME NEW n \in Pulls
      PROVE  /\ pulls[n].head \in Nat /\ pulls[n].draft \in BOOLEAN /\ comments[n] = {}
             /\ n \in given <=> n \in scope.made
             /\ n \in scope.made => pulls[n].state = "open" /\ branch[n] = 1 /\ pulls[n].head = 1
                                    /\ pulls[n].draft = TRUE /\ pulls[n].labels = {"wip"}
             /\ n \notin scope.made => pulls[n].state = "none"
  <2>1. /\ pulls[n] = IF n \in scope.made THEN [Opened(1, 1) EXCEPT !.labels = {"wip"}] ELSE NoPull
        /\ branch[n] = (IF n \in scope.made THEN 1 ELSE 0)
        /\ comments[n] = {} /\ given = scope.made
    BY DEF Init
  <2> QED  BY <2>1 DEF Opened, NoPull
<1>3. Heads(Idle)
  <2>1. ASSUME NEW n \in Pulls
        PROVE  /\ n \in given => pulls[n].state # "none"
               /\ pulls[n].state # "none" => pulls[n].head <= branch[n] /\ pulls[n].head = branch[n]
    <3>1. CASE n \in scope.made
      <4>1. pulls[n].state = "open" /\ branch[n] = 1 /\ pulls[n].head = 1
        BY <1>2, <3>1
      <4> QED  BY <4>1
    <3>2. CASE n \notin scope.made
      BY <1>2, <3>2
    <3> QED  BY <3>1, <3>2
  <2> QED  BY <1>2, <2>1 DEF Heads
<1>4. Known(Idle) /\ Plans(Idle) /\ Between(Idle, Idle)
  BY <1>1 DEF Known, Plans, Between, Matched, RoutingSteps
<1>5. ASSUME NEW n \in Pulls, IsOpened(n) PROVE Fits(n)
  <2>1. /\ pulls[n].draft = TRUE /\ pulls[n].labels = {"wip"} /\ comments[n] = {}
    BY <1>2, <1>5 DEF IsOpened
  <2>2. ~ HasResult(n, pulls[n])
    BY <2>1 DEF HasResult, Results
  <2> QED  BY <2>1, <2>2 DEF Fits, Shows
<1> QED  BY <1>1, <1>3, <1>4, <1>5 DEF RoutingParts, Rested

\* Losses are only ever counted up.
LEMMA FaultsGrow ==
  ASSUME [Next]_vars, faults \in Nat
  PROVE  faults' \in {faults, faults + 1}
<1> DEFINE G == faults' \in {faults, faults + 1}
<1>1. ASSUME NEW p, SetRouting(p) \/ Upsert(p) PROVE G
  BY <1>1 DEF SetRouting, SetDraft, AddLabels, RemoveLabel, Upsert, FindComment, StillCurrent, PostComment,
     EditComment, VerifyPost, Sent
<1>2. ASSUME NEW p, Submit(p) \/ ReconcileRouting(p) PROVE G
  BY <1>2 DEF Submit, PushBranch, SubmitBefore, SubmitCurrent, SubmitAfter, ReconcileRouting, Reconcile,
     ReconcileResult, Recheck, RecheckResult, Settle, SettleResult
<1>3. ASSUME NEW p, Revise(p) \/ Accept(p) \/ Merge(p) PROVE G
  BY <1>3 DEF Revise, RequiredBase, AppliedResult, ReviseConflicts, PatchRevision, RevisionPatched, Accept,
     AcceptedResult, AcceptedBase, Merge, MergeResult, MergeBase, MergeAcceptance, MergeBaseAgain,
     MergeResultAgain, PutMerge, Sent
<1>4. ASSUME NEW p, Close(p) \/ CreateOrRepair(p) PROVE G
  BY <1>4 DEF Close, PatchClosed, Closed, CreateOrRepair, CreateConflicts, CreatePull, Created,
     RepairResult, Verified, Sent
<1>5. ASSUME NEW n, StudentCalls(n) \/ AdvisorCalls(n) PROVE G
  BY <1>5 DEF StudentCalls, PreflightSubmit, PostAssignmentComment, SendMessage, AdvisorCalls,
     CreateAssignment, CloseExperiment, RequestRevisionAgain, RequestRevision, AcceptResult,
     MergeExperiment, RepairRouting, SendAssignmentFeedback
<1>6. ASSUME NEW n, Take(n) \/ Commit(n) \/ PullFollowsBranch(n) \/ BaseMoves PROVE G
  BY <1>6 DEF Take, Commit, PullFollowsBranch, BaseMoves
<1>7. ASSUME NEW p, Fails(p) PROVE G
  BY <1>7 DEF Fails
<1>8. ASSUME NEW p, NEW n, NEW id, NEW text, RespondToIssue(p, n, id, text) PROVE G
  BY <1>8 DEF RespondToIssue
<1>9. CASE UNCHANGED vars
  BY <1>9 DEF vars
<1>10. CASE Student \/ Advisor
  BY <1>1, <1>2, <1>3, <1>4, <1>10 DEF Student, Advisor
<1>11. CASE Next
  BY <1>5, <1>6, <1>7, <1>8, <1>10, <1>11 DEF Next
<1> QED  BY <1>9, <1>11

\* All steps, losses included: after the first there is nothing to show.
LEMMA NextRoutes ==
  ASSUME ScopesAssumption, IInv, RInv, [Next]_vars
  PROVE  RInv'
<1>1. faults \in Nat /\ faults' \in {faults, faults + 1}
  BY FaultsGrow DEF RInv
<1> SUFFICES ASSUME faults' = 0 PROVE RoutingParts'
  BY <1>1 DEF RInv
<1>2. faults = 0 /\ RoutingParts
  BY <1>1 DEF RInv
<1>3. CASE UNCHANGED vars
  BY <1>2, <1>3, SurroundingsRoute DEF vars
<1>4. CASE Student
  BY <1>2, <1>4, StudentSteps
<1>5. CASE Advisor
  BY <1>2, <1>5, AdvisorActs
<1>6. CASE BaseMoves
  BY <1>2, <1>6, SurroundingsRoute DEF BaseMoves, local, history
<1>7. ASSUME NEW p \in Workers, Fails(p) PROVE FALSE
  BY <1>1, <1>2, <1>7 DEF Fails
<1>8. ASSUME NEW n \in Pulls, StudentCalls(n) \/ AdvisorCalls(n) PROVE RoutingParts'
  BY <1>2, <1>8, CallsRoute
<1>9. ASSUME NEW n \in Pulls, Take(n) PROVE RoutingParts'
  BY <1>2, <1>9, SurroundingsRoute DEF Take, IsActive, gitHub, history
<1>10. ASSUME NEW n \in Pulls, Commit(n) PROVE RoutingParts'
  BY <1>2, <1>10, SurroundingsRoute DEF Commit, gitHub, history
<1>11. ASSUME NEW n \in Pulls, PullFollowsBranch(n) PROVE RoutingParts'
  BY <1>2, <1>11, FollowsRoutes
<1>12. ASSUME NEW p \in Workers, NEW n, NEW id, NEW text, RespondToIssue(p, n, id, text)
       PROVE  RoutingParts'
  BY <1>2, <1>12, MessageRoutes
<1> QED  BY <1>3, <1>4, <1>5, <1>6, <1>7, <1>8, <1>9, <1>10, <1>11, <1>12 DEF Next

\* The routing of every pull request is what its results say, or what the
\* requests under way will make it, as long as nothing is lost (github/workflow).
THEOREM RoutingInvariant == Spec => []RInv
<1>1. Init => RInv
  BY InitRoutes DEF Init, RInv
<1>2. IInv /\ RInv /\ [Next]_vars => RInv'
  BY NextRoutes, ScopesAssumption
<1> QED  BY <1>1, <1>2, WorkflowInvariant, PTL DEF Spec

\* When nothing is under way and nothing was lost, a pull request is up for
\* review exactly when its revision and head have a result, however
\* submissions and requests for revisions raced (submit.py, revisions.py).
THEOREM RoutedByEvidence == Spec => []RoutingFollowsEvidence
<1>1. RInv => RoutingFollowsEvidence
  <2> SUFFICES ASSUME RInv, Quiet, NEW n \in Pulls \ (halfway \cup parked), pulls[n].state = "open"
               PROVE  IF HasResult(n, pulls[n]) THEN Reviewable(n) ELSE InProgress(n)
    BY DEF RoutingFollowsEvidence
  <2>1. RoutingParts /\ Std.at = "idle" /\ Adv.at = "idle"
    BY DEF Quiet, RInv, At, Workers, Std, Adv
  <2>2. ~ Owes(Std, n) /\ ~ Owes(Adv, n) /\ IsOpened(n)
    BY <2>1 DEF Owes, Unwritten, IsOpened
  <2>3. Fits(n)
    BY <2>1, <2>2 DEF RoutingParts, Rested
  <2> QED  BY <2>3 DEF Fits, Shows, Reviewable, InProgress, Active
<1> QED  BY <1>1, RoutingInvariant, PTL
=============================================================================
