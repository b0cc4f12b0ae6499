------------------------- MODULE AssignmentWorkflow -------------------------
(***************************************************************************)
(* The assignment pull requests of one student, the issues of humans, and  *)
(* the operations with which the advisor's and the student's worker change *)
(* and answer them.                                                        *)
(*                                                                         *)
(* A worker runs one operation at a time: its GitHubWorkflow holds         *)
(* _assignment_lifecycle_lock (core.py) from the first to the last         *)
(* request.  Nothing is shared between the two workers but GitHub, so      *)
(* their requests interleave.  An action is one request, with what its     *)
(* answer makes the operation do next.                                     *)
(*                                                                         *)
(* A call that is refused by its first read changes nothing and is no      *)
(* step: a call's first action is the read that it passes, and so what the *)
(* call names (revision, head) is what that read shows.                    *)
(*                                                                         *)
(* Commits and research bases are numbered in the order they are made.     *)
(* Revision identifiers are numbers too: every request names a fresh one   *)
(* (github/tools/contracts.py).                                            *)
(***************************************************************************)
EXTENDS Integers, Sequences, FiniteSets

CONSTANTS Scopes  \* bounds and starting points, one of which a behaviour has

ASSUME ScopesAssumption ==
  \A s \in Scopes : /\ s.pulls \cup s.issues \subseteq Nat /\ s.made \subseteq s.pulls
                    /\ s.pulls \cap s.issues = {}
                    /\ {s.revs, s.bases, s.heads, s.texts, s.faults} \subseteq Nat
                    /\ s.lags \in BOOLEAN
                    \* the student starts with at most one assignment
                    /\ \A n, m \in s.made : n = m

VARIABLES
  scope,     \* the bounds of this behaviour
  pulls,     \* pull request -> what GitHub answers about it
  comments,  \* pull request or issue -> the trusted comments with a protocol marker
  branch,    \* pull request -> head commit of its branch, 0 when there is none
  given,     \* pull requests the student's mailbox has shown it
  commits,   \* pull request -> for every commit, the newest base it contains
  live,      \* head commit of the research base branch
  w,         \* worker -> the operation it runs
  merges,    \* pull request -> what was merged, and which base the call named
  halfway,   \* pull requests on which a routing operation raised since the last that returned
  parked,    \* pull requests with a result that a creation or repair set to work in progress
  faults     \* lost requests and operations that were cut off

vars == <<scope, pulls, comments, branch, given, commits, live, w, merges, halfway, parked, faults>>
gitHub == <<pulls, comments, branch, live, merges>>
history == <<halfway, parked>>
local == <<scope, given, commits>>

Workers == {"advisor", "student"}
Pulls == scope.pulls
Idle == [at |-> "idle"]
NotMerged == [rev |-> 0]
NoPull == [state |-> "none", rev |-> 0, base |-> 0, head |-> 0, draft |-> FALSE, labels |-> {}]
Opened(base, head) ==
  [state |-> "open", rev |-> 1, base |-> base, head |-> head, draft |-> TRUE, labels |-> {}]

\* The operations that set a draft state and labels.
Routing == {"create", "repair", "revise", "submit"}
Active == {"wip", "review"}

Pull(p) == pulls[w[p].n]
AtHead(p) == Pull(p).head = w[p].head
AtRevision(p) == Pull(p).rev = w[p].rev
IsOpen(p) == Pull(p).state = "open"
SamePull(p) == AtHead(p) /\ IsOpen(p)
\* What a result was made for: this head, and the assignment's current revision.
IsAssigned(p) == SamePull(p) /\ AtRevision(p)

\* The distinct results published for a revision and a head.
Results(n, rev, head) ==
  {c.text : c \in {d \in comments[n] : d.mark = [kind |-> "result", rev |-> rev, head |-> head]}}
HasResult(n, pull) == Results(n, pull.rev, pull.head) # {}
\* Other assignments count while nothing was created for this one (mutant).
ConflictsBeforeCreation(n) ==
  {m \in Pulls \ {n} : /\ pulls[n].state = "none"
                       /\ pulls[m].state = "open" /\ pulls[m].labels \cap Active # {}}

IsActive(n) == pulls[n].state = "open" /\ pulls[n].labels \cap Active # {}
Conflicts(n) == {m \in Pulls \ {n} : IsActive(m)}
\* Exactly one of wip and review, and that one is allowed.
Routed(n, allowed) ==
  \E status \in allowed : pulls[n].labels \cap Active = {status}

-----------------------------------------------------------------------------
(* How an operation goes on after a request.                               *)

At(p, step) == w[p].at = step
To(p, step) == w' = [w EXCEPT ![p].at = step]
Becomes(p, call) == w' = [w EXCEPT ![p] = call]
\* The call with some of its fields set.
With(call, fields) ==
  [f \in DOMAIN call \cup DOMAIN fields |-> IF f \in DOMAIN fields THEN fields[f] ELSE call[f]]

\* The operation returns, or ends stale after the routing was restored.
Returns(p) ==
  /\ Becomes(p, Idle)
  /\ halfway' = IF w[p].op \in Routing THEN halfway \ {w[p].n} ELSE halfway
  /\ parked' = CASE w[p].op \notin Routing -> parked
                 [] w[p].op \in {"create", "repair"} -> IF w[p].draft /\ HasResult(w[p].n, Pull(p))
                                                        THEN parked \cup {w[p].n}
                                                        ELSE parked \ {w[p].n}
                 [] OTHER -> parked \ {w[p].n}

\* A check fails before anything was written.
Refuses(p) == Becomes(p, Idle) /\ UNCHANGED history

\* A check fails when something may have been written: the error leaves the
\* operation, and nothing is undone.
Raises(p) ==
  /\ Becomes(p, Idle)
  /\ halfway' = IF w[p].op \in Routing THEN halfway \cup {w[p].n} ELSE halfway
  /\ UNCHANGED parked

\* The next request of a routing change: draft state, labels to add, labels
\* to remove, each left out when the snapshot shows nothing to change.
Onward(call) ==
  [call EXCEPT !.at = CASE call.turn -> "draft"
                        [] ~ call.turn /\ call.add # {} -> "add"
                        [] ~ call.turn /\ call.add = {} /\ call.remove # {} -> "remove"
                        [] OTHER -> call.then]

Route(call, seen, draft, add, remove, then) ==
  Onward(With(call, [turn |-> seen.draft # draft, draft |-> draft, add |-> add \ seen.labels,
                     remove |-> remove \cap seen.labels, then |-> then]))

\* A mutating request is applied, its answer received or lost, or it never
\* arrives; the operation goes on in both cases and verifies.
Sent(applied) ==
  \/ applied /\ UNCHANGED faults
  \/ /\ faults < scope.faults
     /\ faults' = faults + 1
     /\ UNCHANGED gitHub

PullChanges(n, pull) ==
  pulls' = [pulls EXCEPT ![n] = pull] /\ UNCHANGED <<comments, branch, live, merges>>

-----------------------------------------------------------------------------
Init ==
  /\ scope \in Scopes
  /\ pulls = [n \in Pulls |-> IF n \in scope.made
                                THEN [Opened(1, 1) EXCEPT !.labels = {"wip"}]
                                ELSE NoPull]
  /\ comments = [n \in Pulls \cup scope.issues |-> {}]
  /\ branch = [n \in Pulls |-> IF n \in scope.made THEN 1 ELSE 0]
  /\ given = scope.made
  /\ commits = [n \in Pulls |-> IF n \in scope.made THEN <<1>> ELSE <<>>]
  /\ live = 1
  /\ w = [p \in Workers |-> Idle]
  /\ merges = [n \in Pulls |-> NotMerged]
  /\ halfway = {} /\ parked = {} /\ faults = 0

Calls(p, op) == At(p, "idle") /\ op \in scope.ops

-----------------------------------------------------------------------------
(* Draft state and labels: _set_draft and _set_labels.                     *)

\* GitHub refuses to change the draft state of a closed pull request.
SetDraft(p) ==
  /\ At(p, "draft")
  /\ \/ /\ IsOpen(p)
        /\ Sent(PullChanges(w[p].n, [Pull(p) EXCEPT !.draft = w[p].draft]))
        /\ Becomes(p, Onward([w[p] EXCEPT !.turn = FALSE]))
        /\ UNCHANGED <<history, local>>
     \/ ~ IsOpen(p) /\ Raises(p) /\ UNCHANGED <<gitHub, local, faults>>

AddLabels(p) ==
  /\ At(p, "add")
  /\ Sent(PullChanges(w[p].n, [Pull(p) EXCEPT !.labels = @ \cup w[p].add]))
  /\ Becomes(p, Onward([w[p] EXCEPT !.add = {}]))
  /\ UNCHANGED <<history, local>>

\* One request per label, in alphabetical order.
LabelOrder == [hold |-> 1, review |-> 2, wip |-> 3]
RemoveLabel(p) ==
  /\ At(p, "remove")
  /\ LET label == CHOOSE l \in w[p].remove :
                    \A m \in w[p].remove : LabelOrder[l] <= LabelOrder[m]
     IN  /\ Sent(PullChanges(w[p].n, [Pull(p) EXCEPT !.labels = @ \ {label}]))
         /\ Becomes(p, Onward([w[p] EXCEPT !.remove = @ \ {label}]))
  /\ UNCHANGED <<history, local>>

-----------------------------------------------------------------------------
(* Marker comments: _upsert_marker_comment and _upsert_result_comment.     *)

\* A comment is found by its mark and its text (mutant).
MarkedAlike(p) ==
  {c \in comments[w[p].n] : c.mark = w[p].mark /\ c.text = w[p].text}

Marked(p) == {c \in comments[w[p].n] : c.mark = w[p].mark}

\* What follows the comment.  The closing reads of an acceptance, a closing
\* or a message can only turn the answer into an error.
Upserted(p) ==
  CASE w[p].op = "submit" -> To(p, "submitCurrent") /\ UNCHANGED history
    [] w[p].op = "revise" -> To(p, "reconcile") /\ UNCHANGED history
    [] OTHER -> Returns(p)

Texts(p) == {c.text : c \in Marked(p)}
\* A result may be there in several copies, anything else only once.
Unambiguous(p) ==
  /\ Cardinality(Texts(p)) <= 1
  /\ w[p].op # "submit" => Cardinality(Marked(p)) <= 1

\* The comments are read.  Another text under the same mark is refused, as
\* evidence and messages may not change; an answer in an issue is edited.
\* The text of a decision goes with its mark.
FindComment(p) ==
  /\ At(p, "find")
  /\ CASE ~ Unambiguous(p) -> Raises(p)
       [] Unambiguous(p) /\ Texts(p) = {} ->
            To(p, IF w[p].op = "submit" THEN "stillCurrent" ELSE "post") /\ UNCHANGED history
       [] Unambiguous(p) /\ Texts(p) = {w[p].text} -> Upserted(p)
       [] OTHER -> IF w[p].op = "answer" THEN To(p, "edit") /\ UNCHANGED history ELSE Raises(p)
  /\ UNCHANGED <<gitHub, local, faults>>

\* _require_result_still_current, right before a result is posted.
StillCurrent(p) ==
  /\ At(p, "stillCurrent")
  /\ IF IsAssigned(p) THEN To(p, "post") /\ UNCHANGED history ELSE Raises(p)
  /\ UNCHANGED <<gitHub, local, faults>>

Copies(p) == Cardinality({c \in Marked(p) : c.text = w[p].text})
PostComment(p) ==
  /\ At(p, "post")
  /\ Sent(/\ comments' = [comments EXCEPT ![w[p].n] =
               @ \cup {[mark |-> w[p].mark, text |-> w[p].text, copy |-> Copies(p)]}]
          /\ UNCHANGED <<pulls, branch, live, merges>>)
  /\ To(p, "verifyPost")
  /\ UNCHANGED <<history, local>>

EditComment(p) ==
  /\ At(p, "edit")
  /\ Sent(/\ comments' = [comments EXCEPT ![w[p].n] =
               (@ \ Marked(p)) \cup {[c EXCEPT !.text = w[p].text] : c \in Marked(p)}]
          /\ UNCHANGED <<pulls, branch, live, merges>>)
  /\ To(p, "verifyPost")
  /\ UNCHANGED <<history, local>>

VerifyPost(p) ==
  /\ At(p, "verifyPost")
  /\ IF Unambiguous(p) /\ Texts(p) = {w[p].text} THEN Upserted(p) ELSE Raises(p)
  /\ UNCHANGED <<gitHub, local, faults>>

-----------------------------------------------------------------------------
(* The student submits a result.                                           *)

\* The student is shown an open pull request that is labelled as active.
Take(n) ==
  /\ n \notin given /\ IsActive(n)
  /\ given' = given \cup {n}
  /\ UNCHANGED <<scope, commits, gitHub, w, history, faults>>

\* Student work in the checkout: a commit, perhaps after merging the base.
Commit(n) ==
  /\ n \in given /\ Len(commits[n]) < scope.heads
  /\ \E base \in {commits[n][Len(commits[n])], live} :
       commits' = [commits EXCEPT ![n] = Append(@, base)]
  /\ UNCHANGED <<scope, given, gitHub, w, history, faults>>

\* The commit is compared with the base the branch was made from (mutant).
ContainsFirstBase(n, head) == commits[n][head] >= commits[n][1]

\* preflight_submit_result and require_commit_contains_base.
ContainsBase(n, head) == commits[n][head] >= pulls[n].base
PreflightSubmit(n, head, text) ==
  /\ Calls("student", "submit") /\ n \in given /\ pulls[n].state = "open"
  /\ head \in 1..Len(commits[n]) /\ text \in 1..scope.texts
  /\ ContainsBase(n, head)
  /\ Becomes("student",
       [at |-> "push", op |-> "submit", n |-> n, rev |-> pulls[n].rev, head |-> head,
        before |-> pulls[n].head, text |-> text,
        mark |-> [kind |-> "result", rev |-> pulls[n].rev, head |-> head]])
  /\ UNCHANGED <<gitHub, local, history, faults>>

\* push_assignment_branch: the local head is the commit of the result, and
\* the remote head that commit already or the head the preflight read.
PushBranch(p) ==
  /\ At(p, "push")
  /\ LET n == w[p].n
     IN  IF Len(commits[n]) = w[p].head
            /\ (branch[n] = w[p].head \/ (branch[n] = w[p].before /\ branch[n] < w[p].head))
         THEN /\ branch' = [branch EXCEPT ![n] = w[p].head]
              /\ pulls' = IF scope.lags THEN pulls
                                        ELSE [pulls EXCEPT ![n].head = w[p].head]
              /\ To(p, "submitBefore") /\ UNCHANGED history
         ELSE Refuses(p) /\ UNCHANGED <<branch, pulls>>
  /\ UNCHANGED <<comments, live, merges, local, faults>>

\* GitHub's pull request follows its branch a little later.
PullFollowsBranch(n) ==
  /\ pulls[n].state = "open" /\ pulls[n].head # branch[n]
  /\ pulls' = [pulls EXCEPT ![n].head = branch[n]]
  /\ UNCHANGED <<comments, branch, live, merges, local, w, history, faults>>

\* _submit_result reads the pull request, again and again while its head is
\* not the pushed one (_submit_after_push).  A stale revision is an error.
SubmitBefore(p) ==
  /\ At(p, "submitBefore") /\ AtHead(p)
  /\ IF IsAssigned(p) THEN To(p, "find") /\ UNCHANGED history ELSE Raises(p)
  /\ UNCHANGED <<gitHub, local, faults>>

\* After the comment a stale revision is followed by the restoring of the
\* current assignment's routing, then raised.
SubmitCurrent(p) ==
  /\ At(p, "submitCurrent")
  /\ CASE ~ SamePull(p) -> Raises(p)
       [] SamePull(p) /\ ~ AtRevision(p) -> To(p, "reconcile") /\ UNCHANGED history
       [] OTHER -> /\ Becomes(p, Route(w[p], Pull(p), FALSE, {"review"}, {"wip"}, "submitAfter"))
                   /\ UNCHANGED history
  /\ UNCHANGED <<gitHub, local, faults>>

\* The revision is not looked at again (mutant).
SubmitAfterUnchecked(p) ==
  /\ At(p, "submitAfter")
  /\ IF ~ Pull(p).draft /\ "review" \in Pull(p).labels /\ "wip" \notin Pull(p).labels
       THEN Returns(p) ELSE Raises(p)
  /\ UNCHANGED <<gitHub, local, faults>>

SubmitAfter(p) ==
  /\ At(p, "submitAfter")
  /\ CASE ~ SamePull(p) -> Raises(p)
       [] SamePull(p) /\ ~ AtRevision(p) -> To(p, "reconcile") /\ UNCHANGED history
       [] OTHER -> IF ~ Pull(p).draft /\ "review" \in Pull(p).labels /\ "wip" \notin Pull(p).labels
                     THEN Returns(p) ELSE Raises(p)
  /\ UNCHANGED <<gitHub, local, faults>>

-----------------------------------------------------------------------------
(* _reconcile_current_result_routing.                                      *)

ReconcileAttempts == 3

\* `changed` while the attempt ran: once more, or give up after the third.
Again(p) ==
  LET tries == IF "tries" \in DOMAIN w[p] THEN w[p].tries + 1 ELSE 1
  IN  IF tries < ReconcileAttempts
        THEN Becomes(p, With(w[p], [at |-> "reconcile", tries |-> tries])) /\ UNCHANGED history
        ELSE Raises(p)

SameAssignment(p) == Pull(p).rev = w[p].seen.rev /\ Pull(p).base = w[p].seen.base

Reconcile(p) ==
  /\ At(p, "reconcile")
  /\ IF SamePull(p)
       THEN /\ Becomes(p, With(w[p], [at |-> "reconcileResult", seen |-> Pull(p)]))
            /\ UNCHANGED history
       ELSE Raises(p)
  /\ UNCHANGED <<gitHub, local, faults>>

ReconcileResult(p) ==
  /\ At(p, "reconcileResult")
  /\ LET has == HasResult(w[p].n, w[p].seen)
     IN  Becomes(p, Route(With(w[p], [has |-> has]), w[p].seen, ~ has, {}, {}, "recheck"))
  /\ UNCHANGED <<gitHub, local, history, faults>>

Recheck(p) ==
  /\ At(p, "recheck")
  /\ CASE ~ SamePull(p) -> Raises(p)
       [] SamePull(p) /\ ~ SameAssignment(p) -> Again(p)
       [] OTHER -> /\ Becomes(p, With(w[p], [at |-> "recheckResult", seen |-> Pull(p)]))
                   /\ UNCHANGED history
  /\ UNCHANGED <<gitHub, local, faults>>

Status(has) == IF has THEN "review" ELSE "wip"
RecheckResult(p) ==
  /\ At(p, "recheckResult")
  /\ LET has == w[p].has
     IN  IF HasResult(w[p].n, w[p].seen) # has THEN Again(p)
         ELSE /\ Becomes(p, Route(w[p], [w[p].seen EXCEPT !.draft = ~ has], ~ has,
                                  {Status(has)}, {Status(~ has)}, "settle"))
              /\ UNCHANGED history
  /\ UNCHANGED <<gitHub, local, faults>>

Settle(p) ==
  /\ At(p, "settle")
  /\ CASE ~ SamePull(p) -> Raises(p)
       [] SamePull(p) /\ ~ SameAssignment(p) -> Again(p)
       [] OTHER -> /\ Becomes(p, With(w[p], [at |-> "settleResult", seen |-> Pull(p)]))
                   /\ UNCHANGED history
  /\ UNCHANGED <<gitHub, local, faults>>

\* The callers only check what was returned: a revision request that its
\* assignment is the one it wrote, which the attempts have made sure of.
SettleResult(p) ==
  /\ At(p, "settleResult")
  /\ LET has == w[p].has  seen == w[p].seen
     IN  CASE HasResult(w[p].n, seen) # has -> Again(p)
           [] /\ HasResult(w[p].n, seen) = has
              /\ seen.draft = ~ has /\ seen.labels \cap Active = {Status(has)} -> Returns(p)
           [] OTHER -> Raises(p)
  /\ UNCHANGED <<gitHub, local, faults>>

-----------------------------------------------------------------------------
(* The advisor asks for a revision.                                        *)

Revision(n, rev, new, base, step) ==
  [at |-> step, op |-> "revise", n |-> n, rev |-> rev, new |-> new, head |-> pulls[n].head,
   base |-> base, text |-> 0, mark |-> [kind |-> "revision", rev |-> new, head |-> pulls[n].head]]

RequestRevision(n, base) ==
  /\ Calls("advisor", "revise") /\ pulls[n].state = "open"
  /\ pulls[n].rev < scope.revs /\ base \in 1..live
  /\ Becomes("advisor", Revision(n, pulls[n].rev, pulls[n].rev + 1, base, "requiredBase"))
  /\ UNCHANGED <<gitHub, local, history, faults>>

\* The same call again, when GitHub shows the revision already.
RequestRevisionAgain(n) ==
  /\ Calls("advisor", "revise") /\ pulls[n].state = "open" /\ pulls[n].rev > 1
  /\ Becomes("advisor",
       Revision(n, pulls[n].rev - 1, pulls[n].rev, pulls[n].base, "appliedResult"))
  /\ UNCHANGED <<gitHub, local, history, faults>>

RequiredBase(p) ==
  /\ At(p, "requiredBase")
  /\ IF live = w[p].base THEN To(p, "reviseConflicts") /\ UNCHANGED history ELSE Refuses(p)
  /\ UNCHANGED <<gitHub, local, faults>>

\* A result for the revision asked for is kept: the comment is completed and
\* the routing restored.
AppliedResult(p) ==
  /\ At(p, "appliedResult")
  /\ To(p, IF Results(w[p].n, w[p].new, w[p].head) # {} THEN "find" ELSE "reviseConflicts")
  /\ UNCHANGED <<gitHub, local, history, faults>>

\* No other assignment may be active; the body is left alone when it shows
\* the revision already.
ReviseConflicts(p) ==
  /\ At(p, "reviseConflicts")
  /\ IF Conflicts(w[p].n) # {} THEN Refuses(p)
     ELSE /\ To(p, IF Pull(p).rev = w[p].new THEN "patched" ELSE "patch")
          /\ UNCHANGED history
  /\ UNCHANGED <<gitHub, local, faults>>

PatchRevision(p) ==
  /\ At(p, "patch")
  /\ Sent(PullChanges(w[p].n, [Pull(p) EXCEPT !.rev = w[p].new, !.base = w[p].base]))
  /\ To(p, "patched")
  /\ UNCHANGED <<history, local>>

RevisionPatched(p) ==
  /\ At(p, "patched")
  /\ IF SamePull(p) /\ Pull(p).rev = w[p].new /\ Pull(p).base = w[p].base
       THEN To(p, "find") /\ UNCHANGED history
       ELSE Raises(p)
  /\ UNCHANGED <<gitHub, local, faults>>

-----------------------------------------------------------------------------
(* The advisor decides about a result.                                     *)

\* The only result of the revision and head (_require_result).
TheResult(p) == Results(w[p].n, w[p].rev, w[p].head)
AcceptanceMark(call, text) ==
  [kind |-> "acceptance", rev |-> call.rev, head |-> call.head, digest |-> text,
   evaluated |-> call.evaluated, accepted |-> call.base]
Decision(op, n, base, step) ==
  [at |-> step, op |-> op, n |-> n, rev |-> pulls[n].rev, head |-> pulls[n].head,
   evaluated |-> pulls[n].base, base |-> base]

AcceptResult(n, base) ==
  /\ Calls("advisor", "accept") /\ base \in 1..live
  /\ pulls[n].state = "open" /\ ~ pulls[n].draft /\ "review" \in pulls[n].labels
  /\ Becomes("advisor", Decision("accept", n, base, "acceptResult"))
  /\ UNCHANGED <<gitHub, local, history, faults>>

AcceptedResult(p) ==
  /\ At(p, "acceptResult")
  /\ IF Cardinality(TheResult(p)) # 1 THEN Refuses(p)
     ELSE /\ \E text \in TheResult(p) :
               Becomes(p, With(w[p], [at |-> "acceptBase", text |-> 0,
                                      mark |-> AcceptanceMark(w[p], text)]))
          /\ UNCHANGED history
  /\ UNCHANGED <<gitHub, local, faults>>

\* The base a call names has to be the live one, whenever it is read.
NextAtBase(p, step) ==
  IF live = w[p].base THEN To(p, step) /\ UNCHANGED history ELSE Refuses(p)

AcceptedBase(p) ==
  /\ At(p, "acceptBase")
  /\ NextAtBase(p, "find")
  /\ UNCHANGED <<gitHub, local, faults>>

\* The pull request as merge_experiment reads it; a merged one is only
\* reported again.
MergeExperiment(n, base) ==
  /\ Calls("advisor", "merge") /\ base \in 1..live
  /\ pulls[n].state = "open" /\ ~ pulls[n].draft
  /\ pulls[n].labels = {"review"}
  /\ Becomes("advisor", Decision("merge", n, base, "mergeResult"))
  /\ UNCHANGED <<gitHub, local, history, faults>>

MergeResult(p) ==
  /\ At(p, "mergeResult")
  /\ IF Cardinality(TheResult(p)) # 1 THEN Refuses(p)
     ELSE /\ \E text \in TheResult(p) :
               Becomes(p, With(w[p], [at |-> "mergeBase", text |-> text]))
          /\ UNCHANGED history
  /\ UNCHANGED <<gitHub, local, faults>>

MergeBase(p) ==
  /\ At(p, "mergeBase")
  /\ NextAtBase(p, IF w[p].evaluated = w[p].base THEN "mergeBaseAgain" ELSE "mergeAcceptance")
  /\ UNCHANGED <<gitHub, local, faults>>

\* _require_research_base_acceptance.
Accepted(call) ==
  \E c \in comments[call.n] : c.mark = AcceptanceMark(call, call.text)
MergeAcceptance(p) ==
  /\ At(p, "mergeAcceptance")
  /\ IF Accepted(w[p]) THEN To(p, "mergeBaseAgain") /\ UNCHANGED history ELSE Refuses(p)
  /\ UNCHANGED <<gitHub, local, faults>>

MergeBaseAgain(p) ==
  /\ At(p, "mergeBaseAgain")
  /\ NextAtBase(p, "mergeResultAgain")
  /\ UNCHANGED <<gitHub, local, faults>>

MergeResultAgain(p) ==
  /\ At(p, "mergeResultAgain")
  /\ IF TheResult(p) = {w[p].text} THEN To(p, "put") /\ UNCHANGED history ELSE Refuses(p)
  /\ UNCHANGED <<gitHub, local, faults>>

\* GitHub merges an open, ready pull request whose head is the one named,
\* whatever its base branch has become; the base branch moves.  What is read
\* afterwards only decides the answer.
PutMerge(p) ==
  /\ At(p, "put")
  /\ IF IsOpen(p) /\ ~ Pull(p).draft /\ branch[w[p].n] = w[p].head
       THEN Sent(/\ pulls' = [pulls EXCEPT ![w[p].n].state = "merged"]
                 /\ merges' = [merges EXCEPT ![w[p].n] =
                      [rev |-> Pull(p).rev, head |-> w[p].head, required |-> Pull(p).base,
                       named |-> w[p].base]]
                 /\ live' = live + 1
                 /\ UNCHANGED <<comments, branch>>)
       ELSE UNCHANGED <<gitHub, faults>>
  /\ Refuses(p)
  /\ UNCHANGED local

\* close_experiment: closed, read again, then the reason as a comment.
CloseExperiment(n) ==
  /\ Calls("advisor", "close") /\ pulls[n].state \in {"open", "closed"}
  /\ Becomes("advisor",
       [at |-> IF pulls[n].state = "open" THEN "close" ELSE "closed", op |-> "close",
        n |-> n, rev |-> pulls[n].rev, head |-> pulls[n].head, text |-> 0,
        mark |-> [kind |-> "closed", rev |-> pulls[n].rev]])
  /\ UNCHANGED <<gitHub, local, history, faults>>

PatchClosed(p) ==
  /\ At(p, "close")
  /\ Sent(PullChanges(w[p].n, [Pull(p) EXCEPT !.state = "closed"]))
  /\ To(p, "closed")
  /\ UNCHANGED <<history, local>>

Closed(p) ==
  /\ At(p, "closed")
  /\ IF AtHead(p) /\ AtRevision(p) /\ Pull(p).state = "closed"
       THEN To(p, "find") /\ UNCHANGED history
       ELSE Raises(p)
  /\ UNCHANGED <<gitHub, local, faults>>

-----------------------------------------------------------------------------
(* The advisor creates an assignment and repairs its routing.              *)

\* create_assignment_branch: the base branch is where the call says, and the
\* branch is new, or an empty assignment commit on that base.
CreateAssignment(n) ==
  /\ Calls("advisor", "create") /\ pulls[n].state \in {"none", "open"}
  /\ \/ branch[n] = 0
     \/ branch[n] = 1 /\ commits[n][1] = live
  /\ branch' = [branch EXCEPT ![n] = 1]
  /\ commits' = [commits EXCEPT ![n] = IF branch[n] = 0 THEN <<live>> ELSE @]
  /\ Becomes("advisor", [at |-> "createConflicts", op |-> "create", n |-> n, rev |-> 1,
                         head |-> 1, base |-> live])
  /\ UNCHANGED <<pulls, comments, live, merges, scope, given, history, faults>>

\* The pull requests of the branch are listed, then the student's active ones.
CreateConflicts(p) ==
  /\ At(p, "createConflicts")
  /\ IF Conflicts(w[p].n) # {} THEN Refuses(p)
     ELSE To(p, IF Pull(p).state = "none" THEN "createPull" ELSE "created") /\ UNCHANGED history
  /\ UNCHANGED <<gitHub, local, faults>>

CreatePull(p) ==
  /\ At(p, "createPull")
  /\ Sent(PullChanges(w[p].n, Opened(w[p].base, w[p].head)))
  /\ To(p, "created")
  /\ UNCHANGED <<history, local>>

\* require_assignment_snapshot, then draft and labels.
Created(p) ==
  /\ At(p, "created")
  /\ IF IsAssigned(p) /\ Pull(p).base = w[p].base
       THEN /\ Becomes(p, Route(w[p], Pull(p), TRUE, {"wip"}, {"hold", "review"}, "routed"))
            /\ UNCHANGED history
       ELSE Raises(p)
  /\ UNCHANGED <<gitHub, local, faults>>

\* With nothing to change a repair ends with its first read.
Repaired(call, wanted) ==
  Route(call, call.seen, "wip" \in wanted, wanted, {"hold", "review", "wip"} \ wanted, "routed")
RepairRouting(n, wanted) ==
  /\ Calls("advisor", "repair") /\ pulls[n].state = "open"
  /\ LET call == [at |-> "repairResult", op |-> "repair", n |-> n, rev |-> pulls[n].rev,
                  head |-> pulls[n].head, seen |-> pulls[n], wanted |-> wanted]
     IN  /\ Repaired(call, wanted).at # "routed"
         /\ Becomes("advisor", IF "review" \in wanted THEN call ELSE Repaired(call, wanted))
  /\ UNCHANGED <<gitHub, local, history, faults>>

\* Review cannot be restored without the result.
RepairResult(p) ==
  /\ At(p, "repairResult")
  /\ IF Cardinality(TheResult(p)) # 1 THEN Refuses(p)
     ELSE Becomes(p, Repaired(w[p], w[p].wanted)) /\ UNCHANGED history
  /\ UNCHANGED <<gitHub, local, faults>>

\* The last read of a creation or a repair: draft state and labels have
\* become what was asked for.
Verified(p) ==
  /\ At(p, "routed")
  /\ IF /\ IsAssigned(p) /\ Pull(p).draft = w[p].draft
        /\ "wip" \in Pull(p).labels <=> w[p].draft
        /\ "review" \in Pull(p).labels <=> ~ w[p].draft
       THEN Returns(p) ELSE Raises(p)
  /\ UNCHANGED <<gitHub, local, faults>>

-----------------------------------------------------------------------------
(* Messages within a revision.                                             *)

SendMessage(p, n, id, text) ==
  /\ Calls(p, "message") /\ pulls[n].state = "open"
  /\ Becomes(p, [at |-> "find", op |-> "message", n |-> n, text |-> text,
                 mark |-> [kind |-> p, rev |-> pulls[n].rev, id |-> id]])
  /\ UNCHANGED <<gitHub, local, history, faults>>

\* The advisor's guidance is for work in progress, the student's questions and
\* findings also for a result in review.
SendAssignmentFeedback(n, id, text) == Routed(n, {"wip"}) /\ SendMessage("advisor", n, id, text)
PostAssignmentComment(n, id, text) == Routed(n, Active) /\ SendMessage("student", n, id, text)

\* Each role answers a human's message in an open issue, under a mark of its own.
RespondToIssue(p, n, id, text) ==
  /\ Calls(p, "answer")
  /\ Becomes(p, [at |-> "find", op |-> "answer", n |-> n, text |-> text,
                 mark |-> [kind |-> p, answers |-> id]])
  /\ UNCHANGED <<gitHub, local, history, faults>>

-----------------------------------------------------------------------------
(* The surroundings.                                                       *)

\* The research base moves: publish_advisor_branch or another writer.
BaseMoves ==
  /\ live < scope.bases
  /\ live' = live + 1
  /\ UNCHANGED <<pulls, comments, branch, merges, local, w, history, faults>>

\* A request raises, or the worker dies: the operation and its lock are gone.
Fails(p) ==
  /\ ~ At(p, "idle") /\ faults < scope.faults
  /\ faults' = faults + 1
  /\ Raises(p)
  /\ UNCHANGED <<gitHub, local>>

-----------------------------------------------------------------------------
SetRouting(p) == SetDraft(p) \/ AddLabels(p) \/ RemoveLabel(p)
Upsert(p) ==
  FindComment(p) \/ StillCurrent(p) \/ PostComment(p) \/ EditComment(p) \/ VerifyPost(p)
Submit(p) == PushBranch(p) \/ SubmitBefore(p) \/ SubmitCurrent(p) \/ SubmitAfter(p)
ReconcileRouting(p) ==
  \/ Reconcile(p) \/ ReconcileResult(p)
  \/ Recheck(p) \/ RecheckResult(p)
  \/ Settle(p) \/ SettleResult(p)
Revise(p) ==
  \/ RequiredBase(p) \/ AppliedResult(p) \/ ReviseConflicts(p)
  \/ PatchRevision(p) \/ RevisionPatched(p)
Accept(p) == AcceptedResult(p) \/ AcceptedBase(p)
Merge(p) ==
  \/ MergeResult(p) \/ MergeBase(p) \/ MergeAcceptance(p)
  \/ MergeBaseAgain(p) \/ MergeResultAgain(p) \/ PutMerge(p)
Close(p) == PatchClosed(p) \/ Closed(p)
CreateOrRepair(p) ==
  CreateConflicts(p) \/ CreatePull(p) \/ Created(p) \/ RepairResult(p) \/ Verified(p)

StudentCalls(n) ==
  \/ \E head \in 1..scope.heads, text \in 1..scope.texts : PreflightSubmit(n, head, text)
  \/ \E id \in 1..scope.heads, text \in 1..scope.texts : PostAssignmentComment(n, id, text)
AdvisorCalls(n) ==
  \/ CreateAssignment(n) \/ CloseExperiment(n) \/ RequestRevisionAgain(n)
  \/ \E base \in 1..live :
       RequestRevision(n, base) \/ AcceptResult(n, base) \/ MergeExperiment(n, base)
  \/ \E status \in Active, blockers \in SUBSET {"hold"} : RepairRouting(n, {status} \cup blockers)
  \/ \E id \in 1..scope.heads, text \in 1..scope.texts :
       SendAssignmentFeedback(n, id, text)

Student == Upsert("student") \/ Submit("student") \/ SetRouting("student")
           \/ ReconcileRouting("student")
Advisor ==
  \/ Upsert("advisor") \/ SetRouting("advisor") \/ ReconcileRouting("advisor")
  \/ Revise("advisor") \/ Accept("advisor") \/ Merge("advisor")
  \/ Close("advisor") \/ CreateOrRepair("advisor")

Next ==
  \/ Student \/ Advisor \/ BaseMoves
  \/ \E p \in Workers : Fails(p)
  \/ \E n \in Pulls : \/ StudentCalls(n) \/ AdvisorCalls(n)
                     \/ Take(n) \/ Commit(n) \/ PullFollowsBranch(n)
  \/ \E p \in Workers, n \in scope.issues, id \in 1..scope.heads, text \in 1..scope.texts :
       RespondToIssue(p, n, id, text)

Spec == Init /\ [][Next]_vars

-----------------------------------------------------------------------------
(* Properties.                                                             *)

\* What was merged has exactly one result for its revision and head, a commit
\* that contains the base its revision requires, and either that base is the
\* one the merge named or an acceptance binds the two to this very result:
\* whatever the student pushed, submitted or repeated between the advisor's
\* reads, and whatever was lost (merge.py, results.py, git_workflow.py).
MergeIsBacked ==
  \A n \in Pulls : merges[n] # NotMerged =>
    LET m == merges[n]
    IN  /\ Cardinality(Results(n, m.rev, m.head)) = 1
        /\ commits[n][m.head] >= m.required
        /\ \/ m.required = m.named
           \/ \E c \in comments[n], text \in Results(n, m.rev, m.head) :
                c.mark = AcceptanceMark([rev |-> m.rev, head |-> m.head,
                                         evaluated |-> m.required, base |-> m.named], text)

\* No mark is on two comments: a result is published once for a revision and
\* a head and stays what it was, a message, a decision or an answer in an issue
\* is posted once, also when responses are lost and calls repeated or cut off
\* (comments.py, issues.py).
OneCommentPerMark ==
  \A n \in DOMAIN comments : \A c, d \in comments[n] : c.mark = d.mark => c = d

Quiet == faults = 0 /\ \A p \in Workers : At(p, "idle")
Reviewable(n) == ~ pulls[n].draft /\ pulls[n].labels \cap Active = {"review"}
InProgress(n) == pulls[n].draft /\ pulls[n].labels \cap Active = {"wip"}

\* When both workers rest, a pull request is up for review exactly when its
\* revision and head have a result, however a submission and a request for a
\* revision raced: except where an operation ended in an error halfway
\* (reported to its caller), or the advisor asked for work in progress.
RoutingFollowsEvidence ==
  Quiet => \A n \in Pulls \ (halfway \cup parked) : pulls[n].state = "open" =>
             IF HasResult(n, pulls[n]) THEN Reviewable(n) ELSE InProgress(n)

\* "a stale result that loses a revision race restores the current revision
\* to WIP before failing" (SPEC.md:437): when a pushed submission ends and
\* its revision is no longer the current one, no other operation is under way and
\* nothing was lost, the pull request is not up for review without a result.
LostRaceRestoresWip ==
  [][LET call == w["student"]
     IN  (/\ call.at \notin {"idle", "push"} /\ w'["student"] = Idle /\ call.op = "submit"
          /\ w["advisor"] = Idle /\ faults = 0
          /\ pulls[call.n].rev # call.rev /\ ~ HasResult(call.n, pulls[call.n]))
           => ~ Reviewable(call.n)]_vars

\* Creations, revisions, decisions and closings never give the student two
\* active assignments, also when a creation lost requests or was cut off and is
\* repeated after another one was made, or a closing came between
\* (assignments.py, revisions.py).  A repair, and a submission that races a
\* creation, set labels without a look at other assignments.
OneActiveAssignment ==
  scope.ops \cap {"submit", "repair"} = {} => Cardinality({n \in Pulls : IsActive(n)}) <= 1

\* README.md:240 "A student cannot receive another assignment while an open
\* assignment has `status:wip` or `status:review`": no step turns a pull
\* request into an active assignment while there is another.
SecondAssignmentRefused ==
  [][\A n \in Pulls : ~ IsActive(n) /\ IsActive(n)' => Conflicts(n) = {}]_vars
=============================================================================
