-------------------------- MODULE StudentWorkspace --------------------------
(***************************************************************************)
(* The student's checkout, what the controller does to it before it queues *)
(* an assignment or feedback for the model, and how a checkout that cannot *)
(* be reconciled is reported: workspace.py, state.py and the controller's  *)
(* _enqueue_events and _acknowledge_processed_turns.                       *)
(*                                                                         *)
(* The controller's thread polls, reconciles, queues and runs turns, one   *)
(* after the other.  The model works in the checkout during a turn; the    *)
(* helpers it delegated to work in the same directory and outlive turns    *)
(* (delegation.py).  GitHub changes at any time.  The inbox is reduced to  *)
(* what matters here: per conversation a live turn and the events that     *)
(* wait for the next one; a key that is live is not queued again.          *)
(*                                                                         *)
(* A commit is the sequence of changes that lead to it, so one commit is   *)
(* an ancestor of another when it is a prefix.  A conversation is named by *)
(* its assignment and revision, as in AssignmentConversationRegistry.      *)
(***************************************************************************)
EXTENDS Integers, Sequences, FiniteSets, SequencesExt

CONSTANTS Scopes  \* bounds, one of which a behaviour has:
  \* assignments, each with a branch of its own, in the order of their creation;
  \* revs of an assignment; changes that can follow one another on a branch;
  \* states of uncommitted work; messages of feedback; events that wait when the
  \* controller polls; deaths of the controller; whether helpers may write to
  \* the checkout between turns

ASSUME ScopesAssumption ==
  \A s \in Scopes :
    /\ s.assignments \subseteq Nat \ {0}
    /\ {s.revs, s.changes, s.work, s.feedback, s.waiting, s.deaths} \subseteq Nat
    /\ s.helpers \in BOOLEAN

VARIABLES
  scope,    \* the bounds of this behaviour
  pulls,    \* assignment -> its pull request as the mailbox reads it
  remote,   \* assignment -> head of its branch on GitHub
  feedback, \* feedback that is not acknowledged
  local,    \* branch -> local head
  on,       \* the branch that is checked out
  work,     \* uncommitted work, 0 when the worktree is clean
  workOf,   \* the branch on which that work was begun
  ctl,      \* what the controller's thread does
  visible,  \* keys the controller has seen since it started
  inbox,    \* conversation -> its live turn and the events that wait
  ledger,   \* conversation -> the divergence handled last
  last,     \* conversation -> the divergences of the turn that told it some last
  late,     \* a helper wrote between the look at the checkout and its change
  sent,     \* feedback so far
  deaths    \* deaths so far

gitHub == <<pulls, remote, feedback, sent>>
checkout == <<local, on, work, workOf>>
store == <<inbox, ledger, last>>
vars == <<scope, gitHub, checkout, store, ctl, visible, late, deaths>>

None == <<>>
Main == 0
Assignments == scope.assignments
Branches == Assignments \cup {Main}
Conversations == Assignments \X (1..scope.revs)
Root(b) == <<b>>
Changes == {1}
Commits(b) ==
  {Root(b) \o marks : marks \in UNION {[1..n -> Changes] : n \in 0..scope.changes}}
IsAncestor(commit, of) == IsPrefix(commit, of)

Idle == [at |-> "idle"]
EmptyInbox == [turn |-> <<>>, processed |-> FALSE, queue |-> <<>>]

-----------------------------------------------------------------------------
(* Events and the inbox.                                                   *)

Assignment(a) ==
  [kind |-> "assignment", a |-> a, rev |-> pulls[a].rev, head |-> pulls[a].head]
Feedback(a, n) ==
  [kind |-> "feedback", a |-> a, rev |-> pulls[a].rev, head |-> pulls[a].head, n |-> n]
\* StudentConversationSelector with the registry's name.
ConversationFor(event) == <<event.a, event.rev>>

\* The key of a divergence tells everything its message says.
Divergence(event, expected, head, branch, changes) ==
  [kind |-> "diverged", a |-> event.a, rev |-> event.rev, expected |-> expected,
   head |-> head, on |-> branch, work |-> changes]

Live(c) == ToSet(inbox[c].turn) \cup ToSet(inbox[c].queue)
Queued(c, event) ==
  IF event \in Live(c) THEN inbox
                       ELSE [inbox EXCEPT ![c].queue = Append(@, event)]
IsDivergence(event) == event.kind = "diverged"
Divergences(events) == {e \in ToSet(events) : IsDivergence(e)}
FirstDivergence(events) == events[SelectInSeq(events, IsDivergence)]
IsAssignment(event) == event.kind = "assignment"
HasAssignment(events) == \E e \in ToSet(events) : IsAssignment(e)

-----------------------------------------------------------------------------
Init ==
  /\ scope \in Scopes
  /\ pulls = [a \in Assignments |-> [state |-> "none", rev |-> 1, head |-> Root(a)]]
  /\ remote = [a \in Assignments |-> Root(a)]
  /\ feedback = {} /\ sent = 0
  /\ local = [b \in Branches |-> IF b = Main THEN Root(Main) ELSE None]
  /\ on = Main /\ work = 0 /\ workOf = Main
  /\ ctl = Idle /\ visible = {}
  /\ inbox = [c \in Conversations |-> EmptyInbox]
  /\ ledger = [c \in Conversations |-> None]
  /\ last = [c \in Conversations |-> {}]
  /\ late = FALSE /\ deaths = 0

-----------------------------------------------------------------------------
(* GitHub.                                                                 *)

\* A new assignment, when no other pull request is open.
Assign(a) ==
  /\ pulls[a].state = "none" /\ \A b \in Assignments : pulls[b].state # "open"
  /\ \A b \in Assignments : b < a => pulls[b].state = "closed"
  /\ pulls' = [pulls EXCEPT ![a].state = "open"]
  /\ UNCHANGED <<remote, feedback, sent>>

CloseOrRevise(a) ==
  /\ pulls[a].state = "open"
  /\ \/ pulls' = [pulls EXCEPT ![a].state = "closed"]
     \/ pulls[a].rev < scope.revs /\ pulls' = [pulls EXCEPT ![a].rev = @ + 1]
  /\ UNCHANGED <<remote, feedback, sent>>

\* Feedback, as the poll that first reads it binds it to a revision and a head.
SendFeedback(a) ==
  /\ pulls[a].state = "open" /\ sent < scope.feedback
  /\ sent' = sent + 1
  /\ feedback' = feedback \cup {Feedback(a, sent')}
  /\ UNCHANGED <<pulls, remote>>

\* Somebody else pushes to the branch, or rewrites it.
RemoteMoves(a) ==
  /\ pulls[a].state = "open"
  /\ \E commit \in Commits(a) \ {remote[a]} : remote' = [remote EXCEPT ![a] = commit]
  /\ UNCHANGED <<pulls, feedback, sent>>

\* The pull request shows the head of its branch a little later.
PullFollows(a) ==
  /\ pulls[a].state = "open" /\ pulls[a].head # remote[a]
  /\ pulls' = [pulls EXCEPT ![a].head = remote[a]]
  /\ UNCHANGED <<remote, feedback, sent>>

GitHub ==
  /\ \E a \in Assignments :
       Assign(a) \/ CloseOrRevise(a) \/ SendFeedback(a) \/ RemoteMoves(a) \/ PullFollows(a)
  /\ UNCHANGED <<scope, checkout, store, ctl, visible, late, deaths>>

-----------------------------------------------------------------------------
(* Work in the checkout, by the model or a helper.                         *)

Edit ==
  /\ work' \in 0..scope.work /\ work' # work
  /\ workOf' = IF work = 0 THEN on ELSE workOf
  /\ UNCHANGED <<local, on>>

CommitWork ==
  /\ on # Main /\ Len(local[on]) <= scope.changes
  /\ \E change \in Changes : local' = [local EXCEPT ![on] = Append(@, change)]
  /\ work' = 0 /\ workOf' = on
  /\ UNCHANGED on

\* An amended or dropped commit.
Rewrite ==
  /\ on # Main /\ Len(local[on]) > 1
  /\ local' = [local EXCEPT ![on] = Front(@)]
  /\ UNCHANGED <<on, work, workOf>>

\* The model changes to a branch itself and takes its uncommitted work along.
Switch ==
  /\ \E b \in Branches \ {on} : local[b] # None /\ on' = b
  /\ workOf' = on'
  /\ UNCHANGED <<local, work>>

\* push_assignment_branch: a clean worktree, and a fast-forward.
Push ==
  /\ on # Main /\ work = 0 /\ local[on] # remote[on] /\ IsAncestor(remote[on], local[on])
  /\ remote' = [remote EXCEPT ![on] = local[on]]
  /\ UNCHANGED <<checkout, pulls, feedback, sent>>

Student ==
  /\ ctl.at = "turn"
  /\ \/ (Edit \/ CommitWork \/ Rewrite \/ Switch) /\ UNCHANGED gitHub
     \/ Push
  /\ UNCHANGED <<scope, store, ctl, visible, late, deaths>>

\* A helper leaves branches alone.  What it writes between the look at the
\* checkout and its change is not seen by the reconciliation.
Helper ==
  /\ scope.helpers /\ ctl.at # "turn"
  /\ Edit \/ CommitWork
  /\ late' = (late \/ ctl.at \in {"create", "checkout"})
  /\ UNCHANGED <<scope, gitHub, store, ctl, visible, deaths>>

-----------------------------------------------------------------------------
(* The controller polls and reconciles.                                    *)

\* student_events: the feedback on earlier revisions alone, or the assignment and
\* then the feedback in its order.
PolledOf(a) ==
  LET waiting == {f \in feedback : f.a = a}
      prior == {f \in waiting : f.rev # pulls[a].rev}
  IN  IF prior # {} THEN prior ELSE {Assignment(a)} \cup waiting
InOrder(events) ==
  LET Before(e, f) == ~ IsAssignment(f) /\ (IsAssignment(e) \/ e.n < f.n)
      At(i) == CHOOSE f \in events : Cardinality({e \in events : Before(e, f)}) = i - 1
  IN  [i \in 1..Cardinality(events) |-> At(i)]
Open == {a \in Assignments : pulls[a].state = "open"}
Polled == UNION {PolledOf(a) : a \in Open}

\* _new_events: keys not seen before and, when reminders are due, those seen.
\* The batches of several conversations are taken poll by poll.
Poll ==
  /\ ctl = Idle /\ \A c \in Conversations : ~ inbox[c].processed
  /\ \E a \in Open, remind \in BOOLEAN, rev \in 1..scope.revs :
       LET events == InOrder({e \in PolledOf(a) : e.rev = rev /\ (remind \/ e \notin visible)})
       IN  /\ events # <<>> /\ Len(inbox[<<a, rev>>].queue) < scope.waiting
           /\ ctl' = [at |-> "hydrate", conv |-> <<a, rev>>, events |-> events,
                      assigned |-> Head(events).head]
           /\ visible' = (visible \cap Polled) \cup ToSet(events)
  /\ UNCHANGED <<scope, gitHub, checkout, store, late, deaths>>

\* _hydrate fetches the branch as it is now.
Hydrate ==
  /\ ctl.at = "hydrate"
  /\ ctl' = [at |-> "inspect", conv |-> ctl.conv, events |-> ctl.events,
              assigned |-> ctl.assigned, fetched |-> remote[ctl.conv[1]]]
  /\ UNCHANGED <<scope, gitHub, checkout, store, visible, late, deaths>>

\* Uncommitted work does not keep another branch from being checked out (mutant).
NeverStays(a) == FALSE

\* Uncommitted work keeps another branch from being checked out.
Stays(a) == on # a /\ work # 0

Conflict(expected, head) ==
  ctl' = [at |-> "tell", conv |-> ctl.conv, events |-> ctl.events,
          key |-> Divergence(ctl.events[1], expected, head, on, work)]

\* The looks at branch, worktree and local head, and the decision.
Inspect ==
  /\ ctl.at = "inspect"
  /\ LET a == ctl.conv[1]
     IN  CASE Stays(a) -> Conflict(ctl.assigned, local[on])
           [] ~ Stays(a) /\ local[a] = None ->
                IF ctl.fetched = ctl.assigned THEN ctl' = [ctl EXCEPT !.at = "create"]
                                              ELSE Conflict(ctl.fetched, local[on])
           [] OTHER ->
                IF IsAncestor(ctl.assigned, ctl.fetched) /\ IsAncestor(ctl.fetched, local[a])
                  THEN ctl' = [ctl EXCEPT !.at = "checkout"]
                  ELSE Conflict(ctl.fetched, local[a])
  /\ UNCHANGED <<scope, gitHub, checkout, store, visible, late, deaths>>

\* git checkout, and what _enqueue_events does when nothing was raised: an
\* assignment that could be checked out clears the ledger.  What a helper
\* wrote meanwhile goes along (or git refuses, and the controller dies).
Checkout ==
  /\ ctl.at \in {"create", "checkout"}
  /\ local' = IF ctl.at = "create" THEN [local EXCEPT ![ctl.conv[1]] = ctl.fetched] ELSE local
  /\ on' = ctl.conv[1]
  /\ ctl' = [ctl EXCEPT !.at = "queue"]
  /\ IF HasAssignment(ctl.events)
       THEN /\ ledger' = [ledger EXCEPT ![ctl.conv] = None]
            /\ last' = [last EXCEPT ![ctl.conv] = {}]
       ELSE UNCHANGED <<ledger, last>>
  /\ UNCHANGED <<scope, gitHub, work, workOf, inbox, visible, late, deaths>>

\* A divergence whose message waits counts as told (mutant).
KnownOrWaiting(c, key) == ledger[c] = key \/ key \in Live(c)

\* The divergence the conversation handled last.
Known(c, key) == ledger[c] = key

\* A divergence that was handled already is not told again with a reminder of
\* the assignment, only with feedback.
Tell ==
  /\ ctl.at = "tell"
  /\ LET IsOther(e) == ~ IsAssignment(e)
         known == Known(ctl.conv, ctl.key)
         events == IF known THEN SelectSeq(ctl.events, IsOther) ELSE ctl.events
     IN  ctl' = IF known /\ \A e \in ToSet(ctl.events) : IsAssignment(e)
                  THEN Idle
                  ELSE [ctl EXCEPT !.at = "queue", !.events = Append(events, ctl.key)]
  /\ UNCHANGED <<scope, gitHub, checkout, store, visible, late, deaths>>

\* The events are queued one by one.
Enqueue ==
  /\ ctl.at = "queue"
  /\ inbox' = Queued(ctl.conv, Head(ctl.events))
  /\ ctl' = IF Len(ctl.events) = 1 THEN Idle ELSE [ctl EXCEPT !.events = Tail(@)]
  /\ UNCHANGED <<scope, gitHub, checkout, ledger, last, visible, late, deaths>>

-----------------------------------------------------------------------------
(* Turns and their acknowledgement.                                        *)

\* A live turn is run again; otherwise the waiting events make one.
StartTurn(c) ==
  /\ ctl = Idle /\ \A d \in Conversations : ~ inbox[d].processed
  /\ inbox[c].turn # <<>> \/ inbox[c].queue # <<>>
  /\ inbox' = IF inbox[c].turn # <<>> THEN inbox
              ELSE [inbox EXCEPT ![c].turn = inbox[c].queue, ![c].queue = <<>>]
  /\ ctl' = [at |-> "turn", conv |-> c]
  /\ UNCHANGED <<scope, gitHub, checkout, ledger, last, visible, late, deaths>>

\* The turn is processed, or it fails and stays live.
EndTurn(processed) ==
  /\ ctl.at = "turn"
  /\ ctl' = Idle
  /\ LET c == ctl.conv  keys == Divergences(inbox[c].turn)
     IN  IF processed
           THEN /\ inbox' = [inbox EXCEPT ![c].processed = TRUE]
                /\ last' = IF keys = {} THEN last ELSE [last EXCEPT ![c] = keys]
           ELSE UNCHANGED <<inbox, last>>
  /\ UNCHANGED <<scope, gitHub, checkout, ledger, visible, late, deaths>>

\* Nothing is recorded (mutant).
RecordNothing(c) == ledger

\* _record_workspace_divergence: the turn's first divergence.
Record(c) ==
  IF Divergences(inbox[c].turn) = {} THEN ledger
  ELSE [ledger EXCEPT ![c] = FirstDivergence(inbox[c].turn)]

\* The mailbox first, then the ledger, then the inbox.
Acknowledge(c) ==
  /\ ctl = Idle /\ inbox[c].processed
  /\ feedback' = feedback \ ToSet(inbox[c].turn)
  /\ ledger' = Record(c)
  /\ ctl' = [at |-> "acknowledge", conv |-> c]
  /\ UNCHANGED <<scope, pulls, remote, sent, checkout, inbox, last, visible, late, deaths>>

AcknowledgeInbox ==
  /\ ctl.at = "acknowledge"
  /\ visible' = visible \cup {e \in ToSet(inbox[ctl.conv].turn) : ~ IsDivergence(e)}
  /\ inbox' = [inbox EXCEPT ![ctl.conv].turn = <<>>, ![ctl.conv].processed = FALSE]
  /\ ctl' = Idle
  /\ UNCHANGED <<scope, gitHub, checkout, ledger, last, late, deaths>>

\* The controller dies, or a git command fails and ends it; the supervisor
\* starts another one.
Dies ==
  /\ deaths < scope.deaths
  /\ deaths' = deaths + 1
  /\ ctl' = Idle /\ visible' = {}
  /\ UNCHANGED <<scope, gitHub, checkout, store, late>>

Controller ==
  \/ Poll \/ Hydrate \/ Inspect \/ Checkout \/ Tell \/ Enqueue
  \/ \E c \in Conversations : StartTurn(c) \/ Acknowledge(c)
  \/ \E processed \in BOOLEAN : EndTurn(processed)
  \/ AcknowledgeInbox \/ Dies

Next == GitHub \/ Student \/ Helper \/ Controller

Spec == Init /\ [][Next]_vars

-----------------------------------------------------------------------------
(* Properties.                                                             *)

\* Uncommitted work stays on the branch it was begun on until the model moves
\* it, through polls, stale heads, reminders, new assignments and restarts;
\* a helper that writes behind the reconciliation's back is the exception.
WorkStaysOnItsBranch == work # 0 /\ ~ late => on = workOf

\* An assignment is only kept from a conversation when the last of its finished
\* turns that told of a divergence told exactly this one, and the assignment
\* was not checked out since, whatever crashed in between.
SuppressedWasTold ==
  [][(ctl.at = "tell" /\ HasAssignment(ctl.events) /\ deaths' = deaths
      /\ (ctl' = Idle \/ ~ HasAssignment(ctl'.events)))
        => ctl.key \in last[ctl.conv]]_vars

\* A poll that brings nothing but the assignment again does not wake the model
\* for a divergence that was told last and alone, through restarts and failed
\* turns, heads that moved and came back, and work that was redone.
ReminderIsQuiet ==
  [][(/\ ctl.at = "tell" /\ ctl' # ctl /\ deaths' = deaths
      /\ \A e \in ToSet(ctl.events) : IsAssignment(e)
      /\ last[ctl.conv] = {ctl.key}) => ctl' = Idle]_vars

\* "Before each assignment or PR-feedback turn, the student controller
\* authenticates and hydrates the exact assignment head ..." (README.md:243):
\* the turn starts on its branch, or its conversation knows why not.
Starts(c) == ctl = Idle /\ ctl'.at = "turn" /\ ctl'.conv = c /\ inbox[c].turn = <<>>
TurnOnItsCheckout ==
  [][\A c \in Conversations :
       (Starts(c) /\ last[c] = {} /\ Divergences(inbox'[c].turn) = {}) => on = c[1]]_vars
=============================================================================
