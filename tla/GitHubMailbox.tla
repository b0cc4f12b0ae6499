---------------------------- MODULE GitHubMailbox ---------------------------
(***************************************************************************)
(* The GitHub mailbox of a controller (senpai_agent/github/mailbox) and    *)
(* the cycle around it (MailboxCycle).  GitHub is one assignment's pull    *)
(* request, whose revision, label, comments and base branch others change, *)
(* and a human issue.  A poll reads the list of pull requests first and    *)
(* their comments later.                                                   *)
(*                                                                         *)
(* A student's feedback is kept in a ledger on disk, each version of a     *)
(* comment bound to the revision its source was first seen with, until the *)
(* turn that carried it is acknowledged.  An advisor's news have no ledger *)
(* and are told from old ones only by the keys of the last poll.           *)
(***************************************************************************)
EXTENDS MailboxCycle

CONSTANTS
    Typed,              \* comments that carry the marker of their revision
    FeedbackBatch       \* feedback_batch_events

ASSUME MailboxAssumption ==
    /\ \A s \in Scopes :
          {s.revisions, s.comments, s.versions, s.humans, s.bases, s.notes, s.remarks} \subseteq Nat
    /\ Typed \subseteq Nat
    /\ FeedbackBatch \in Nat \ {0}

VARIABLES
    revision,   \* of the assignment
    status,     \* label of its pull request: "wip", "review", or "none" (closed)
    version,    \* comment -> its version, posted at 1
    marker,     \* comment -> revision in its marker
    human,      \* latest human message of the issue
    base,       \* head of the base branch; the assignment was made from 0
    accepted,   \* base head the advisor accepted for the result under review
    notes,      \* assignment comments of the student
    remarks,    \* human comments on the pull request
    ledger,     \* github-feedback.json: key -> revision and acknowledged
    snap        \* revision and status as the poll under way read them

NoSnapshot == [revision |-> 0, status |-> "none"]
gitHubVars == <<revision, status, version, marker, human, base, accepted, notes, remarks>>
vars == <<cycleVars, gitHubVars, ledger, snap>>

Snapshot == [revision |-> revision, status |-> status]

Init ==
    /\ CycleInit
    /\ revision = 1 /\ status = "wip"
    /\ version = << >> /\ marker = << >>
    /\ human = 0 /\ base = 0 /\ accepted = 0 /\ notes = 0 /\ remarks = 0
    /\ ledger = << >> /\ snap = NoSnapshot

(***************************************************************************)
(* What others do on GitHub.                                               *)
(***************************************************************************)
Submit ==
    /\ status = "wip" /\ status' = "review"
    /\ UNCHANGED <<cycleVars, revision, version, marker, human, base, accepted, notes, remarks,
                   ledger, snap>>

Revise ==
    /\ status \in {"review", "none"} /\ revision < scope.revisions
    /\ status' = "wip" /\ revision' = revision + 1
    /\ UNCHANGED <<cycleVars, version, marker, human, base, accepted, notes, remarks, ledger,
                   snap>>

Close ==
    /\ scope.role = "advisor" /\ status = "review" /\ status' = "none"
    /\ UNCHANGED <<cycleVars, revision, version, marker, human, base, accepted, notes, remarks,
                   ledger, snap>>

PostComment ==
    LET c == Cardinality(DOMAIN version) + 1
    IN  /\ scope.role = "student" /\ c \in 1..scope.comments
        /\ version' = [d \in 1..c |-> IF d = c THEN 1 ELSE version[d]]
        /\ marker' = [d \in 1..c |-> IF d = c THEN revision ELSE marker[d]]
        /\ UNCHANGED <<cycleVars, revision, status, human, base, accepted, notes, remarks, ledger,
                       snap>>

EditComment ==
    /\ \E c \in DOMAIN version :
        /\ version[c] < scope.versions
        /\ version' = [version EXCEPT ![c] = @ + 1]
    /\ UNCHANGED <<cycleVars, revision, status, marker, human, base, accepted, notes, remarks,
                   ledger, snap>>

HumanWrites ==
    /\ human < scope.humans /\ human' = human + 1
    /\ UNCHANGED <<cycleVars, revision, status, version, marker, base, accepted, notes, remarks,
                   ledger, snap>>

BaseMoves ==
    /\ scope.role = "advisor" /\ base < scope.bases /\ base' = base + 1
    /\ UNCHANGED <<cycleVars, revision, status, version, marker, human, accepted, notes, remarks,
                   ledger, snap>>

AcceptBase ==
    /\ scope.role = "advisor" /\ status = "review" /\ accepted # base /\ accepted' = base
    /\ UNCHANGED <<cycleVars, revision, status, version, marker, human, base, notes, remarks,
                   ledger, snap>>

StudentWrites ==
    /\ scope.role = "advisor" /\ status # "none" /\ notes < scope.notes /\ notes' = notes + 1
    /\ UNCHANGED <<cycleVars, revision, status, version, marker, human, base, accepted, remarks,
                   ledger, snap>>

HumanRemarks ==
    /\ scope.role = "advisor" /\ status # "none" /\ remarks < scope.remarks
    /\ remarks' = remarks + 1
    /\ UNCHANGED <<cycleVars, revision, status, version, marker, human, base, accepted, notes,
                   ledger, snap>>

(***************************************************************************)
(* Events of a student.  A comment is bound when it is first seen, by its  *)
(* marker or to the revision of the list of pull requests; its later       *)
(* versions inherit that.                                                  *)
(***************************************************************************)
Conversation(r) == <<"revision", r>>

\* trusted comments of the pull request, in the order of their creation
Candidates == DOMAIN version
FeedbackKey(c) == <<"feedback", c, version[c]>>
Trusted(c) == IF c \in Typed THEN marker[c] ELSE snap.revision

Prior(c) == {ledger[k].revision : k \in {j \in DOMAIN ledger : j[2] = c}}

\* Mutant: a later version is bound as if it were the first.
BindAnew(c) == Trusted(c)

Bind(c) == IF Prior(c) = {} THEN Trusted(c) ELSE CHOOSE r \in Prior(c) : TRUE

FirstSeen == {c \in Candidates : FeedbackKey(c) \notin DOMAIN ledger}

\* Mutant: an edited version is acknowledged like the versions before it.
BoundAcknowledged ==
    [k \in {FeedbackKey(c) : c \in FirstSeen} |->
        [revision |-> Bind(k[2]),
         acked |-> \E j \in DOMAIN ledger : j[2] = k[2] /\ ledger[j].acked]]

\* ledger entries of the versions not seen before
Bound ==
    [k \in {FeedbackKey(c) : c \in FirstSeen} |-> [revision |-> Bind(k[2]), acked |-> FALSE]]

Written(bound) ==
    [k \in DOMAIN ledger \cup DOMAIN bound |-> IF k \in DOMAIN bound THEN bound[k] ELSE ledger[k]]

PriorRevision(c, entries) == entries[FeedbackKey(c)].revision # snap.revision

PendingFeedback(entries) ==
    LET pending == {c \in Candidates : ~entries[FeedbackKey(c)].acked}
        prior == {c \in pending : PriorRevision(c, entries)}
    IN  IF prior # {} THEN prior ELSE pending

FeedbackBatchOf(offered) ==
    {c \in offered : Cardinality({d \in offered : d < c}) < FeedbackBatch}

\* A new revision waits until the feedback of the one before is acknowledged.
Assignment(batch, entries) ==
    IF snap.status = "wip" /\ ~\E c \in batch : PriorRevision(c, entries)
    THEN {Event(<<"assignment", snap.revision>>, Conversation(snap.revision))} ELSE {}

\* the latest human message
HumanIssue(conv) == IF human > 0 THEN {Event(<<"human", human>>, conv)} ELSE {}

StudentEvents(entries) ==
    LET batch == FeedbackBatchOf(PendingFeedback(entries))
    IN  {Event(FeedbackKey(c), Conversation(entries[FeedbackKey(c)].revision)) : c \in batch}
        \cup Assignment(batch, entries) \cup HumanIssue(<<"issue", 1>>)

\* A student's watcher takes the feedback of its conversation and human messages.
LiveEvents(events) ==
    {Event(e.key, turn) : e \in {f \in events :
        Kind(f.key) = "human" \/ (Kind(f.key) = "feedback" /\ f.conv = turn)}}

(***************************************************************************)
(* Events of an advisor.  The head of the base branch and the comments of  *)
(* the pull request are read one by one, and each read may fail alone.     *)
(***************************************************************************)
Active == snap.status # "none"
ReviewReady == IF snap.status = "review" THEN {<<"review", snap.revision>>} ELSE {}
Available == IF Active THEN {} ELSE {<<"available", 1>>}

BaseAccepted(broken) ==
    snap.status = "review" /\ "comments" \notin broken /\ accepted = base
ResearchBase(broken) ==
    IF Active /\ "base" \notin broken /\ base # 0 /\ ~BaseAccepted(broken)
    THEN {<<"base", snap.revision, base>>} ELSE {}

StudentComments(broken) ==
    IF Active /\ "comments" \notin broken THEN {<<"note", n>> : n \in 1..notes} ELSE {}
HumanComments(broken) ==
    IF Active /\ "comments" \notin broken THEN {<<"remark", n>> : n \in 1..remarks} ELSE {}

AdvisorEvents(broken) ==
    {Event(k, <<"advisor", 1>>) :
        k \in ReviewReady \cup Available \cup ResearchBase(broken)
              \cup StudentComments(broken) \cup HumanComments(broken)}
    \cup HumanIssue(<<"advisor", 1>>)

AdvisorLiveEvents(events) == {e \in events : Kind(e.key) # "available"}

\* StudentAssignmentAvailabilityMailbox: what the snapshot no longer shows
\* leaves the store and the queue.
Withdrawn(k, events) == Kind(k) = "available" /\ k \notin Keys(events)
DiscardPrefix(events) == Restrict(store, {k \in DOMAIN store : ~Withdrawn(k, events)})
RetractPending(events) ==
    Restrict(rows, {r \in DOMAIN rows : ~(Withdrawn(r[2], events) /\ rows[r] = "queued")})

(***************************************************************************)
(* A poll by the controller or the watcher: never by both, for the turn    *)
(* runs in the controller's thread.                                        *)
(***************************************************************************)
ReadPulls ==
    /\ StartPoll \/ WatcherPolls
    /\ snap' = Snapshot
    /\ UNCHANGED <<gitHubVars, ledger>>

Broken ==
    IF errors < scope.errors /\ snap.status # "none"
    THEN SUBSET {"base", "comments"} ELSE {{}}

StudentPoll ==
    /\ scope.role = "student"
    /\ LET entries == Written(Bound)
           events == StudentEvents(entries)
       IN  /\ \/ PollEnds(Merged(events, store)) /\ UNCHANGED store
              \/ WatcherStages(events, LiveEvents(events), store)
           /\ ledger' = entries
    /\ snap' = NoSnapshot
    /\ UNCHANGED <<gitHubVars, rows, errors>>

AdvisorPoll ==
    /\ scope.role = "advisor"
    /\ \E broken \in Broken :
        LET events == AdvisorEvents(broken)
            stored == DiscardPrefix(events)
        IN  /\ errors' = IF broken = {} THEN errors ELSE errors + 1
            /\ rows' = RetractPending(events)
            /\ \/ PollEnds(Merged(events, stored)) /\ store' = stored
               \/ WatcherStages(events, AdvisorLiveEvents(events), stored)
    /\ snap' = NoSnapshot
    /\ UNCHANGED <<gitHubVars, ledger>>

\* CompositeMailbox goes on without GitHub.
GitHubFails ==
    /\ errors < scope.errors /\ errors' = errors + 1
    /\ PollEnds(LocalEvents(store))
    /\ snap' = NoSnapshot
    /\ UNCHANGED <<gitHubVars, ledger, rows, store>>

\* GitHubMailbox.acknowledge, then the local store's.
Acknowledge ==
    /\ AcknowledgeMailboxes
    /\ ledger' = [k \in DOMAIN ledger |->
                    IF k \in ProcessedKeys THEN [ledger[k] EXCEPT !.acked = TRUE] ELSE ledger[k]]
    /\ UNCHANGED <<gitHubVars, snap>>

Cycle ==
    /\ \/ AcknowledgeInbox \/ NothingProcessed \/ EnqueueEvents \/ StartTurn \/ Pump
       \/ TurnProcessed \/ TurnFails \/ JoinWatcher \/ Sleep \/ NextCycle
    /\ UNCHANGED <<gitHubVars, ledger, snap>>

\* A poll of the watcher fails, or the worker dies.
Fault ==
    /\ WatcherMisses \/ Restart
    /\ snap' = NoSnapshot
    /\ UNCHANGED <<gitHubVars, ledger>>

GitHub ==
    \/ Submit \/ Revise \/ Close \/ PostComment \/ EditComment \/ HumanWrites \/ BaseMoves
    \/ AcceptBase \/ StudentWrites \/ HumanRemarks

Next ==
    \/ ReadPulls \/ StudentPoll \/ AdvisorPoll \/ GitHubFails
    \/ Acknowledge \/ Cycle \/ Fault \/ GitHub

\* The controller's thread runs on, polls are answered, and a turn ends.
Controlling ==
    pc # "turn" /\ (ReadPulls \/ StudentPoll \/ AdvisorPoll \/ Acknowledge \/ Cycle)
TurnEnds == TurnProcessed /\ UNCHANGED <<gitHubVars, ledger, snap>>

Spec == Init /\ [][Next]_vars
FairSpec == Spec /\ WF_vars(Controlling) /\ WF_vars(TurnEnds)

-----------------------------------------------------------------------------
\* No version of a student's feedback, and no human message or comment, is
\* processed twice, whatever polls fail, in whichever conversation it arrives, and
\* wherever between the two acknowledgements of its turn the worker dies.
ToldOnce ==
    \A k \in DOMAIN told : Kind(k) \in {"feedback", "human", "remark"} => told[k] = 1

\* Every version of a comment stays with the revision its first version was
\* bound to, by its marker when it has one, and reaches the inbox only in the
\* conversation of that revision; the ledger can acknowledge what a turn holds.
FeedbackKeepsRevision ==
    /\ \A j, k \in DOMAIN ledger : j[2] = k[2] => ledger[j].revision = ledger[k].revision
    /\ \A k \in DOMAIN ledger : k[2] \in Typed => ledger[k].revision = marker[k[2]]
    /\ \A r \in DOMAIN rows : Kind(r[2]) = "feedback" =>
           r[2] \in DOMAIN ledger /\ r[1] = Conversation(ledger[r[2]].revision)

\* The controller always gets to sleep: a reminder is not sent again by the
\* poll after the turn it caused.
CycleEnds == []<>(pc = "sleep")

AllTold ==
    /\ \A c \in DOMAIN version : FeedbackKey(c) \in DOMAIN told
    /\ human > 0 => <<"human", human>> \in DOMAIN told

\* The latest version of each comment, and the latest human message, are
\* processed in the end, through failed polls, full batches and a dead worker.
EveryInputIsTold == []<>AllTold

\* README.md:404 "`research_base_changed` and student assignment comments are
\* also delivered once per exact event version".  The inbox does not know them
\* for such: they are recognised by the keys of the last poll alone.
EdgeOnce == \A k \in DOMAIN told : Kind(k) \in {"base", "note"} => told[k] = 1

\* SPEC.md:121 "While an OpenHands turn is running, `ActiveGitHubWatcher` polls
\* the same GitHub state": no event it has staged before may end it.
WatcherLives == watcher # "failed"
=============================================================================
